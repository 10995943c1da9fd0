---------------------------- MODULE UsdStage_proofs ----------------------------
(***************************************************************************)
(* Proofs about a UsdStage.  The first part is about opening stages        *)
(* through caches, for any numbers of threads, caches and clients, any     *)
(* stacks of contexts and any session layers asked for: caches point to    *)
(* live requests only, and a stage is created once.  The second part is    *)
(* about the working set of a stage, for any scene and any load rules: the *)
(* queries on the rules are exact, calls change what they should, and the  *)
(* payloads that the rules load are composed.  The third part is about     *)
(* instances and the recomposition of a stage, for any scenes and edits:   *)
(* composition is asked for disjoint roots only, the maps of               *)
(* Usd_InstanceCache agree after each round, and once the changes have     *)
(* been taken up the prims, the indexes they point to and the instances    *)
(* that are registered are exactly those of the scene.                     *)
(***************************************************************************)
EXTENDS UsdStageCache, UsdStageWorkingSet, UsdInstanceCache, SequenceTheorems,
        FiniteSetTheorems, WellFoundedInduction, TLAPS

(* A set of numbers that is not empty has a least one.                     *)
LEMMA Least ==
    ASSUME NEW T, T \subseteq Nat, T # {}
    PROVE  \E i \in T : \A j \in T : i <= j
<1>1. IsWellFoundedOn(OpToRel(<, Nat), Nat)
  BY NatLessThanWellFounded
<1>2. PICK i \in T : \A j \in T : <<j, i>> \notin OpToRel(<, Nat)
  BY <1>1, WFMin
<1>3. \A j \in T : ~(j < i)
  BY <1>2 DEF OpToRel
<1> QED
  BY <1>3

(* The prefixes of sequences, by their elements.                           *)
LEMMA SeqPrefixMeans ==
    ASSUME NEW S, NEW s \in Seq(S), NEW t \in Seq(S)
    PROVE  IsPrefix(s, t) <=>
               Len(s) <= Len(t) /\ \A i \in 1 .. Len(s) : s[i] = t[i]
<1> DEFINE n == Len(s)
<1>1. n \in Nat /\ Len(t) \in Nat /\ s \in Seq(S) /\ t \in Seq(S)
  OBVIOUS
<1>2. CASE ~(Len(s) <= Len(t))
  BY <1>2 DEF IsPrefix
<1>3. CASE Len(s) <= Len(t)
  <2>1. (\A i \in 1 .. n : s[i] \in S) /\ (\A i \in 1 .. n : t[i] \in S)
    BY <1>1, <1>3, ElementOfSeq
  <2> HIDE DEF n
  <2>2. /\ SubSeq(s, 1, n) \in Seq(S)
        /\ Len(SubSeq(s, 1, n)) = IF 1 <= n THEN n - 1 + 1 ELSE 0
        /\ \A i \in 1 .. n - 1 + 1 : SubSeq(s, 1, n)[i] = s[1 + i - 1]
    BY <1>1, <2>1, SubSeqProperties
  <2>3. /\ SubSeq(t, 1, n) \in Seq(S)
        /\ Len(SubSeq(t, 1, n)) = IF 1 <= n THEN n - 1 + 1 ELSE 0
        /\ \A i \in 1 .. n - 1 + 1 : SubSeq(t, 1, n)[i] = t[1 + i - 1]
    BY <1>1, <2>1, SubSeqProperties
  <2>4. \A i \in 1 .. n : i \in 1 .. n - 1 + 1 /\ 1 + i - 1 = i
    BY <1>1
  <2>5. /\ Len(SubSeq(s, 1, n)) = n /\ Len(SubSeq(t, 1, n)) = n
        /\ \A i \in 1 .. n : SubSeq(s, 1, n)[i] = s[i] /\ SubSeq(t, 1, n)[i] = t[i]
    BY <1>1, <2>2, <2>3, <2>4
  <2>6. SubSeq(s, 1, n) = SubSeq(t, 1, n) <=> \A i \in 1 .. n : s[i] = t[i]
    BY <2>2, <2>3, <2>5, SeqEqual
  <2> QED
    BY <1>3, <2>6 DEF IsPrefix, n
<1> QED
  BY <1>2, <1>3

(* Prefixes are a partial order, linear below each sequence.               *)
LEMMA SeqPrefixOrder ==
    ASSUME NEW S, NEW a \in Seq(S), NEW b \in Seq(S), NEW c \in Seq(S)
    PROVE  /\ IsPrefix(a, a) /\ IsPrefix(<<>>, a)
           /\ IsPrefix(a, b) => Len(a) <= Len(b)
           /\ IsPrefix(a, b) /\ IsPrefix(b, c) => IsPrefix(a, c)
           /\ IsPrefix(a, b) /\ IsPrefix(b, a) => a = b
           /\ IsPrefix(a, c) /\ IsPrefix(b, c) =>
                  /\ Len(a) <= Len(b) => IsPrefix(a, b)
                  /\ IsPrefix(a, b) \/ IsPrefix(b, a)
<1>1. /\ Len(a) \in Nat /\ Len(b) \in Nat /\ Len(c) \in Nat
      /\ <<>> \in Seq(S) /\ Len(<<>>) = 0
  BY EmptySeq
<1>2. IsPrefix(a, a)
  BY <1>1, SeqPrefixMeans
<1>e. IsPrefix(<<>>, a)
  <2>1. PICK e \in Seq(S) : e = <<>> /\ Len(e) = 0
    BY <1>1
  <2>3. IsPrefix(e, a) <=> Len(e) <= Len(a) /\ \A i \in 1 .. Len(e) : e[i] = a[i]
    BY SeqPrefixMeans
  <2>2. IsPrefix(e, a)
    BY <1>1, <2>1, <2>3
  <2> QED
    BY <2>1, <2>2
<1>3. IsPrefix(a, b) => Len(a) <= Len(b)
  BY SeqPrefixMeans
<1>4. ASSUME IsPrefix(a, b), IsPrefix(b, c) PROVE IsPrefix(a, c)
  BY <1>1, <1>4, SeqPrefixMeans
<1>5. ASSUME IsPrefix(a, b), IsPrefix(b, a) PROVE a = b
  <2>1. Len(a) = Len(b) /\ \A i \in 1 .. Len(a) : a[i] = b[i]
    BY <1>1, <1>5, SeqPrefixMeans
  <2> QED
    BY <2>1, SeqEqual
<1>6. ASSUME IsPrefix(a, c), IsPrefix(b, c), Len(a) <= Len(b) PROVE IsPrefix(a, b)
  BY <1>1, <1>6, SeqPrefixMeans
<1>7. ASSUME IsPrefix(a, c), IsPrefix(b, c), Len(b) <= Len(a) PROVE IsPrefix(b, a)
  BY <1>1, <1>7, SeqPrefixMeans
<1> QED
  BY <1>1, <1>2, <1>e, <1>3, <1>4, <1>5, <1>6, <1>7

(* The front of a sequence is its longest strict prefix.                   *)
LEMMA SeqFrontMeans ==
    ASSUME NEW S, NEW q \in Seq(S), q # <<>>
    PROVE  /\ Front(q) \in Seq(S) /\ IsPrefix(Front(q), q)
           /\ Len(q) \in Nat \ {0} /\ Len(Front(q)) = Len(q) - 1
<1> DEFINE n == Len(q)
           f == Front(q)
<1>1. /\ q \in Seq(S) /\ n \in Nat /\ n # 0
      /\ \A i \in 1 .. n - 1 : q[i] \in S
  <2>1. q \in Seq(S) /\ n \in Nat
    OBVIOUS
  <2>2. n # 0
    BY <2>1, EmptySeq
  <2>3. \A i \in 1 .. n : q[i] \in S
    BY <2>1, ElementOfSeq
  <2> QED
    BY <2>1, <2>2, <2>3
<1> HIDE DEF n
<1>2. /\ f \in Seq(S) /\ Len(f) = IF 1 <= n - 1 THEN n - 1 - 1 + 1 ELSE 0
      /\ \A i \in 1 .. n - 1 - 1 + 1 : f[i] = q[1 + i - 1]
  BY <1>1, SubSeqProperties DEF Front, n
<1>3. Len(f) = n - 1 /\ f \in Seq(S)
  BY <1>1, <1>2
<1> HIDE DEF f
<1>4. ASSUME NEW i \in 1 .. n - 1 PROVE f[i] = q[i]
  <2>1. i \in 1 .. n - 1 - 1 + 1 /\ 1 + i - 1 = i
    BY <1>1
  <2> QED
    BY <1>2, <2>1
<1>5. IsPrefix(f, q) <=> Len(f) <= Len(q) /\ \A i \in 1 .. Len(f) : f[i] = q[i]
  BY <1>3, SeqPrefixMeans
<1> QED
  BY <1>1, <1>3, <1>4, <1>5 DEF f, n

-----------------------------------------------------------------------------
(* The caches of a stack of contexts                                       *)

Kinds == {"readWrite", "readOnly"}

LEMMA BeforeTyped ==
    ASSUME NEW contexts \in Seq(Contexts), NEW kinds
    PROVE  Before(contexts, kinds) \in Seq(Contexts)
<1> DEFINE blocks == {i \in 1 .. Len(contexts) : contexts[i].kind \in kinds}
<1>1. CASE blocks = {}
  BY <1>1 DEF Before
<1>2. CASE blocks # {}
  <2>1. \E i \in blocks : \A j \in blocks : i <= j
    <3>1. blocks \subseteq Nat
      OBVIOUS
    <3> HIDE DEF blocks
    <3> QED
      BY <1>2, <3>1, Least
  <2> DEFINE first == CHOOSE l \in blocks : \A j \in blocks : l <= j
  <2>2. first \in blocks
    BY <2>1
  <2>3. first - 1 \in Int /\ first - 1 <= Len(contexts) /\ Len(contexts) \in Nat
    BY <2>2
  <2> HIDE DEF first
  <2>4. \A j \in 1 .. first - 1 : contexts[j] \in Contexts
    BY <2>3, ElementOfSeq
  <2>5. SubSeq(contexts, 1, first - 1) \in Seq(Contexts)
    BY <2>3, <2>4, SubSeqProperties
  <2> QED
    BY <1>2, <2>5 DEF Before, first
<1> QED
  BY <1>1, <1>2

(* The function that CachesOf is defined by exists, and its values are     *)
(* sequences of caches: else there were a least argument that refutes it.  *)
LEMMA CachesOfTyped ==
    ASSUME NEW contexts \in Seq(Contexts), NEW kinds \in SUBSET Kinds
    PROVE  CachesOf(contexts, kinds) \in Seq(Caches)
<1> DEFINE n == Len(contexts)
           Next1(g, i) == IF i = 0 THEN <<>>
                          ELSE IF contexts[i].kind \in kinds
                          THEN Append(g[i - 1], contexts[i].cache) ELSE g[i - 1]
           IsUpTo(g, m) == g = [i \in 0 .. m |-> Next1(g, i)]
           f == CHOOSE g : IsUpTo(g, n)
<1>1. n \in Nat
  OBVIOUS
<1>2. \A m \in 0 .. n : \E g : IsUpTo(g, m)
  <2> DEFINE T == {m \in 0 .. n : ~\E g : IsUpTo(g, m)}
  <2> SUFFICES ASSUME T # {} PROVE FALSE
    OBVIOUS
  <2>l. \E m \in T : \A j \in T : m <= j
    <3>1. T \subseteq Nat
      OBVIOUS
    <3> HIDE DEF T
    <3> QED
      BY <3>1, Least
  <2>1. PICK m \in T : \A j \in T : m <= j
    BY <2>l
  <2>2. m \in 0 .. n /\ m \in Nat /\ \A g : ~IsUpTo(g, m)
    OBVIOUS
  <2>3. CASE m = 0
    <3> DEFINE g == [i \in 0 .. 0 |-> <<>>]
    <3>1. IsUpTo(g, 0)
      OBVIOUS
    <3> QED
      BY <2>2, <2>3, <3>1
  <2>4. CASE m # 0
    <3>1. m - 1 \in 0 .. n /\ m - 1 \notin T
      <4> HIDE DEF T
      <4> QED
        BY <2>1, <2>2, <2>4
    <3>2. PICK g : IsUpTo(g, m - 1)
      BY <3>1
    <3> DEFINE h == [i \in 0 .. m |-> IF i = m THEN Next1(g, m) ELSE g[i]]
    <3>3. ASSUME NEW i \in 0 .. m PROVE h[i] = Next1(h, i)
      <4>1. i # 0 => h[i - 1] = g[i - 1]
        BY <2>2
      <4>2. Next1(h, i) = Next1(g, i)
        BY <4>1
      <4>3. ASSUME i # m PROVE g[i] = Next1(g, i)
        <5>1. i \in 0 .. m - 1
          BY <2>2, <4>3
        <5> QED
          BY <3>2, <5>1
      <4> QED
        BY <4>2, <4>3
    <3>4. IsUpTo(h, m)
      BY <3>3
    <3> QED
      BY <2>2, <3>4
  <2> QED
    BY <2>3, <2>4
<1>3. IsUpTo(f, n)
  <2>n. n \in 0 .. n
    BY <1>1
  <2> HIDE DEF IsUpTo
  <2>1. \E g : IsUpTo(g, n)
    BY <1>2, <2>n
  <2> QED
    BY <2>1
<1>4. \A i \in 0 .. n : f[i] = Next1(f, i)
  BY <1>3
<1>5. CachesOf(contexts, kinds) = f[n]
  BY DEF CachesOf
<1> HIDE DEF f
<1>6. \A i \in 0 .. n : f[i] \in Seq(Caches)
  <2> DEFINE T == {i \in 0 .. n : f[i] \notin Seq(Caches)}
  <2> SUFFICES ASSUME T # {} PROVE FALSE
    OBVIOUS
  <2>l. \E m \in T : \A j \in T : m <= j
    <3>1. T \subseteq Nat
      OBVIOUS
    <3> HIDE DEF T
    <3> QED
      BY <3>1, Least
  <2>1. PICK m \in T : \A j \in T : m <= j
    BY <2>l
  <2>2. m \in 0 .. n /\ f[m] = Next1(f, m) /\ f[m] \notin Seq(Caches)
    BY <1>4
  <2>3. m # 0
    BY <2>2, EmptySeq
  <2>4. m - 1 \in 0 .. n /\ m - 1 \notin T /\ m \in 1 .. n
    <3> HIDE DEF T
    <3> QED
      BY <1>1, <2>1, <2>2, <2>3
  <2>5. f[m - 1] \in Seq(Caches)
    BY <2>4
  <2>6. contexts[m] \in Contexts
    BY <2>4, ElementOfSeq
  <2>7. contexts[m].kind \in kinds => contexts[m].cache \in Caches
    BY <2>6 DEF Contexts, Kinds
  <2> QED
    BY <2>2, <2>3, <2>5, <2>7, AppendProperties
<1> QED
  BY <1>1, <1>5, <1>6

LEMMA WritableTyped ==
    ASSUME NEW o \in Opens PROVE Writable[o] \in Seq(Caches)
<1>1. Stack[o] \in Seq(Contexts)
  BY OpensAssumption
<1>2. Before(Stack[o], {"block", "blockPopulation"}) \in Seq(Contexts)
  BY <1>1, BeforeTyped
<1>3. {"readWrite"} \in SUBSET Kinds
  BY DEF Kinds
<1> QED
  BY <1>2, <1>3, CachesOfTyped DEF Writable

LEMMA ReadableTyped ==
    ASSUME NEW o \in Opens PROVE Readable[o] \in Seq(Caches)
<1>1. Stack[o] \in Seq(Contexts)
  BY OpensAssumption
<1>2. Before(Stack[o], {"block"}) \in Seq(Contexts)
  BY <1>1, BeforeTyped
<1> QED
  BY <1>2, CachesOfTyped DEF Readable, Kinds

-----------------------------------------------------------------------------
(* The inductive invariant                                                 *)

LivePlaces == {"make", "publish", "insert", "deliver"}

(* Nothing was evicted, exchanged or failed: then stages stay where they   *)
(* were put.                                                               *)
Undisturbed == evictions = 0 /\ failures = {}

ClientStates ==
    {Idle} \cup [op : {"swap"}, this : Caches, other : Caches]
        \cup [op : {"assign"}, this : Caches]

StageTyped ==
    /\ TypeOK
    /\ client \in [Clients -> ClientStates]
    /\ tmp \in [Clients -> (SUBSET Stages) \X Seq(Requests)]

(* An open that is under way is at one of its caches, and manufactures for *)
(* the one it is at, for the last time.                                    *)
PlacedAt(o) ==
    /\ pc[o] \in {"request", "wait", "publish", "insert", "deliver"}
           => Writable[o] # <<>>
    /\ at[o] # 0
    /\ pc[o] \in {"request", "wait"} \cup LivePlaces \/ made[o] # None
           => Writable[o] = <<>> \/ at[o] \in 1 .. Len(Writable[o])
    /\ pc[o] \in {"find", "request", "wait", "make", "thrown"} => made[o] = None
    /\ pc[o] \in {"publish", "insert"} => made[o] # None
    /\ made[o] # None => made[o] = Request(o)

Placed == \A o \in Opens : PlacedAt(o)

(* A client in swap or assignment has counted, and without a count or a    *)
(* failure no request is a stray.                                          *)
ClientsCount ==
    /\ (\E k \in Clients : client[k] # Idle) => evictions > 0
    /\ Undisturbed => strays = {}

(* What is pending is live, in the cache it was pushed to, and once, if it *)
(* is no stray.                                                            *)
PendingExact ==
    \A c \in Caches, r \in Requests \ strays : \A i, j \in DOMAIN pending[c] :
        /\ pending[c][i] = r => IsLive(r) /\ r[2] = c
        /\ pending[c][i] = r /\ pending[c][j] = r => i = j

(* A mailbox that waits is in the hands of one request, live or a stray.   *)
SubscribedExact ==
    /\ \A r \in Requests : \A o \in subscribed[r] :
          /\ pc[o] = "wait" /\ mailbox[o].state = "subscribed"
          /\ r \in strays \/ (IsLive(r) /\ r[2] \in Caches)
    /\ \A r, q \in Requests : \A o \in Opens :
          o \in subscribed[r] /\ o \in subscribed[q] => r = q

Makes(o) == Writable[o] # <<>> /\ (pc[o] \in LivePlaces \/ made[o] # None)

(* Whoever manufactures is found: as a pending request until its stage is  *)
(* in the cache.                                                           *)
MakersAreFound ==
    \A o \in Opens : Makes(o) =>
        /\ pc[o] \in LivePlaces
               => \E i \in DOMAIN pending[Cache(o)] : pending[Cache(o)][i] = Request(o)
        /\ pc[o] \in {"deliver", "done"} => made[o] \in stages[Cache(o)]

OneMaker ==
    \A o, p \in Opens :
        Makes(o) /\ Makes(p) /\ Cache(o) = Cache(p) /\ Want[o] = Want[p] => o = p

StageInv ==
    /\ StageTyped /\ Placed /\ ClientsCount /\ PendingExact /\ SubscribedExact
    /\ Undisturbed => MakersAreFound /\ OneMaker

-----------------------------------------------------------------------------
(* Facts about one state                                                   *)

LEMMA WritableStays ==
    ASSUME NEW o \in Opens PROVE Writable[o]' = Writable[o]
BY DEF Writable

LEMMA CacheTyped ==
    ASSUME NEW o \in Opens, at[o] \in 1 .. Len(Writable[o])
    PROVE  Cache(o) \in Caches
BY WritableTyped, ElementOfSeq DEF Cache

LEMMA RequestTyped ==
    ASSUME NEW o \in Opens, Placed, pc[o] \in {"request", "wait"} \cup LivePlaces
    PROVE  /\ Request(o) \in Requests
           /\ Writable[o] # <<>> => Cache(o) \in Caches
BY CacheTyped DEF Placed, PlacedAt, Request, Requests

LEMMA MembersTyped ==
    ASSUME NEW S, NEW q \in Seq(S) PROVE Members(q) \subseteq S
BY ElementOfSeq DEF Members

LEMMA NoneIsNothing ==
    /\ None \notin Stages /\ None \notin Requests /\ None \notin Foreign
    /\ None \notin Opens /\ None \notin Caches
BY OpensAssumption DEF Stages

-----------------------------------------------------------------------------
(* The steps keep the types                                                *)

LEMMA RemovePendingTyped ==
    ASSUME StageTyped, NEW r, NEW c \in Caches, RemovePending(r, c)
    PROVE  pending' \in [Caches -> Seq(Requests)]
<1> DEFINE q == pending[c]
           at_ == {i \in DOMAIN q : q[i] = r}
           l == CHOOSE i \in at_ : TRUE
           rest == SubSeq(q, 1, l - 1) \o SubSeq(q, l + 1, Len(q))
<1>1. pending \in [Caches -> Seq(Requests)] /\ q \in Seq(Requests)
  BY DEF StageTyped, TypeOK
<1>2. pending' = [pending EXCEPT ![c] = IF at_ = {} THEN q ELSE rest]
  BY <1>1 DEF RemovePending
<1>3. ASSUME at_ # {} PROVE rest \in Seq(Requests)
  <2>1. l \in 1 .. Len(q) /\ Len(q) \in Nat
    BY <1>1, <1>3
  <2> HIDE DEF l, q
  <2>2. /\ \A j \in 1 .. l - 1 : q[j] \in Requests
        /\ \A j \in l + 1 .. Len(q) : q[j] \in Requests
    BY <1>1, <2>1, ElementOfSeq
  <2>3. /\ SubSeq(q, 1, l - 1) \in Seq(Requests)
        /\ SubSeq(q, l + 1, Len(q)) \in Seq(Requests)
    BY <2>1, <2>2, SubSeqProperties
  <2> QED
    BY <2>3, ConcatProperties
<1> QED
  <2> HIDE DEF q, at_, rest
  <2> QED
    BY <1>1, <1>2, <1>3

LEMMA NextCacheTyped ==
    ASSUME StageTyped, NEW o \in Opens, NEW s \in Stages \cup {None}, NextCache(o, s)
    PROVE  /\ stage' \in [Opens -> Stages \cup {None}]
           /\ at' \in [Opens -> Nat]
           /\ pc' = [pc EXCEPT ![o] = "done"] \/ pc' = [pc EXCEPT ![o] = "request"]
<1>1. /\ stage \in [Opens -> Stages \cup {None}] /\ at \in [Opens -> Nat]
  BY DEF StageTyped, TypeOK
<1>2. \/ at' = at /\ pc' = [pc EXCEPT ![o] = "done"]
      \/ at' = [at EXCEPT ![o] = @ + 1] /\ pc' = [pc EXCEPT ![o] = "request"]
  BY DEF NextCache, Goto
<1> QED
  BY <1>1, <1>2 DEF NextCache

LEMMA OpenStepTyped ==
    ASSUME StageTyped, Placed, NEW o \in Opens, OpenStep(o)
    PROVE  StageTyped'
<1> USE DEF StageTyped, TypeOK, Goto, cacheVars, clientVars
<1>1. CASE FindOneMatching(o)
  <2>1. /\ stage' \in [Opens -> Stages \cup {None}] /\ at' \in [Opens -> Nat]
        /\ \/ pc' = pc
           \/ pc' = [pc EXCEPT ![o] = "done"]
           \/ pc' = [pc EXCEPT ![o] = "make"]
           \/ pc' = [pc EXCEPT ![o] = "request"]
    <3>1. CASE at[o] <= Len(Readable[o])
      <4> DEFINE c == Readable[o][at[o]]
      <4>1. c \in Caches
        BY <3>1, ReadableTyped, ElementOfSeq DEF Placed, PlacedAt
      <4>2. \A s \in MatchesIn(o, c) : s \in Stages
        BY <4>1 DEF MatchesIn
      <4>3. \/ \E s \in MatchesIn(o, c) :
                   stage' = [stage EXCEPT ![o] = s] /\ Goto(o, "done") /\ UNCHANGED at
            \/ at' = [at EXCEPT ![o] = @ + 1] /\ UNCHANGED <<pc, stage>>
        BY <1>1, <3>1 DEF FindOneMatching
      <4> HIDE DEF c
      <4>4. stage' \in [Opens -> Stages \cup {None}]
        BY <4>2, <4>3
      <4>5. at' = at \/ at' = [at EXCEPT ![o] = @ + 1]
        BY <4>3
      <4>6. at \in [Opens -> Nat] /\ at[o] + 1 \in Nat
        OBVIOUS
      <4>7. at' \in [Opens -> Nat]
        <5> HIDE DEF StageTyped, TypeOK
        <5> QED
          BY <4>5, <4>6
      <4>8. pc' = pc \/ pc' = [pc EXCEPT ![o] = "done"]
        BY <4>3
      <4> QED
        BY <4>4, <4>7, <4>8
    <3>2. CASE ~(at[o] <= Len(Readable[o]))
      <4>1. /\ at' = [at EXCEPT ![o] = 1] /\ stage' = stage
            /\ Goto(o, IF Writable[o] = <<>> THEN "make" ELSE "request")
        BY <1>1, <3>2 DEF FindOneMatching
      <4>2. at' \in [Opens -> Nat]
        BY <4>1
      <4> QED
        BY <4>1, <4>2
    <3> QED
      BY <3>1, <3>2
  <2> QED
    BY <1>1, <2>1 DEF FindOneMatching
<1>2. CASE RequestStage(o)
  <2>1. /\ Request(o) \in Requests /\ Cache(o) \in Caches
    BY <1>2, RequestTyped DEF RequestStage, Placed, PlacedAt
  <2>2. CASE TakeCached(o, Cache(o))
    <3>1. \A s \in MatchesIn(o, Cache(o)) : s \in Stages
      BY <2>1 DEF MatchesIn
    <3> QED
      BY <1>2, <2>2, <3>1, NextCacheTyped DEF RequestStage, TakeCached
  <2>3. CASE Subscribe(o, Cache(o))
    <3>0. PICK r : subscribed' = [subscribed EXCEPT ![r] = @ \cup {o}]
      BY <2>3 DEF Subscribe
    <3>1. /\ mailbox' = [mailbox EXCEPT ![o].state = "subscribed"]
          /\ pc' = [pc EXCEPT ![o] = "wait"]
          /\ UNCHANGED <<pending, at, stage>>
      BY <2>3 DEF Subscribe
    <3>2. subscribed' \in [Requests -> SUBSET Opens]
      BY <3>0
    <3> QED
      BY <1>2, <3>1, <3>2 DEF RequestStage
  <2>4. CASE BecomePending(o, Cache(o))
    <3>1. Append(pending[Cache(o)], Request(o)) \in Seq(Requests)
      BY <2>1, AppendProperties
    <3>2. pending' \in [Caches -> Seq(Requests)]
      BY <2>4, <3>1 DEF BecomePending
    <3> QED
      BY <1>2, <2>4, <3>2 DEF RequestStage, BecomePending
  <2> QED
    BY <1>2, <2>2, <2>3, <2>4 DEF RequestStage
<1>3. CASE Wait(o)
  <2>1. mailbox[o].stage \in Stages \cup {None}
    OBVIOUS
  <2> QED
    BY <1>3, <2>1, NextCacheTyped DEF Wait, NoMail
<1>4. CASE Manufacture(o)
  <2>1. Request(o) \in Requests /\ Request(o) \in Stages
    BY <1>4, RequestTyped DEF Manufacture, LivePlaces, Stages
  <2>2. made' = made \/ made' = [made EXCEPT ![o] = Request(o)]
    BY <1>4 DEF Manufacture
  <2>3. made' \in [Opens -> Requests \cup {None}]
    BY <2>1, <2>2
  <2>4. stage' = stage \/ stage' = [stage EXCEPT ![o] = Request(o)]
    BY <1>4 DEF Manufacture
  <2>5. stage' \in [Opens -> Stages \cup {None}]
    BY <2>1, <2>4
  <2>6. \E place \in {"done", "publish", "deliver", "thrown"} :
            pc' = [pc EXCEPT ![o] = place]
    BY <1>4 DEF Manufacture
  <2>7. failures' \subseteq Opens /\ strays' \subseteq Requests
    BY <1>4, <2>1 DEF Manufacture
  <2> QED
    BY <1>4, <2>3, <2>5, <2>6, <2>7 DEF Manufacture
<1>5. CASE Publish(o)
  <2>1. made[o] \in Stages
    BY <1>5 DEF Publish, Placed, PlacedAt, Stages
  <2> DEFINE c == Writable[o][published[o] + 1]
  <2>2. stages' \in [Caches -> SUBSET Stages]
    <3>1. stages' = [stages EXCEPT ![c] = @ \cup {made[o]}]
      BY <1>5 DEF Publish, Put
    <3> HIDE DEF c
    <3> QED
      BY <2>1, <3>1
  <2>3. published' \in [Opens -> Nat]
    BY <1>5 DEF Publish
  <2>4. pc' = [pc EXCEPT ![o] = "insert"] \/ pc' = pc
    BY <1>5 DEF Publish
  <2> QED
    BY <1>5, <2>2, <2>3, <2>4 DEF Publish
<1>6. CASE InsertMade(o)
  <2>1. made[o] \in Stages
    BY <1>6 DEF InsertMade, Placed, PlacedAt, Stages
  <2>2. stages' \in [Caches -> SUBSET Stages]
    BY <1>6, <2>1 DEF InsertMade, Put
  <2> QED
    BY <1>6, <2>2 DEF InsertMade, Put
<1>7. CASE Deliver(o)
  <2>1. Cache(o) \in Caches
    BY <1>7, RequestTyped DEF Deliver, LivePlaces, Placed, PlacedAt
  <2>2. pending' \in [Caches -> Seq(Requests)]
    BY <1>7, <2>1, RemovePendingTyped DEF Deliver
  <2>3. made[o] \in Stages \cup {None}
    BY DEF Stages
  <2>4. mailbox' \in [Opens -> [state : {"unsubscribed", "subscribed", "delivered"},
                              stage : Stages \cup {None}]]
    BY <1>7, <2>3 DEF Deliver, Send
  <2> QED
    BY <1>7, <2>2, <2>3, <2>4 DEF Deliver
<1> QED
  BY <1>1, <1>2, <1>3, <1>4, <1>5, <1>6, <1>7 DEF OpenStep

LEMMA CacheStepTyped ==
    ASSUME StageTyped, NEW c \in Caches, Erase(c) \/ Clear(c) \/ Insert(c)
    PROVE  StageTyped'
<1> USE DEF StageTyped, TypeOK, openVars, clientVars
<1>1. CASE Erase(c)
  BY <1>1, OpensAssumption DEF Erase, Evict
<1>2. CASE Clear(c)
  BY <1>2, OpensAssumption, EmptySeq DEF Clear, Evict
<1>3. CASE Insert(c)
  BY <1>3 DEF Insert, Stages
<1> QED
  BY <1>1, <1>2, <1>3

LEMMA LockStepTyped ==
    ASSUME StageTyped, NEW k \in Clients, NEW c \in Caches, NEW d \in Caches,
           SwapLock(k, c, d) \/ Copy(k, c, d)
    PROVE  StageTyped'
<1> USE DEF StageTyped, TypeOK, openVars, cacheVars, ClientStates
<1>1. CASE SwapLock(k, c, d)
  BY <1>1, OpensAssumption DEF SwapLock, Evict
<1>2. CASE Copy(k, c, d)
  BY <1>2, OpensAssumption DEF Copy, Evict
<1> QED
  BY <1>1, <1>2

LEMMA ClientStepTyped ==
    ASSUME StageTyped, NEW k \in Clients, ClientStep(k)
    PROVE  StageTyped'
<1> USE DEF StageTyped, TypeOK, openVars, ClientStates, Idle
<1>1. CASE Swap(k)
  <2>1. client[k].this \in Caches /\ client[k].other \in Caches
    BY <1>1 DEF Swap
  <2>2. strays' \subseteq Requests
    BY <1>1, <2>1, MembersTyped DEF Swap
  <2> QED
    BY <1>1, <2>1, <2>2 DEF Swap
<1>2. CASE Assign(k)
  <2>1. strays' \subseteq Requests
    BY <1>2, MembersTyped DEF Assign
  <2> QED
    BY <1>2, <2>1, EmptySeq DEF Assign
<1> QED
  BY <1>1, <1>2 DEF ClientStep

-----------------------------------------------------------------------------
(* What a step leaves alone                                                *)

(* A step of an open leaves the places of the others alone, and clients.   *)
LEMMA OpenStepFrame ==
    ASSUME StageTyped, NEW o \in Opens, OpenStep(o)
    PROVE  /\ \A p \in Opens : p # o =>
                  /\ pc'[p] = pc[p] /\ at'[p] = at[p] /\ made'[p] = made[p]
                  /\ Request(p)' = Request(p) /\ Cache(p)' = Cache(p)
           /\ UNCHANGED clientVars
           /\ failures \subseteq failures' /\ strays \subseteq strays'
           /\ strays' # strays => failures' # {}
<1>1. /\ pc \in [Opens -> {"find", "request", "wait", "make", "publish",
                           "insert", "deliver", "done", "thrown"}]
      /\ at \in [Opens -> Nat] /\ made \in [Opens -> Requests \cup {None}]
  BY DEF StageTyped, TypeOK
<1>2. /\ UNCHANGED clientVars
      /\ failures \subseteq failures' /\ strays \subseteq strays'
      /\ strays' # strays => failures' # {}
  BY DEF OpenStep, FindOneMatching, RequestStage, Wait, Manufacture, Publish,
         InsertMade, Deliver, cacheVars
<1>3. /\ at' = at \/ (\E n : at' = [at EXCEPT ![o] = n])
      /\ made' = made \/ (\E m : made' = [made EXCEPT ![o] = m])
      /\ pc' = pc \/ (\E x : pc' = [pc EXCEPT ![o] = x])
  <2> USE DEF NextCache, Goto
  <2>1. CASE FindOneMatching(o)
    BY <2>1 DEF FindOneMatching
  <2>2. CASE RequestStage(o)
    BY <2>2 DEF RequestStage, TakeCached, Subscribe, BecomePending
  <2>3. CASE Wait(o) \/ InsertMade(o) \/ Deliver(o) \/ Publish(o)
    BY <2>3 DEF Wait, InsertMade, Deliver, Publish
  <2>4. CASE Manufacture(o)
    BY <2>4 DEF Manufacture, cacheVars, clientVars
  <2> QED
    BY <2>1, <2>2, <2>3, <2>4 DEF OpenStep
<1>4. ASSUME NEW p \in Opens, p # o
      PROVE  pc'[p] = pc[p] /\ at'[p] = at[p] /\ made'[p] = made[p]
  BY <1>1, <1>3, <1>4
<1>5. ASSUME NEW p \in Opens, p # o
      PROVE  Request(p)' = Request(p) /\ Cache(p)' = Cache(p)
  BY <1>4, <1>5, WritableStays DEF Request, Cache
<1>6. \A p \in Opens : p # o =>
          /\ pc'[p] = pc[p] /\ at'[p] = at[p] /\ made'[p] = made[p]
          /\ Request(p)' = Request(p) /\ Cache(p)' = Cache(p)
  BY <1>4, <1>5
<1> HIDE DEF clientVars
<1> QED
  BY <1>2, <1>6

(* The other steps leave the places of all opens alone.                    *)
ClientAction ==
    \/ \E c \in Caches : Erase(c) \/ Clear(c) \/ Insert(c)
    \/ \E k \in Clients, c, d \in Caches : SwapLock(k, c, d) \/ Copy(k, c, d)
    \/ \E k \in Clients : ClientStep(k)

LEMMA ClientActionFrame ==
    ASSUME ClientAction \/ UNCHANGED vars
    PROVE  /\ UNCHANGED <<openVars, subscribed>> /\ strays \subseteq strays'
           /\ \A p \in Opens :
                  /\ Makes(p)' = Makes(p)
                  /\ Request(p)' = Request(p) /\ Cache(p)' = Cache(p)
<1>1. UNCHANGED <<openVars, subscribed>> /\ strays \subseteq strays'
  BY DEF ClientAction, Erase, Clear, Insert, SwapLock, Copy, ClientStep, Swap,
         Assign, vars, cacheVars
<1>2. ASSUME NEW p \in Opens
      PROVE  /\ Makes(p)' = Makes(p)
             /\ Request(p)' = Request(p) /\ Cache(p)' = Cache(p)
  BY <1>1, WritableStays DEF Request, Cache, Makes, openVars
<1> QED
  BY <1>1, <1>2

LEMMA NextCases ==
    ASSUME [Next]_vars
    PROVE  (\E o \in Opens : OpenStep(o)) \/ ClientAction \/ UNCHANGED vars
BY DEF Next, ClientAction

LEMMA StepTyped ==
    ASSUME StageTyped, Placed, [Next]_vars
    PROVE  StageTyped'
<1>1. CASE UNCHANGED vars
  BY <1>1 DEF vars, cacheVars, openVars, clientVars, StageTyped, TypeOK
<1>2. CASE ClientAction
  BY <1>2, CacheStepTyped, LockStepTyped, ClientStepTyped DEF ClientAction
<1> QED
  BY <1>1, <1>2, NextCases, OpenStepTyped

-----------------------------------------------------------------------------
(* The steps keep opens in their places                                    *)

LEMMA OpenStepPlaced ==
    ASSUME StageTyped, Placed, NEW o \in Opens, OpenStep(o)
    PROVE  PlacedAt(o)'
<1> USE DEF PlacedAt, LivePlaces, Goto
<1>1. /\ pc \in [Opens -> {"find", "request", "wait", "make", "publish",
                           "insert", "deliver", "done", "thrown"}]
      /\ at \in [Opens -> Nat] /\ made \in [Opens -> Requests \cup {None}]
      /\ PlacedAt(o)
  BY DEF StageTyped, TypeOK, Placed, PlacedAt
<1>2. Writable[o]' = Writable[o] /\ Writable[o] \in Seq(Caches)
  BY WritableStays, WritableTyped
<1>3. Writable[o] # <<>> => Len(Writable[o]) \in Nat /\ Len(Writable[o]) >= 1
  BY <1>2, EmptySeq
<1>4. at'[o] = at[o] => Request(o)' = Request(o)
  BY <1>2 DEF Request, Cache
<1>5. ASSUME NEW s, NextCache(o, s), made' = made,
             pc[o] \in {"request", "wait"}
      PROVE  PlacedAt(o)'
  <2>1. CASE at[o] = Len(Writable[o])
    BY <1>1, <1>2, <1>4, <1>5, <2>1 DEF NextCache
  <2>2. CASE at[o] # Len(Writable[o])
    BY <1>1, <1>2, <1>3, <1>5, <2>2 DEF NextCache
  <2> QED
    BY <2>1, <2>2
<1>6. CASE FindOneMatching(o)
  <2>1. CASE at[o] <= Len(Readable[o])
    BY <1>1, <1>2, <1>4, <1>6, <2>1 DEF FindOneMatching
  <2>2. CASE ~(at[o] <= Len(Readable[o]))
    BY <1>1, <1>2, <1>3, <1>6, <2>2 DEF FindOneMatching
  <2> QED
    BY <2>1, <2>2
<1>7. CASE RequestStage(o)
  BY <1>1, <1>2, <1>4, <1>5, <1>7
     DEF RequestStage, TakeCached, Subscribe, BecomePending
<1>8. CASE Wait(o)
  BY <1>5, <1>8 DEF Wait
<1>9. CASE Manufacture(o)
  <2>1. Request(o) # None
    BY <1>9, RequestTyped, NoneIsNothing DEF Manufacture
  <2>2. at' = at
    BY <1>9 DEF Manufacture
  <2> QED
    BY <1>1, <1>2, <1>4, <1>9, <2>1, <2>2 DEF Manufacture
<1>10. CASE Publish(o)
  BY <1>1, <1>2, <1>4, <1>10 DEF Publish
<1>11. CASE InsertMade(o)
  BY <1>1, <1>2, <1>4, <1>11 DEF InsertMade
<1>12. CASE Deliver(o)
  BY <1>1, <1>2, <1>4, <1>12 DEF Deliver
<1> QED
  BY <1>6, <1>7, <1>8, <1>9, <1>10, <1>11, <1>12 DEF OpenStep

LEMMA StepPlaced ==
    ASSUME StageTyped, Placed, [Next]_vars
    PROVE  Placed'
<1>1. CASE ClientAction \/ UNCHANGED vars
  BY <1>1, ClientActionFrame, WritableStays DEF Placed, PlacedAt, openVars
<1>2. ASSUME NEW o \in Opens, OpenStep(o) PROVE Placed'
  <2>1. ASSUME NEW p \in Opens, p # o PROVE PlacedAt(p)'
    BY <1>2, <2>1, OpenStepFrame, WritableStays DEF Placed, PlacedAt
  <2> QED
    BY <1>2, <2>1, OpenStepPlaced DEF Placed, PlacedAt
<1> QED
  BY <1>1, <1>2, NextCases

-----------------------------------------------------------------------------
(* The steps of clients                                                    *)

(* Whoever exchanges caches has counted it.                                *)
LEMMA BusyClient ==
    ASSUME ClientsCount, NEW k \in Clients,
           client[k].op = "swap" \/ client[k].op = "assign"
    PROVE  evictions > 0
<1>1. client[k] # Idle
  BY DEF Idle
<1> QED
  BY <1>1 DEF ClientsCount

LEMMA OpenStepClients ==
    ASSUME StageTyped, ClientsCount, NEW o \in Opens, OpenStep(o)
    PROVE  ClientsCount'
<1>1. /\ UNCHANGED clientVars
      /\ failures \subseteq failures'
      /\ strays' # strays => failures' # {}
  BY OpenStepFrame
<1>2. client' = client /\ evictions' = evictions
  BY <1>1 DEF clientVars
<1>3. (\E k \in Clients : client[k] # Idle)' => evictions' > 0
  BY <1>2 DEF ClientsCount
<1>4. Undisturbed' => strays' = {}
  BY <1>1, <1>2 DEF ClientsCount, Undisturbed
<1> QED
  BY <1>3, <1>4 DEF ClientsCount

LEMMA ClientActionClients ==
    ASSUME StageTyped, ClientsCount, ClientAction
    PROVE  ClientsCount'
<1>1. evictions \in Nat /\ failures' = failures
  BY OpensAssumption, ClientActionFrame DEF StageTyped, TypeOK, openVars
<1> USE DEF ClientsCount, Undisturbed
<1>2. ASSUME NEW c \in Caches, Erase(c) \/ Clear(c) \/ Insert(c)
      PROVE  ClientsCount'
  <2>1. /\ client' = client /\ strays' = strays
        /\ evictions' = evictions \/ evictions' = evictions + 1
    BY <1>2 DEF Erase, Clear, Insert, Evict, clientVars
  <2> QED
    BY <1>1, <2>1
<1>3. ASSUME NEW k \in Clients, NEW c \in Caches, NEW d \in Caches,
             SwapLock(k, c, d) \/ Copy(k, c, d)
      PROVE  ClientsCount'
  <2>1. evictions' > 0
    BY <1>1, <1>3 DEF SwapLock, Copy, Evict
  <2> QED
    BY <2>1
<1>4. ASSUME NEW k \in Clients, ClientStep(k) PROVE ClientsCount'
  <2>1. evictions' = evictions /\ evictions > 0
    BY <1>4, BusyClient DEF ClientStep, Swap, Assign
  <2> QED
    BY <2>1
<1> QED
  BY <1>2, <1>3, <1>4 DEF ClientAction

(* What comes into the list of another cache is a stray there.             *)
LEMMA ClientActionPending ==
    ASSUME StageTyped, ClientAction, PendingExact
    PROVE  PendingExact'
<1>0. /\ \A r \in Requests : IsLive(r)' = IsLive(r)
      /\ strays \subseteq strays'
  BY ClientActionFrame DEF IsLive, Requests, openVars
<1>1. pending \in [Caches -> Seq(Requests)]
  BY DEF StageTyped, TypeOK
<1>2. ASSUME \A c \in Caches : \/ pending'[c] = pending[c]
                               \/ Members(pending'[c]) \subseteq strays'
      PROVE  PendingExact'
  <2>1. ASSUME NEW c \in Caches, NEW r \in Requests \ strays',
               NEW i \in DOMAIN pending'[c], NEW j \in DOMAIN pending'[c]
        PROVE  /\ pending'[c][i] = r => IsLive(r)' /\ r[2] = c
               /\ pending'[c][i] = r /\ pending'[c][j] = r => i = j
    <3>1. CASE pending'[c] = pending[c]
      <4>1. r \in Requests \ strays
        BY <1>0
      <4> QED
        BY <1>0, <3>1, <4>1 DEF PendingExact
    <3>2. CASE Members(pending'[c]) \subseteq strays'
      <4>1. pending'[c][i] \in strays'
        BY <3>2 DEF Members
      <4> QED
        BY <4>1
    <3> QED
      BY <1>2, <3>1, <3>2
  <2> QED
    BY <2>1 DEF PendingExact
<1>3. ASSUME NEW c \in Caches, Erase(c) \/ Clear(c) \/ Insert(c)
      PROVE  PendingExact'
  <2>1. pending' = pending \/ pending' = [pending EXCEPT ![c] = <<>>]
    BY <1>3 DEF Erase, Clear, Insert
  <2>2. Members(<<>>) = {}
    BY EmptySeq DEF Members
  <2>3. \A d \in Caches : pending'[d] = pending[d] \/ pending'[d] = <<>>
    BY <1>1, <2>1
  <2> QED
    BY <1>2, <2>2, <2>3
<1>4. ASSUME NEW k \in Clients, NEW c \in Caches, NEW d \in Caches,
             SwapLock(k, c, d) \/ Copy(k, c, d)
      PROVE  PendingExact'
  BY <1>2, <1>4 DEF SwapLock, Copy, cacheVars
<1>5. ASSUME NEW k \in Clients, Swap(k) PROVE PendingExact'
  <2> DEFINE c == client[k].this
             d == client[k].other
  <2>1. /\ pending' = [pending EXCEPT ![c] = pending[d], ![d] = pending[c]]
        /\ strays' = strays \cup Members(pending[c]) \cup Members(pending[d])
    BY <1>5 DEF Swap
  <2> HIDE DEF c, d
  <2>2. \A e \in Caches : \/ pending'[e] = pending[e]
                          \/ pending'[e] = pending[c]
                          \/ pending'[e] = pending[d]
    BY <1>1, <2>1
  <2>3. Members(pending[c]) \subseteq strays' /\ Members(pending[d]) \subseteq strays'
    BY <2>1
  <2> QED
    BY <1>2, <2>2, <2>3
<1>6. ASSUME NEW k \in Clients, Assign(k) PROVE PendingExact'
  <2>1. /\ pending' = [pending EXCEPT ![client[k].this] = tmp[k][2]]
        /\ Members(tmp[k][2]) \subseteq strays'
    BY <1>6 DEF Assign
  <2>2. \A e \in Caches : pending'[e] = pending[e] \/ pending'[e] = tmp[k][2]
    BY <1>1, <2>1
  <2> QED
    BY <1>2, <2>1, <2>2
<1> QED
  BY <1>3, <1>4, <1>5, <1>6 DEF ClientAction, ClientStep

LEMMA ClientActionSubscribed ==
    ASSUME StageTyped, ClientAction \/ UNCHANGED vars, SubscribedExact
    PROVE  SubscribedExact'
<1>1. \A r \in Requests : IsLive(r)' = IsLive(r)
  BY ClientActionFrame DEF IsLive, Requests, openVars
<1> QED
  BY <1>1, ClientActionFrame DEF SubscribedExact, openVars

-----------------------------------------------------------------------------
(* What is pending, and who waits for it                                   *)

(* What is found is pending; if nothing is, no live request satisfies.     *)
LEMMA PendingForFound ==
    ASSUME StageTyped, NEW o \in Opens, NEW c \in Caches
    PROVE  /\ \A r \in PendingFor(o, c) \ {None} :
                  r \in Requests /\ \E i \in DOMAIN pending[c] : pending[c][i] = r
           /\ None \in PendingFor(o, c) =>
                  \A i \in DOMAIN pending[c] :
                      ~(IsLive(pending[c][i]) /\ SatisfiedByRequest(o, pending[c][i]))
<1>1. \A i \in DOMAIN pending[c] : pending[c][i] \in Requests /\ pending[c][i] # None
  BY ElementOfSeq, NoneIsNothing DEF StageTyped, TypeOK
<1> QED
  BY <1>1 DEF PendingFor

LEMMA RemovedAt ==
    ASSUME NEW S, NEW q \in Seq(S), NEW l \in 1 .. Len(q)
    PROVE  LET rest == SubSeq(q, 1, l - 1) \o SubSeq(q, l + 1, Len(q))
           IN  /\ rest \in Seq(S) /\ DOMAIN rest = 1 .. Len(q) - 1
               /\ \A i \in 1 .. Len(q) - 1 :
                     rest[i] = IF i < l THEN q[i] ELSE q[i + 1]
<1>1. PICK n \in Nat : n = Len(q)
  OBVIOUS
<1>2. l \in Int /\ n \in Int /\ 1 <= l /\ l <= n
  BY <1>1
<1> DEFINE a == SubSeq(q, 1, l - 1)
           b == SubSeq(q, l + 1, n)
<1>3. \A i \in 1 .. n : q[i] \in S
  BY <1>1, ElementOfSeq
<1>4. (\A i \in 1 .. l - 1 : q[i] \in S) /\ (\A i \in l + 1 .. n : q[i] \in S)
  BY <1>2, <1>3
<1>5. /\ a \in Seq(S)
      /\ Len(a) = IF 1 <= l - 1 THEN (l - 1) - 1 + 1 ELSE 0
      /\ \A i \in 1 .. (l - 1) - 1 + 1 : a[i] = q[1 + i - 1]
  BY <1>2, <1>4, SubSeqProperties
<1>6. /\ b \in Seq(S)
      /\ Len(b) = IF l + 1 <= n THEN n - (l + 1) + 1 ELSE 0
      /\ \A i \in 1 .. n - (l + 1) + 1 : b[i] = q[(l + 1) + i - 1]
  <2>1. l + 1 \in Int
    BY <1>2
  <2> QED
    BY <1>2, <1>4, <2>1, SubSeqProperties
<1> HIDE DEF a, b
<1>7. Len(a) = l - 1 /\ Len(b) = n - l
  BY <1>2, <1>5, <1>6
<1>8. ASSUME NEW i \in 1 .. l - 1 PROVE a[i] = q[i]
  <2>1. i \in 1 .. (l - 1) - 1 + 1 /\ 1 + i - 1 = i
    BY <1>2
  <2> QED
    BY <1>5, <2>1
<1>9. ASSUME NEW i \in 1 .. n - l PROVE b[i] = q[l + i]
  <2>1. i \in 1 .. n - (l + 1) + 1 /\ (l + 1) + i - 1 = l + i
    BY <1>2
  <2> QED
    BY <1>6, <2>1
<1>10. /\ a \o b \in Seq(S) /\ Len(a \o b) = Len(a) + Len(b)
       /\ \A i \in 1 .. Len(a) + Len(b) :
             (a \o b)[i] = IF i <= Len(a) THEN a[i] ELSE b[i - Len(a)]
  BY <1>5, <1>6, ConcatProperties
<1>11. Len(a) + Len(b) = n - 1
  BY <1>2, <1>7
<1>12. DOMAIN (a \o b) = 1 .. n - 1
  BY <1>10, <1>11
<1>13. ASSUME NEW i \in 1 .. n - 1
       PROVE  (a \o b)[i] = IF i < l THEN q[i] ELSE q[i + 1]
  <2>1. (a \o b)[i] = IF i <= l - 1 THEN a[i] ELSE b[i - (l - 1)]
    BY <1>7, <1>10, <1>11
  <2>2. CASE i < l
    <3>1. i \in 1 .. l - 1
      BY <1>2, <2>2
    <3> QED
      BY <1>8, <2>1, <2>2, <3>1
  <2>3. CASE ~(i < l)
    <3>1. ~(i <= l - 1) /\ i - (l - 1) \in 1 .. n - l /\ l + (i - (l - 1)) = i + 1
      BY <1>2, <2>3
    <3>2. b[i - (l - 1)] = q[l + (i - (l - 1))]
      BY <1>9, <3>1
    <3> QED
      BY <2>1, <2>3, <3>1, <3>2
  <2> QED
    BY <2>2, <2>3
<1> QED
  BY <1>1, <1>10, <1>12, <1>13 DEF a, b

(* What was there once is gone, and the rest stays, each once.             *)
LEMMA RemovePendingKeeps ==
    ASSUME StageTyped, NEW r \in Requests, NEW c \in Caches, RemovePending(r, c)
    PROVE  /\ \A d \in Caches : d # c => pending'[d] = pending[d]
           /\ (\A i, j \in DOMAIN pending[c] :
                   pending[c][i] = r /\ pending[c][j] = r => i = j)
                 => \A i \in DOMAIN pending'[c] : pending'[c][i] # r
           /\ \A i \in DOMAIN pending'[c] : \E j \in DOMAIN pending[c] :
                 pending'[c][i] = pending[c][j]
           /\ \A x \in Requests :
                 (\A i, j \in DOMAIN pending[c] :
                     pending[c][i] = x /\ pending[c][j] = x => i = j)
                 => \A i, j \in DOMAIN pending'[c] :
                     pending'[c][i] = x /\ pending'[c][j] = x => i = j
           /\ \A j \in DOMAIN pending[c] : pending[c][j] # r =>
                 \E i \in DOMAIN pending'[c] : pending'[c][i] = pending[c][j]
<1> DEFINE q == pending[c]
           at_ == {i \in DOMAIN q : q[i] = r}
           l == CHOOSE i \in at_ : TRUE
           rest == SubSeq(q, 1, l - 1) \o SubSeq(q, l + 1, Len(q))
<1>1. pending \in [Caches -> Seq(Requests)] /\ q \in Seq(Requests)
  BY DEF StageTyped, TypeOK
<1>2. pending' = [pending EXCEPT ![c] = IF at_ = {} THEN q ELSE rest]
  BY <1>1 DEF RemovePending
<1>3. \A d \in Caches : d # c => pending'[d] = pending[d]
  BY <1>1, <1>2
<1>4. CASE at_ = {}
  <2>1. pending'[c] = pending[c]
    BY <1>1, <1>2, <1>4
  <2> QED
    BY <1>3, <1>4, <2>1
<1>5. CASE at_ # {}
  <2>1. l \in 1 .. Len(q) /\ Len(q) \in Nat /\ q[l] = r /\ DOMAIN q = 1 .. Len(q)
    BY <1>1, <1>5
  <2>2. pending'[c] = rest
    BY <1>1, <1>2, <1>5
  <2> HIDE DEF l, q
  <2> DEFINE Old(i) == IF i < l THEN i ELSE i + 1
  <2>3. /\ DOMAIN rest = 1 .. Len(q) - 1
        /\ \A i \in 1 .. Len(q) - 1 : rest[i] = IF i < l THEN q[i] ELSE q[i + 1]
    BY <1>1, <2>1, RemovedAt
  <2> HIDE DEF rest
  <2>7. ASSUME NEW i \in 1 .. Len(q) - 1
        PROVE  rest[i] = q[Old(i)] /\ Old(i) \in DOMAIN q /\ Old(i) # l
    <3>1. Old(i) \in DOMAIN q /\ Old(i) # l
      BY <2>1
    <3> QED
      BY <2>3, <3>1
  <2>8. ASSUME NEW j \in DOMAIN q, j # l
        PROVE  \E i \in 1 .. Len(q) - 1 : Old(i) = j
    <3>1. CASE j < l
      <4>1. j \in 1 .. Len(q) - 1
        BY <2>1, <3>1
      <4> QED
        BY <3>1, <4>1
    <3>2. CASE ~(j < l)
      <4>1. j - 1 \in 1 .. Len(q) - 1 /\ ~(j - 1 < l) /\ (j - 1) + 1 = j
        BY <2>1, <2>8, <3>2
      <4> QED
        BY <4>1
    <3> QED
      BY <3>1, <3>2
  <2>9. \A i, j \in 1 .. Len(q) - 1 : Old(i) = Old(j) => i = j
    BY <2>1
  <2> HIDE DEF Old
  <2> DEFINE new == rest
  <2>11. DOMAIN new = 1 .. Len(q) - 1 /\ pending'[c] = new
         /\ \A i \in DOMAIN new :
              new[i] = q[Old(i)] /\ Old(i) \in DOMAIN q /\ Old(i) # l
    BY <2>2, <2>3, <2>7
  <2>12. \A j \in DOMAIN q : j # l => \E i \in DOMAIN new : Old(i) = j
    BY <2>8, <2>11
  <2>13. \A i, j \in DOMAIN new : Old(i) = Old(j) => i = j
    BY <2>9, <2>11
  <2> HIDE DEF new
  <2>14. (\A i, j \in DOMAIN q : q[i] = r /\ q[j] = r => i = j)
           => \A i \in DOMAIN new : new[i] # r
    BY <2>1, <2>11
  <2>15. \A i \in DOMAIN new : \E j \in DOMAIN q : new[i] = q[j]
    BY <2>11
  <2>16. ASSUME NEW x \in Requests,
                \A i, j \in DOMAIN q : q[i] = x /\ q[j] = x => i = j
         PROVE  \A i, j \in DOMAIN new : new[i] = x /\ new[j] = x => i = j
    BY <2>11, <2>13, <2>16
  <2>17. \A j \in DOMAIN q : q[j] # r => \E i \in DOMAIN new : new[i] = q[j]
    BY <2>1, <2>11, <2>12
  <2> QED
    BY <1>3, <2>11, <2>14, <2>15, <2>16, <2>17 DEF q
<1> QED
  BY <1>4, <1>5

(* Until it delivers, a request with a cache stays live, or it throws.     *)
LEMMA StaysLive ==
    ASSUME StageTyped, Placed, NEW o \in Opens, OpenStep(o), ~Deliver(o),
           NEW r \in Requests, IsLive(r), r[2] \in Caches
    PROVE  IsLive(r)' \/ r \in strays'
<1>0. r[1] \in Opens
  BY DEF Requests
<1>1. CASE r[1] # o
  BY <1>0, <1>1, OpenStepFrame DEF IsLive
<1>2. CASE r[1] = o
  <2>1. pc[o] \in LivePlaces /\ Writable[o] # <<>> /\ Request(o) = r
    BY <1>2, NoneIsNothing DEF IsLive, LivePlaces, Request
  <2>2. Manufacture(o) \/ Publish(o) \/ InsertMade(o)
    BY <2>1 DEF OpenStep, FindOneMatching, RequestStage, Wait, LivePlaces
  <2>3. at' = at
    BY <2>2 DEF Manufacture, Publish, InsertMade
  <2>4. Request(o)' = Request(o)
    BY <2>3, WritableStays DEF Request, Cache
  <2>5. pc'[o] \in LivePlaces \/ r \in strays'
    <3>1. o \in DOMAIN pc
      BY DEF StageTyped, TypeOK
    <3>2. CASE Manufacture(o)
      BY <2>1, <3>1, <3>2 DEF Manufacture, Goto, LivePlaces
    <3>3. CASE Publish(o) \/ InsertMade(o)
      BY <3>1, <3>3 DEF Publish, InsertMade, Goto, LivePlaces
    <3> QED
      BY <2>2, <3>2, <3>3
  <2> QED
    BY <1>2, <2>1, <2>4, <2>5 DEF IsLive, LivePlaces
<1> QED
  BY <1>1, <1>2

(* Which steps of an open change what is pending or who is subscribed.     *)
LEMMA OpenStepCases ==
    ASSUME NEW o \in Opens, OpenStep(o)
    PROVE  \/ UNCHANGED <<pending, subscribed>> /\ ~Deliver(o)
           \/ RequestStage(o) /\ Subscribe(o, Cache(o)) /\ ~Deliver(o)
           \/ RequestStage(o) /\ BecomePending(o, Cache(o)) /\ ~Deliver(o)
           \/ Deliver(o)
BY DEF OpenStep, FindOneMatching, RequestStage, TakeCached, Wait, Manufacture,
       Publish, InsertMade, cacheVars

LEMMA OpenStepPending ==
    ASSUME StageTyped, Placed, PendingExact, NEW o \in Opens, OpenStep(o)
    PROVE  PendingExact'
<1>0. Requests \ strays' \subseteq Requests \ strays
  BY OpenStepFrame
<1>1. pending \in [Caches -> Seq(Requests)]
  BY DEF StageTyped, TypeOK
<1>2. ASSUME ~Deliver(o), NEW c \in Caches, NEW r \in Requests \ strays',
             NEW i \in DOMAIN pending[c], pending[c][i] = r
      PROVE  IsLive(r)' /\ r[2] = c
  <2>1. IsLive(r) /\ r[2] = c
    BY <1>0, <1>2 DEF PendingExact
  <2> QED
    BY <1>2, <2>1, StaysLive
<1>3. CASE UNCHANGED pending /\ ~Deliver(o)
  BY <1>0, <1>2, <1>3 DEF PendingExact
<1>4. CASE RequestStage(o) /\ BecomePending(o, Cache(o)) /\ ~Deliver(o)
  <2> DEFINE c == Cache(o)
             n == Len(pending[c])
  <2>1. /\ pc[o] = "request" /\ c \in Caches /\ Request(o) \in Requests
        /\ Request(o)[1] = o /\ Request(o)[2] = c
    BY <1>4, RequestTyped DEF RequestStage, Placed, PlacedAt, Request
  <2>2. pending' = [pending EXCEPT ![c] = Append(@, Request(o))]
    BY <1>4 DEF BecomePending
  <2>3. IsLive(Request(o))' /\ Request(o)' = Request(o)
    <3>1. at' = at /\ pc'[o] = "make"
      BY <1>4 DEF BecomePending, Goto, StageTyped, TypeOK
    <3>2. Request(o)' = Request(o)
      BY <3>1, WritableStays DEF Request, Cache
    <3> QED
      BY <2>1, <3>1, <3>2 DEF IsLive
  <2>4. \A r \in Requests : r = Request(o) => IsLive(r)' /\ r[2] = c
    BY <2>1, <2>3 DEF IsLive
  <2>5. \A j \in DOMAIN pending[c] : pending[c][j] = Request(o) => Request(o) \in strays'
    BY <1>0, <2>1 DEF PendingExact, IsLive
  <2>6. /\ n \in Nat /\ DOMAIN pending[c] = 1 .. n
        /\ DOMAIN pending'[c] = 1 .. n + 1
        /\ \A j \in 1 .. n : pending'[c][j] = pending[c][j]
        /\ pending'[c][n + 1] = Request(o)
        /\ \A d \in Caches : d # c => pending'[d] = pending[d]
    <3>1. pending'[c] = Append(pending[c], Request(o)) /\ pending[c] \in Seq(Requests)
          /\ \A d \in Caches : d # c => pending'[d] = pending[d]
      BY <1>1, <2>1, <2>2
    <3> QED
      BY <2>1, <3>1, AppendProperties
  <2> HIDE DEF c, n
  <2>7. ASSUME NEW d \in Caches, NEW r \in Requests \ strays',
               NEW i \in DOMAIN pending'[d], NEW j \in DOMAIN pending'[d]
        PROVE  /\ pending'[d][i] = r => IsLive(r)' /\ r[2] = d
               /\ pending'[d][i] = r /\ pending'[d][j] = r => i = j
    <3>1. CASE d # c
      <4>1. pending'[d] = pending[d]
        BY <2>6, <3>1
      <4> QED
        BY <1>0, <1>2, <1>4, <4>1 DEF PendingExact
    <3>2. CASE d = c
      <4>1. (i \in 1 .. n \/ i = n + 1) /\ (j \in 1 .. n \/ j = n + 1)
        BY <2>6, <3>2
      <4>2. CASE i \in 1 .. n
        <5>1. pending'[c][i] = pending[c][i] /\ i \in DOMAIN pending[c]
          BY <2>6, <4>2
        <5>2. pending'[c][i] = r => IsLive(r)' /\ r[2] = c
          BY <1>2, <1>4, <3>2, <5>1
        <5>3. CASE j \in 1 .. n
          BY <1>0, <2>6, <3>2, <5>1, <5>2, <5>3 DEF PendingExact
        <5>4. CASE j = n + 1
          BY <2>5, <2>6, <3>2, <5>1, <5>2, <5>4
        <5> QED
          BY <4>1, <5>3, <5>4
      <4>3. CASE i = n + 1
        <5>1. pending'[c][i] = Request(o)
          BY <2>6, <4>3
        <5>2. j \in 1 .. n /\ pending'[c][j] = Request(o) => Request(o) \in strays'
          BY <2>5, <2>6
        <5> QED
          BY <2>4, <3>2, <4>1, <4>3, <5>1, <5>2
      <4> QED
        BY <4>1, <4>2, <4>3
    <3> QED
      BY <3>1, <3>2
  <2> QED
    BY <2>7 DEF PendingExact
<1>5. CASE Deliver(o)
  <2> DEFINE c == Cache(o)
             q == Request(o)
  <2>1. /\ c \in Caches /\ q \in Requests /\ q[2] = c
    BY <1>5, RequestTyped DEF Deliver, Placed, PlacedAt, LivePlaces, Request
  <2>2. RemovePending(q, c)
    BY <1>5 DEF Deliver
  <2>3. q \notin strays =>
            \A i, j \in DOMAIN pending[c] : pending[c][i] = q /\ pending[c][j] = q => i = j
    BY <2>1 DEF PendingExact
  <2>4. \A d \in Caches, r \in Requests \ strays : \A i \in DOMAIN pending[d] :
            pending[d][i] = r /\ r # q => IsLive(r)' /\ r[2] = d
    <3>1. \A r \in Requests : IsLive(r) /\ r # q => IsLive(r)'
      BY OpenStepFrame DEF IsLive, Requests
    <3> QED
      BY <3>1 DEF PendingExact
  <2> HIDE DEF c, q
  <2>6. /\ \A d \in Caches : d # c => pending'[d] = pending[d]
        /\ q \notin strays => \A i \in DOMAIN pending'[c] : pending'[c][i] # q
        /\ \A i \in DOMAIN pending'[c] : \E j \in DOMAIN pending[c] :
              pending'[c][i] = pending[c][j]
        /\ \A x \in Requests :
              (\A i, j \in DOMAIN pending[c] :
                  pending[c][i] = x /\ pending[c][j] = x => i = j)
              => \A i, j \in DOMAIN pending'[c] :
                  pending'[c][i] = x /\ pending'[c][j] = x => i = j
    BY <2>1, <2>2, <2>3, RemovePendingKeeps
  <2>7. ASSUME NEW d \in Caches, NEW i \in DOMAIN pending[d], d # c, q \notin strays
        PROVE  pending[d][i] # q
    BY <2>1, <2>7 DEF PendingExact
  <2>8. ASSUME NEW d \in Caches, NEW r \in Requests \ strays',
               NEW i \in DOMAIN pending'[d], NEW j \in DOMAIN pending'[d]
        PROVE  /\ pending'[d][i] = r => IsLive(r)' /\ r[2] = d
               /\ pending'[d][i] = r /\ pending'[d][j] = r => i = j
    <3>1. CASE d # c
      <4>1. pending'[d] = pending[d]
        BY <2>6, <3>1
      <4> QED
        BY <1>0, <2>4, <2>7, <3>1, <4>1 DEF PendingExact
    <3>2. CASE d = c
      <4>1. \A a, b \in DOMAIN pending[c] :
                pending[c][a] = r /\ pending[c][b] = r => a = b
        BY <1>0, <2>1 DEF PendingExact
      <4>2. pending'[c][i] = r => r # q /\ \E a \in DOMAIN pending[c] : pending[c][a] = r
        BY <1>0, <2>6, <3>2
      <4> QED
        BY <1>0, <2>1, <2>4, <2>6, <3>2, <4>1, <4>2
    <3> QED
      BY <3>1, <3>2
  <2> QED
    BY <2>8 DEF PendingExact
<1>6. CASE RequestStage(o) /\ Subscribe(o, Cache(o)) /\ ~Deliver(o)
  BY <1>3, <1>6 DEF Subscribe
<1> QED
  BY <1>3, <1>4, <1>5, <1>6, OpenStepCases

LEMMA OpenStepSubscribed ==
    ASSUME StageTyped, Placed, PendingExact, SubscribedExact, NEW o \in Opens,
           OpenStep(o)
    PROVE  SubscribedExact'
<1>1. /\ subscribed \in [Requests -> SUBSET Opens]
      /\ o \in DOMAIN pc /\ o \in DOMAIN mailbox /\ strays \subseteq strays'
  BY OpenStepFrame DEF StageTyped, TypeOK
<1>2. \A r \in Requests : o \notin subscribed[r]
  <2> SUFFICES ASSUME NEW r \in Requests, o \in subscribed[r] PROVE FALSE
    OBVIOUS
  <2>1. pc[o] = "wait" /\ mailbox[o].state = "subscribed"
    BY DEF SubscribedExact
  <2> QED
    BY <2>1 DEF OpenStep, FindOneMatching, RequestStage, Wait, Manufacture,
                Publish, InsertMade, Deliver
<1>3. ASSUME NEW r \in Requests, NEW p \in subscribed[r]
      PROVE  p \in Opens /\ p # o /\ pc'[p] = "wait"
  BY <1>1, <1>2, OpenStepFrame DEF SubscribedExact
<1>4. ASSUME ~Deliver(o), NEW r \in Requests, NEW p \in subscribed[r]
      PROVE  mailbox'[p].state = "subscribed" /\ (r \in strays' \/ IsLive(r)')
  <2>1. mailbox'[p] = mailbox[p]
    <3>1. mailbox' = mailbox \/ (\E m : mailbox' = [mailbox EXCEPT ![o] = m])
      BY <1>4 DEF OpenStep, FindOneMatching, RequestStage, TakeCached, Subscribe,
           BecomePending, Wait, Manufacture, Publish, InsertMade
    <3>2. p \in DOMAIN mailbox
      BY <1>3 DEF StageTyped, TypeOK
    <3> QED
      BY <1>3, <3>1, <3>2
  <2> QED
    BY <1>1, <1>4, <2>1, StaysLive DEF SubscribedExact
<1>5. CASE UNCHANGED subscribed /\ ~Deliver(o)
  BY <1>1, <1>3, <1>4, <1>5 DEF SubscribedExact
<1>6. CASE RequestStage(o) /\ Subscribe(o, Cache(o)) /\ ~Deliver(o)
  <2> DEFINE c == Cache(o)
  <2>1. pc[o] = "request" /\ c \in Caches
    BY <1>6, RequestTyped DEF RequestStage, Placed, PlacedAt
  <2>0. PICK q \in PendingFor(o, c) \ {None} :
            subscribed' = [subscribed EXCEPT ![q] = @ \cup {o}]
    BY <1>6 DEF Subscribe
  <2>2. q \in Requests /\ \E i \in DOMAIN pending[c] : pending[c][i] = q
    BY <2>1, PendingForFound
  <2>3. q \in strays \/ (IsLive(q) /\ q[2] \in Caches)
    BY <2>1, <2>2 DEF PendingExact
  <2>4. \A r \in Requests : r = q => r \in strays' \/ (IsLive(r)' /\ r[2] \in Caches)
    BY <1>1, <1>6, <2>3, StaysLive
  <2>5. pc'[o] = "wait" /\ mailbox'[o].state = "subscribed"
    <3>1. mailbox[o] \in [state : {"unsubscribed", "subscribed", "delivered"},
                          stage : Stages \cup {None}]
      BY DEF StageTyped, TypeOK
    <3> QED
      BY <1>1, <1>6, <3>1 DEF Subscribe, Goto
  <2> HIDE DEF c
  <2>7. \A r \in Requests : \A p \in subscribed'[r] :
            p \in subscribed[r] \/ (p = o /\ r = q)
    BY <1>1, <2>0, <2>2
  <2> QED
    BY <1>1, <1>2, <1>3, <1>4, <1>6, <2>4, <2>5, <2>7 DEF SubscribedExact
<1>7. CASE Deliver(o)
  <2> DEFINE q == Request(o)
  <2>1. q \in Requests
    BY <1>7, RequestTyped DEF Deliver, LivePlaces
  <2>2. /\ subscribed' = [subscribed EXCEPT ![q] = {}]
        /\ mailbox' = [p \in Opens |->
              IF p \in subscribed[q] THEN [state |-> "delivered", stage |-> made[o]]
              ELSE mailbox[p]]
    BY <1>7 DEF Deliver, Send
  <2>3. \A r \in Requests : IsLive(r) /\ r # q => IsLive(r)'
    BY OpenStepFrame DEF IsLive, Requests
  <2> HIDE DEF q
  <2>4. ASSUME NEW r \in Requests, NEW p \in subscribed'[r]
        PROVE  r # q /\ p \in subscribed[r] /\ p \notin subscribed[q] /\ p \in Opens
    BY <1>1, <2>1, <2>2, <2>4 DEF SubscribedExact
  <2>5. ASSUME NEW r \in Requests, NEW p \in subscribed'[r]
        PROVE  /\ pc'[p] = "wait" /\ mailbox'[p].state = "subscribed"
               /\ r \in strays' \/ (IsLive(r)' /\ r[2] \in Caches)
    BY <1>1, <1>3, <2>2, <2>3, <2>4 DEF SubscribedExact
  <2> QED
    BY <2>4, <2>5 DEF SubscribedExact
<1>8. CASE RequestStage(o) /\ BecomePending(o, Cache(o)) /\ ~Deliver(o)
  BY <1>5, <1>8 DEF BecomePending
<1> QED
  BY <1>5, <1>6, <1>7, <1>8, OpenStepCases

-----------------------------------------------------------------------------
(* Whoever manufactures is found                                           *)

LEMMA RequestIsItsOpens ==
    ASSUME StageTyped, Placed, NEW p \in Opens, Makes(p)
    PROVE  /\ Cache(p) \in Caches /\ Request(p) = <<p, Cache(p)>>
           /\ Request(p) \in Requests
           /\ pc[p] \notin LivePlaces => pc[p] = "done" /\ made[p] = Request(p)
<1>1. Request(p) = <<p, Cache(p)>>
  BY DEF Makes, Request
<1>2. CASE pc[p] \in LivePlaces
  BY <1>1, <1>2, RequestTyped DEF Makes
<1>3. CASE pc[p] \notin LivePlaces
  <2>1. made[p] # None /\ made[p] = Request(p) /\ pc[p] = "done"
    BY <1>3 DEF Makes, Placed, PlacedAt, StageTyped, TypeOK, LivePlaces
  <2>2. Cache(p) \in Caches
    BY <2>1, CacheTyped DEF Makes, Placed, PlacedAt
  <2> QED
    BY <1>1, <1>3, <2>1, <2>2 DEF Requests
<1> QED
  BY <1>2, <1>3

LEMMA OpenStepGrows ==
    ASSUME StageTyped, NEW o \in Opens, OpenStep(o), NEW c \in Caches
    PROVE  stages[c] \subseteq stages'[c]
<1>1. \/ stages' = stages
      \/ \E d, m : stages' = [stages EXCEPT ![d] = @ \cup m]
  BY DEF OpenStep, FindOneMatching, RequestStage, Wait, Manufacture, Publish,
         InsertMade, Deliver, Put, cacheVars
<1>2. stages \in [Caches -> SUBSET Stages]
  BY DEF StageTyped, TypeOK
<1> QED
  BY <1>1, <1>2

(* Other requests stay pending when a step of o changes what is.           *)
LEMMA OpenStepKeepsPending ==
    ASSUME StageTyped, Placed, NEW o \in Opens, OpenStep(o),
           NEW c \in Caches, NEW r \in Requests,
           \E i \in DOMAIN pending[c] : pending[c][i] = r,
           r # Request(o) \/ ~Deliver(o)
    PROVE  \E i \in DOMAIN pending'[c] : pending'[c][i] = r
<1>1. pending \in [Caches -> Seq(Requests)]
  BY DEF StageTyped, TypeOK
<1>2. CASE pending' = pending
  BY <1>2
<1>3. CASE RequestStage(o) /\ BecomePending(o, Cache(o))
  <2> DEFINE d == Cache(o)
             q == pending[c]
  <2>1. pending' = [pending EXCEPT ![d] = Append(@, Request(o))]
    BY <1>3 DEF BecomePending
  <2>2. Request(o) \in Requests /\ q \in Seq(Requests) /\ DOMAIN q = 1 .. Len(q)
    BY <1>1, <1>3, RequestTyped DEF RequestStage
  <2> HIDE DEF d
  <2>3. pending'[c] = q \/ pending'[c] = Append(q, Request(o))
    BY <1>1, <2>1
  <2>4. PICK i \in DOMAIN q : q[i] = r
    OBVIOUS
  <2> HIDE DEF q
  <2>5. i \in DOMAIN Append(q, Request(o)) /\ Append(q, Request(o))[i] = q[i]
    BY <2>2, AppendProperties
  <2> QED
    BY <2>3, <2>4, <2>5
<1>4. CASE Deliver(o)
  <2>1. Cache(o) \in Caches /\ Request(o) \in Requests
    BY <1>4, RequestTyped DEF Deliver, Placed, PlacedAt, LivePlaces
  <2>2. RemovePending(Request(o), Cache(o))
    BY <1>4 DEF Deliver
  <2>3. /\ \A d \in Caches : d # Cache(o) => pending'[d] = pending[d]
        /\ \A j \in DOMAIN pending[Cache(o)] : pending[Cache(o)][j] # Request(o) =>
              \E i \in DOMAIN pending'[Cache(o)] :
                  pending'[Cache(o)][i] = pending[Cache(o)][j]
    BY <2>1, <2>2, RemovePendingKeeps
  <2> QED
    BY <1>4, <2>1, <2>3
<1> QED
  BY <1>2, <1>3, <1>4, OpenStepCases DEF Subscribe

(* Whoever comes to manufacture did so before, or is told to by a cache    *)
(* that holds no stage and no pending request for it.                      *)
LEMMA OpenStepMakes ==
    ASSUME StageTyped, Placed, NEW o \in Opens, OpenStep(o), Makes(o)'
    PROVE  \/ Makes(o) /\ at' = at
           \/ RequestStage(o) /\ BecomePending(o, Cache(o)) /\ at' = at
<1>0. Writable[o]' = Writable[o]
  BY WritableStays
<1>1. /\ pc \in [Opens -> {"find", "request", "wait", "make", "publish",
                           "insert", "deliver", "done", "thrown"}]
      /\ PlacedAt(o)
  BY DEF StageTyped, TypeOK, Placed
<1> USE DEF Makes, LivePlaces, Goto, PlacedAt
<1>2. CASE FindOneMatching(o)
  BY <1>0, <1>1, <1>2 DEF FindOneMatching
<1>3. CASE RequestStage(o)
  <2>1. CASE TakeCached(o, Cache(o))
    BY <1>0, <1>1, <1>3, <2>1 DEF RequestStage, TakeCached, NextCache
  <2>2. CASE Subscribe(o, Cache(o))
    BY <1>0, <1>1, <1>3, <2>2 DEF RequestStage, Subscribe
  <2>3. CASE BecomePending(o, Cache(o))
    BY <1>3, <2>3 DEF BecomePending
  <2> QED
    BY <1>3, <2>1, <2>2, <2>3 DEF RequestStage
<1>4. CASE Wait(o)
  BY <1>0, <1>1, <1>4 DEF Wait, NextCache
<1>5. CASE Manufacture(o) \/ Publish(o) \/ InsertMade(o) \/ Deliver(o)
  BY <1>0, <1>5 DEF Manufacture, Publish, InsertMade, Deliver
<1> QED
  BY <1>2, <1>3, <1>4, <1>5 DEF OpenStep

LEMMA OpenStepMakers ==
    ASSUME StageTyped, Placed, MakersAreFound, NEW o \in Opens,
           OpenStep(o), Undisturbed'
    PROVE  MakersAreFound'
<1> DEFINE Found(p) ==
        /\ pc[p] \in LivePlaces
               => \E i \in DOMAIN pending[Cache(p)] : pending[Cache(p)][i] = Request(p)
        /\ pc[p] \in {"deliver", "done"} => made[p] \in stages[Cache(p)]
<1>0. /\ o \in DOMAIN pc /\ o \in DOMAIN made
      /\ pending \in [Caches -> Seq(Requests)] /\ stages \in [Caches -> SUBSET Stages]
  BY DEF StageTyped, TypeOK
<1>1. ASSUME NEW p \in Opens, p # o, Makes(p)' PROVE Found(p)'
  <2>1. /\ pc'[p] = pc[p] /\ made'[p] = made[p]
        /\ Request(p)' = Request(p) /\ Cache(p)' = Cache(p)
    BY <1>1, OpenStepFrame
  <2>2. Makes(p)
    BY <1>1, <2>1, WritableStays DEF Makes
  <2>3. Found(p) /\ Cache(p) \in Caches /\ Request(p) \in Requests
    BY <2>2, RequestIsItsOpens DEF MakersAreFound
  <2>4. Request(p) # Request(o)
    BY <1>1 DEF Request
  <2>5. pc[p] \in LivePlaces
            => \E i \in DOMAIN pending'[Cache(p)] : pending'[Cache(p)][i] = Request(p)
    BY <2>3, <2>4, OpenStepKeepsPending
  <2>6. pc[p] \in {"deliver", "done"} => made[p] \in stages'[Cache(p)]
    BY <2>3, OpenStepGrows
  <2> QED
    BY <2>1, <2>5, <2>6
<1>2. ASSUME Makes(o)' PROVE Found(o)'
  <2>1. at' = at /\ Request(o)' = Request(o) /\ Cache(o)' = Cache(o)
    BY <1>2, OpenStepMakes, WritableStays DEF Request, Cache
  <2> DEFINE c == Cache(o)
  <2>2. CASE RequestStage(o) /\ BecomePending(o, c)
    <3>1. c \in Caches /\ Request(o) \in Requests
      BY <2>2, RequestTyped DEF RequestStage, Placed, PlacedAt
    <3>2. pc'[o] = "make" /\ pending'[c] = Append(pending[c], Request(o))
      BY <1>0, <2>2, <3>1 DEF BecomePending, Goto
    <3>3. \E i \in DOMAIN pending'[c] : pending'[c][i] = Request(o)
      <4>1. pending[c] \in Seq(Requests)
        BY <1>0, <3>1
      <4>2. Len(pending[c]) + 1 \in DOMAIN Append(pending[c], Request(o))
            /\ Append(pending[c], Request(o))[Len(pending[c]) + 1] = Request(o)
        BY <3>1, <4>1, AppendProperties
      <4> QED
        BY <3>2, <4>2
    <3> QED
      BY <2>1, <3>2, <3>3
  <2>3. CASE Makes(o)
    <3>1. /\ Found(o) /\ c \in Caches /\ Request(o) \in Requests
          /\ pc[o] \in LivePlaces \/ pc[o] = "done"
      BY <2>3, RequestIsItsOpens DEF MakersAreFound
    <3>2. pc[o] # "done"
      BY DEF OpenStep, FindOneMatching, RequestStage, Wait, Manufacture, Publish,
             InsertMade, Deliver
    <3>3. \E i \in DOMAIN pending[c] : pending[c][i] = Request(o)
      BY <3>1, <3>2
    <3>4. ~Deliver(o) => \E i \in DOMAIN pending'[c] : pending'[c][i] = Request(o)
      BY <3>1, <3>3, OpenStepKeepsPending
    <3>5. CASE Manufacture(o)
      <4>1. failures' # failures \cup {o}
        BY DEF Undisturbed
      <4>2. pc'[o] = "publish"
        BY <1>0, <2>3, <3>5, <4>1 DEF Manufacture, Goto, Makes
      <4>3. ~Deliver(o)
        BY <3>5 DEF Manufacture, Deliver
      <4> QED
        BY <2>1, <3>4, <4>2, <4>3
    <3>6. CASE Publish(o)
      <4>1. pc'[o] \in {"publish", "insert"}
        BY <1>0, <3>6 DEF Publish, Goto
      <4>2. ~Deliver(o)
        BY <3>6 DEF Publish, Deliver
      <4> QED
        BY <2>1, <3>4, <4>1, <4>2
    <3>7. CASE InsertMade(o)
      <4>1. pc'[o] = "deliver" /\ made'[o] \in stages'[c]
        BY <1>0, <3>1, <3>7 DEF InsertMade, Put, Goto
      <4>2. ~Deliver(o)
        BY <3>7 DEF InsertMade, Deliver
      <4> QED
        BY <2>1, <3>4, <4>1, <4>2
    <3>8. CASE Deliver(o)
      <4>1. pc[o] = "deliver" /\ pc'[o] = "done" /\ made'[o] = made[o]
        BY <1>0, <3>8 DEF Deliver, Goto
      <4>2. made[o] \in stages'[c]
        BY <3>1, <4>1, OpenStepGrows
      <4> QED
        BY <2>1, <4>1, <4>2 DEF LivePlaces
    <3>9. ~FindOneMatching(o) /\ ~RequestStage(o) /\ ~Wait(o)
      BY <3>1, <3>2 DEF FindOneMatching, RequestStage, Wait, LivePlaces
    <3> QED
      BY <3>5, <3>6, <3>7, <3>8, <3>9 DEF OpenStep
  <2> QED
    BY <1>2, <2>2, <2>3, OpenStepMakes
<1> QED
  BY <1>1, <1>2 DEF MakersAreFound

(* An open that is to manufacture for a cache has found neither a stage    *)
(* nor a pending request there that another open's would be.               *)
LEMMA NewMakerIsAlone ==
    ASSUME StageTyped, Placed, MakersAreFound, NEW o \in Opens, NEW p \in Opens,
           RequestStage(o), BecomePending(o, Cache(o)),
           Makes(p), Cache(p) = Cache(o), Want[p] = Want[o]
    PROVE  FALSE
<1> DEFINE c == Cache(o)
<1>1. /\ c \in Caches /\ Request(p) = <<p, c>> /\ Request(p) \in Requests
      /\ pc[p] \notin LivePlaces => pc[p] = "done" /\ made[p] = Request(p)
  BY RequestIsItsOpens
<1>2. CASE pc[p] \in LivePlaces
  <2>1. PICK i \in DOMAIN pending[c] : pending[c][i] = Request(p)
    BY <1>2 DEF MakersAreFound
  <2>2. SatisfiedByRequest(o, pending[c][i]) /\ IsLive(pending[c][i])
    BY <1>1, <1>2, <2>1 DEF SatisfiedByRequest, IsLive, LivePlaces
  <2> QED
    BY <1>1, <2>2, PendingForFound DEF BecomePending
<1>3. CASE pc[p] \notin LivePlaces
  <2>1. Request(p) \in stages[c]
    BY <1>1, <1>3 DEF MakersAreFound
  <2>2. Request(p) \notin Foreign
    BY <1>1, OpensAssumption
  <2>3. SatisfiedByStage(o, Request(p))
    BY <1>1, <2>2 DEF SatisfiedByStage, SessionOf
  <2> QED
    BY <2>1, <2>3 DEF BecomePending, MatchesIn
<1> QED
  BY <1>2, <1>3

LEMMA OpenStepOneMaker ==
    ASSUME StageTyped, Placed, MakersAreFound, OneMaker, NEW o \in Opens, OpenStep(o)
    PROVE  OneMaker'
<1>1. ASSUME NEW p \in Opens, Makes(p)'
      PROVE  /\ Cache(p)' = Cache(p)
             /\ \/ Makes(p)
                \/ p = o /\ RequestStage(o) /\ BecomePending(o, Cache(o))
  <2>1. CASE p # o
    BY <1>1, <2>1, OpenStepFrame, WritableStays DEF Makes
  <2>2. CASE p = o
    <3>1. at' = at
      BY <1>1, <2>2, OpenStepMakes
    <3>2. Cache(p)' = Cache(p)
      BY <3>1, WritableStays DEF Cache
    <3> QED
      BY <1>1, <2>2, <3>2, OpenStepMakes
  <2> QED
    BY <2>1, <2>2
<1>2. ASSUME NEW p \in Opens, NEW q \in Opens, Makes(p)', Makes(q)',
             Cache(p)' = Cache(q)', Want[p] = Want[q]
      PROVE  p = q
  <2>1. Cache(p) = Cache(q)
    BY <1>1, <1>2
  <2>2. CASE Makes(p) /\ Makes(q)
    BY <1>2, <2>1, <2>2 DEF OneMaker
  <2>3. CASE ~Makes(p) /\ Makes(q)
    BY <1>1, <1>2, <2>1, <2>3, NewMakerIsAlone
  <2>4. CASE Makes(p) /\ ~Makes(q)
    BY <1>1, <1>2, <2>1, <2>4, NewMakerIsAlone
  <2>5. CASE ~Makes(p) /\ ~Makes(q)
    BY <1>1, <1>2, <2>5
  <2> QED
    BY <2>2, <2>3, <2>4, <2>5
<1> QED
  BY <1>2 DEF OneMaker

(* Clients that take nothing out only add stages.                          *)
LEMMA ClientActionMakers ==
    ASSUME StageTyped, Placed, ClientsCount, MakersAreFound, OneMaker,
           ClientAction \/ UNCHANGED vars, Undisturbed'
    PROVE  MakersAreFound' /\ OneMaker'
<1>1. /\ stages \in [Caches -> SUBSET Stages] /\ evictions \in Nat
  BY OpensAssumption DEF StageTyped, TypeOK
<1>2. /\ pending' = pending
      /\ \A c \in Caches : stages[c] \subseteq stages'[c]
  <2>1. CASE UNCHANGED vars
    BY <2>1 DEF vars, cacheVars
  <2>2. ASSUME NEW c \in Caches, Insert(c)
        PROVE  /\ pending' = pending
               /\ \A d \in Caches : stages[d] \subseteq stages'[d]
    BY <1>1, <2>2 DEF Insert
  <2>3. ASSUME NEW c \in Caches, Erase(c) \/ Clear(c) PROVE FALSE
    BY <1>1, <2>3 DEF Erase, Clear, Evict, Undisturbed
  <2>4. ASSUME NEW k \in Clients, NEW c \in Caches, NEW d \in Caches,
               SwapLock(k, c, d) \/ Copy(k, c, d)
        PROVE  FALSE
    BY <1>1, <2>4 DEF SwapLock, Copy, Evict, Undisturbed
  <2>5. ASSUME NEW k \in Clients, ClientStep(k) PROVE FALSE
    <3>1. evictions > 0
      BY <2>5, BusyClient DEF ClientStep, Swap, Assign
    <3> QED
      BY <2>5, <3>1 DEF ClientStep, Swap, Assign, Undisturbed
  <2> QED
    BY <2>1, <2>2, <2>3, <2>4, <2>5 DEF ClientAction
<1>3. ASSUME NEW p \in Opens
      PROVE  /\ pc'[p] = pc[p] /\ made'[p] = made[p] /\ Makes(p)' = Makes(p)
             /\ Request(p)' = Request(p) /\ Cache(p)' = Cache(p)
             /\ Makes(p) => Cache(p) \in Caches
  BY ClientActionFrame, RequestIsItsOpens DEF openVars
<1>4. OneMaker'
  BY <1>3 DEF OneMaker
<1>5. MakersAreFound'
  BY <1>2, <1>3 DEF MakersAreFound
<1> QED
  BY <1>4, <1>5

-----------------------------------------------------------------------------
(* The theorems                                                            *)

LEMMA StageInit == Init => StageInv
<1> SUFFICES ASSUME Init PROVE StageInv
  OBVIOUS
<1>1. StageTyped
  <2>1. <<>> \in Seq(Requests) /\ 0 \in 0 .. MaxEvictions
    BY EmptySeq, OpensAssumption
  <2>2. /\ stages \in [Caches -> SUBSET Stages]
        /\ pending \in [Caches -> Seq(Requests)]
        /\ mutex \in [Caches -> Clients \cup {None}]
        /\ subscribed \in [Requests -> SUBSET Opens]
    BY <2>1 DEF Init
  <2>3. /\ mailbox \in [Opens -> [state : {"unsubscribed", "subscribed", "delivered"},
                                  stage : Stages \cup {None}]]
        /\ pc \in [Opens -> {"find", "request", "wait", "make", "publish",
                             "insert", "deliver", "done", "thrown"}]
        /\ at \in [Opens -> Nat] /\ made \in [Opens -> Requests \cup {None}]
        /\ published \in [Opens -> Nat] /\ stage \in [Opens -> Stages \cup {None}]
        /\ failures \subseteq Opens /\ strays \subseteq Requests
        /\ evictions \in 0 .. MaxEvictions
    BY <2>1 DEF Init, NoMail
  <2>4. client \in [Clients -> ClientStates]
    BY DEF Init, ClientStates
  <2>5. tmp \in [Clients -> (SUBSET Stages) \X Seq(Requests)]
    BY <2>1 DEF Init
  <2> QED
    BY <2>2, <2>3, <2>4, <2>5 DEF StageTyped, TypeOK
<1>2. Placed
  BY DEF Init, Placed, PlacedAt, LivePlaces
<1>3. ClientsCount
  BY DEF Init, ClientsCount
<1>4. PendingExact /\ SubscribedExact
  BY EmptySeq DEF Init, PendingExact, SubscribedExact
<1>5. MakersAreFound /\ OneMaker
  BY DEF Init, MakersAreFound, OneMaker, Makes, LivePlaces
<1> QED
  BY <1>1, <1>2, <1>3, <1>4, <1>5 DEF StageInv

(* What was evicted or failed stays so.                                    *)
LEMMA UndisturbedBefore ==
    ASSUME StageTyped, [Next]_vars, Undisturbed'
    PROVE  Undisturbed
<1>1. evictions \in Nat
  BY OpensAssumption DEF StageTyped, TypeOK
<1>2. ASSUME NEW o \in Opens, OpenStep(o) PROVE Undisturbed
  BY <1>2, OpenStepFrame DEF Undisturbed, clientVars
<1>3. CASE UNCHANGED vars
  BY <1>3 DEF vars, openVars, clientVars, Undisturbed
<1>4. CASE ClientAction
  <2>1. failures' = failures
    BY <1>4, ClientActionFrame DEF openVars
  <2>2. evictions' = evictions \/ evictions' = evictions + 1
    BY <1>4 DEF ClientAction, Erase, Clear, Insert, SwapLock, Copy, ClientStep,
                Swap, Assign, Evict, clientVars
  <2> QED
    BY <1>1, <2>1, <2>2 DEF Undisturbed
<1> QED
  BY <1>2, <1>3, <1>4, NextCases

LEMMA StageNext == StageInv /\ [Next]_vars => StageInv'
<1> SUFFICES ASSUME StageInv, [Next]_vars PROVE StageInv'
  OBVIOUS
<1>1. StageTyped /\ Placed /\ ClientsCount /\ StageTyped' /\ Placed'
  BY StepTyped, StepPlaced DEF StageInv
<1>2. PendingExact /\ SubscribedExact
  BY DEF StageInv
<1>3. Undisturbed' => MakersAreFound /\ OneMaker
  BY <1>1, UndisturbedBefore DEF StageInv
<1>4. ClientsCount'
  <2>1. CASE UNCHANGED vars
    BY <1>1, <2>1 DEF ClientsCount, Undisturbed, vars, cacheVars, openVars, clientVars
  <2> QED
    BY <1>1, <2>1, NextCases, OpenStepClients, ClientActionClients
<1>5. PendingExact' /\ SubscribedExact'
  <2>1. CASE UNCHANGED vars
    <3>1. \A r \in Requests : IsLive(r)' = IsLive(r)
      BY <2>1, ClientActionFrame DEF IsLive, Requests, openVars
    <3>2. PendingExact'
      BY <1>2, <2>1, <3>1 DEF PendingExact, vars, cacheVars
    <3> QED
      BY <1>1, <1>2, <2>1, <3>2, ClientActionSubscribed
  <2>2. CASE ClientAction
    BY <1>1, <1>2, <2>2, ClientActionPending, ClientActionSubscribed
  <2> QED
    BY <1>1, <1>2, <2>1, <2>2, NextCases, OpenStepPending, OpenStepSubscribed
<1>6. ASSUME Undisturbed' PROVE MakersAreFound' /\ OneMaker'
  BY <1>1, <1>3, <1>6, NextCases, OpenStepMakers, OpenStepOneMaker,
     ClientActionMakers
<1> QED
  BY <1>1, <1>4, <1>5, <1>6 DEF StageInv

(* The inductive invariant holds, whatever threads open and clients do.    *)
THEOREM StageCacheInvariant == Spec => []StageInv
  BY StageInit, StageNext, PTL DEF Spec

(* A pending request in a cache is one whose RequestStage still runs, and  *)
(* a subscribed mailbox belongs to a call that waits for such a request,   *)
(* whatever clients do to the caches meanwhile, but for the requests that  *)
(* a swap or an assignment put into another cache's list, or that threw.   *)
THEOREM StageCachePointersAreLive == Spec => []PointersAreLive
<1>1. StageInv => PointersAreLive
  <2> SUFFICES ASSUME StageInv PROVE PointersAreLive
    OBVIOUS
  <2>1. StageTyped /\ PendingExact /\ SubscribedExact
    BY DEF StageInv
  <2>2. \A c \in Caches : \A i \in DOMAIN pending[c] : pending[c][i] \in Requests
    BY <2>1, ElementOfSeq DEF StageTyped, TypeOK
  <2>3. ASSUME NEW c \in Caches, NEW r \in Members(pending[c]) \ strays
        PROVE  IsLive(r)
    BY <2>1, <2>2 DEF Members, PendingExact
  <2> QED
    BY <2>1, <2>3 DEF PointersAreLive, LiveBut, SubscribedExact
<1> QED
  BY <1>1, StageCacheInvariant, PTL

(* Of all the opens that request the same from one cache, one manufactures *)
(* the stage, unless a client took it out again or a manufacture failed.   *)
THEOREM StageCacheCreatedOnce == Spec => []StageCreatedOnce
<1>1. StageInv => StageCreatedOnce
  <2> SUFFICES ASSUME StageInv, Undisturbed, NEW c \in Caches, NEW o \in Opens,
                      NEW p \in Opens, made[o] = <<o, c>>, made[p] = <<p, c>>,
                      Want[o] = Want[p]
               PROVE  o = p
    BY DEF StageCreatedOnce, Undisturbed
  <2>1. Placed /\ OneMaker
    BY DEF StageInv
  <2>2. ASSUME NEW q \in Opens, made[q] = <<q, c>>
        PROVE  Makes(q) /\ Cache(q) = c
    <3>1. made[q] # None
      BY <2>2, NoneIsNothing DEF Requests
    <3>2. Request(q) = <<q, c>>
      BY <2>1, <2>2, <3>1 DEF Placed, PlacedAt
    <3> QED
      BY <3>1, <3>2, NoneIsNothing DEF Request, Makes
  <2> QED
    BY <2>1, <2>2 DEF OneMaker
<1> QED
  BY <1>1, StageCacheInvariant, PTL

-----------------------------------------------------------------------------
(* The working set of a stage: the prefixes of paths                       *)

(* The paths of any prim, named by the rules or not.                       *)
AnyPath == Seq(PrimNames \cup {Unused})

LEMMA PrefixMeans ==
    ASSUME NEW s \in AnyPath, NEW t \in AnyPath
    PROVE  IsPrefix(s, t) <=>
               Len(s) <= Len(t) /\ \A i \in 1 .. Len(s) : s[i] = t[i]
BY SeqPrefixMeans DEF AnyPath

(* Prefixes are a partial order, linear below each path.                   *)
LEMMA PrefixOrder ==
    ASSUME NEW a \in AnyPath, NEW b \in AnyPath, NEW c \in AnyPath
    PROVE  /\ IsPrefix(a, a) /\ IsPrefix(Root, a)
           /\ IsPrefix(a, b) => Len(a) <= Len(b)
           /\ IsPrefix(a, b) /\ IsPrefix(b, c) => IsPrefix(a, c)
           /\ IsPrefix(a, b) /\ IsPrefix(b, a) => a = b
           /\ IsPrefix(a, c) /\ IsPrefix(b, c) =>
                  /\ Len(a) <= Len(b) => IsPrefix(a, b)
                  /\ IsPrefix(a, b) \/ IsPrefix(b, a)
BY SeqPrefixOrder DEF AnyPath, Root

LEMMA PathsAreAny == Paths \subseteq AnyPath /\ Root \in AnyPath
<1>1. Paths \subseteq Seq(PrimNames) /\ Root \in Paths
  BY PathsAssumption
<1>2. Seq(PrimNames) \subseteq AnyPath
  BY DEF AnyPath
<1> QED
  BY <1>1, <1>2

(* Append(p, Unused) is below p, and nothing the rules can name below it.  *)
LEMMA UnusedBelow ==
    ASSUME NEW p \in Paths
    PROVE  LET u == Append(p, Unused)
           IN  /\ u \in AnyPath /\ u \in AllPaths /\ IsPrefix(p, u) /\ u # p
               /\ \A q \in Paths : ~IsPrefix(u, q)
               /\ \A q \in Paths : IsPrefix(q, u) => IsPrefix(q, p)
<1> DEFINE u == Append(p, Unused)
           n == Len(p)
<1>1. p \in Seq(PrimNames) /\ p \in AnyPath
  BY PathsAssumption, PathsAreAny
<1>2. /\ u \in AnyPath /\ Len(u) = n + 1 /\ n \in Nat /\ u[n + 1] = Unused
      /\ \A i \in 1 .. n : u[i] = p[i]
  BY <1>1, AppendProperties DEF AnyPath
<1> HIDE DEF u, n
<1>3. u # p
  BY <1>2 DEF n
<1>4. IsPrefix(p, u)
  BY <1>1, <1>2, PrefixMeans DEF n
<1>5. ASSUME NEW q \in Paths, IsPrefix(u, q) PROVE FALSE
  <2>1. q \in Seq(PrimNames) /\ q \in AnyPath
    BY PathsAssumption, PathsAreAny
  <2>2. n + 1 \in 1 .. Len(q) /\ q[n + 1] = Unused
    BY <1>2, <1>5, <2>1, PrefixMeans
  <2> QED
    BY <2>1, <2>2, ElementOfSeq, PathsAssumption
<1>6. ASSUME NEW q \in Paths, IsPrefix(q, u) PROVE IsPrefix(q, p)
  <2>1. q \in AnyPath /\ Len(q) \in Nat
    BY PathsAreAny DEF AnyPath
  <2>2. Len(q) # n + 1
    <3> SUFFICES ASSUME Len(q) = n + 1 PROVE FALSE
      OBVIOUS
    <3>1. IsPrefix(u, q)
      BY <1>2, <1>6, <2>1, PrefixMeans
    <3> QED
      BY <1>5, <3>1
  <2>3. Len(q) <= n
    BY <1>2, <1>6, <2>1, <2>2, PrefixMeans
  <2> QED
    BY <1>1, <1>2, <1>6, <2>1, <2>3, PrefixMeans DEF n
<1> QED
  BY <1>2, <1>3, <1>4, <1>5, <1>6 DEF u, AllPaths

LEMMA AllPathsAreAny == AllPaths \subseteq AnyPath /\ Paths \subseteq AllPaths
  BY PathsAreAny, UnusedBelow DEF AllPaths

-----------------------------------------------------------------------------
(* The rules in effect                                                     *)

(* n is the longest ruled prefix of path.                                  *)
IsNearest(rs, path, n) ==
    /\ n \in DOMAIN rs /\ IsPrefix(n, path)
    /\ \A r \in DOMAIN rs : IsPrefix(r, path) => IsPrefix(r, n)

LEMMA RulesAre ==
    ASSUME NEW P, NEW rs \in RulesOver(P)
    PROVE  /\ DOMAIN rs \subseteq P
           /\ rs = [q \in DOMAIN rs |-> rs[q]]
           /\ \A q \in DOMAIN rs : rs[q] \in RuleKinds
  BY DEF RulesOver

LEMMA RulesOverMore ==
    ASSUME NEW P, NEW Q, P \subseteq Q
    PROVE  RulesOver(P) \subseteq RulesOver(Q)
  BY DEF RulesOver

LEMMA RulesOverPaths == RulesOver(Paths) \subseteq RulesOver(AnyPath)
  BY RulesOverMore, PathsAreAny

(* What NearestRuled chooses.                                              *)
LEMMA Nearest ==
    ASSUME NEW rs \in RulesOver(AnyPath), NEW path \in AnyPath,
           RuledPrefixes(rs, path) # {}
    PROVE  IsNearest(rs, path, NearestRuled(rs, path))
<1> DEFINE R == RuledPrefixes(rs, path)
           T == {Len(path) - Len(r) : r \in R}
<1>1. /\ DOMAIN rs \subseteq AnyPath /\ R \subseteq AnyPath
      /\ \A r \in R : IsPrefix(r, path) /\ Len(r) \in Nat /\ Len(r) <= Len(path)
      /\ Len(path) \in Nat
  <2>1. DOMAIN rs \subseteq AnyPath
    BY RulesAre
  <2>2. R \subseteq AnyPath /\ \A r \in R : IsPrefix(r, path)
    BY <2>1 DEF RuledPrefixes
  <2>3. \A r \in AnyPath : Len(r) \in Nat
    BY DEF AnyPath
  <2>4. \A r \in R : Len(r) <= Len(path)
    BY <2>2, PrefixOrder
  <2> QED
    BY <2>1, <2>2, <2>3, <2>4
<1> HIDE DEF R
<1>2. T \subseteq Nat
  BY <1>1
<1>3. T # {}
  BY DEF R
<1> HIDE DEF T
<1>4. PICK i \in T : \A j \in T : i <= j
  BY <1>2, <1>3, Least
<1>5. PICK n \in R : i = Len(path) - Len(n)
  BY DEF T
<1>6. \A r \in R : i <= Len(path) - Len(r)
  BY <1>4 DEF T
<1>7. \A r \in R : Len(r) <= Len(n)
  <2> SUFFICES ASSUME NEW r \in R PROVE Len(r) <= Len(n)
    OBVIOUS
  <2>1. Len(path) - Len(n) <= Len(path) - Len(r)
    BY <1>5, <1>6
  <2>2. Len(n) \in Nat /\ Len(r) \in Nat /\ Len(path) \in Nat
    BY <1>1
  <2> QED
    BY <2>1, <2>2
<1> DEFINE m == NearestRuled(rs, path)
<1>8. m \in R /\ \A r \in R : Len(r) <= Len(m)
  <2>1. \E q \in R : \A r \in R : Len(r) <= Len(q)
    BY <1>7
  <2> QED
    BY <2>1 DEF NearestRuled, R
<1> HIDE DEF m
<1>9. \A r \in R : IsPrefix(r, m)
  BY <1>1, <1>8, PrefixOrder
<1>10. m \in DOMAIN rs /\ IsPrefix(m, path)
  BY <1>8 DEF R, RuledPrefixes
<1>11. \A r \in DOMAIN rs : IsPrefix(r, path) => r \in R
  BY DEF R, RuledPrefixes
<1> QED
  BY <1>9, <1>10, <1>11 DEF IsNearest, m

LEMMA NearestIsOne ==
    ASSUME NEW rs \in RulesOver(AnyPath), NEW path \in AnyPath, NEW n,
           IsNearest(rs, path, n)
    PROVE  RuledPrefixes(rs, path) # {} /\ NearestRuled(rs, path) = n
<1>1. n \in RuledPrefixes(rs, path)
  BY DEF IsNearest, RuledPrefixes
<1> DEFINE m == NearestRuled(rs, path)
<1>2. IsNearest(rs, path, m)
  BY <1>1, Nearest
<1> HIDE DEF m
<1>3. IsPrefix(m, n) /\ IsPrefix(n, m) /\ m \in AnyPath /\ n \in AnyPath
  BY <1>2, RulesAre DEF IsNearest
<1> QED
  BY <1>1, <1>3, PrefixOrder DEF m

(* A path is loaded when no rule is at or above it, ...                    *)
LEMMA LoadedIfUnruled ==
    ASSUME NEW rs, NEW path, \A r \in DOMAIN rs : ~IsPrefix(r, path)
    PROVE  /\ GetEffectiveRuleForPath(rs, path) = "AllRule"
           /\ IsLoaded(rs, path)
  BY DEF GetEffectiveRuleForPath, IsLoaded, RuledPrefixes

(* ... and otherwise as its nearest rule says, or one of those directly    *)
(* below it.                                                               *)
LEMMA LoadedIfNearest ==
    ASSUME NEW rs \in RulesOver(AnyPath), NEW path \in AnyPath, NEW n,
           IsNearest(rs, path, n)
    PROVE  /\ IsLoaded(rs, path) <=>
                 \/ rs[n] = "AllRule"
                 \/ rs[n] = "OnlyRule" /\ n = path
                 \/ \E q \in DirectRuled(rs, path) : rs[q] # "NoneRule"
           /\ GetEffectiveRuleForPath(rs, path) = "AllRule" <=> rs[n] = "AllRule"
           /\ GetEffectiveRuleForPath(rs, path) \in RuleKinds
<1>1. /\ RuledPrefixes(rs, path) # {} /\ NearestRuled(rs, path) = n
      /\ rs[n] \in RuleKinds
  BY NearestIsOne, RulesAre DEF IsNearest
<1>2. GetEffectiveRuleForPath(rs, path) =
          CASE rs[n] = "AllRule" -> "AllRule"
            [] rs[n] = "OnlyRule" /\ n = path -> "OnlyRule"
            [] OTHER ->
                 IF \E q \in DirectRuled(rs, path) : rs[q] # "NoneRule"
                 THEN "OnlyRule" ELSE "NoneRule"
  BY <1>1 DEF GetEffectiveRuleForPath
<1>3. CASE rs[n] = "AllRule"
  <2>1. GetEffectiveRuleForPath(rs, path) = "AllRule"
    BY <1>2, <1>3
  <2> QED
    BY <1>3, <2>1 DEF IsLoaded, RuleKinds
<1>4. CASE rs[n] = "OnlyRule" /\ n = path
  <2>1. GetEffectiveRuleForPath(rs, path) = "OnlyRule"
    BY <1>2, <1>4
  <2> QED
    BY <1>4, <2>1 DEF IsLoaded, RuleKinds
<1>5. CASE rs[n] # "AllRule" /\ ~(rs[n] = "OnlyRule" /\ n = path)
  <2>1. GetEffectiveRuleForPath(rs, path) =
            IF \E q \in DirectRuled(rs, path) : rs[q] # "NoneRule"
            THEN "OnlyRule" ELSE "NoneRule"
    BY <1>2, <1>5
  <2> QED
    BY <1>5, <2>1 DEF IsLoaded, RuleKinds
<1> QED
  BY <1>3, <1>4, <1>5

(* There is a nearest ruled prefix or no ruled prefix at all.              *)
LEMMA NearestOrNone ==
    ASSUME NEW rs \in RulesOver(AnyPath), NEW path \in AnyPath
    PROVE  \/ \A r \in DOMAIN rs : ~IsPrefix(r, path)
           \/ \E n \in DOMAIN rs : IsNearest(rs, path, n)
<1>1. CASE RuledPrefixes(rs, path) = {}
  BY <1>1 DEF RuledPrefixes
<1>2. CASE RuledPrefixes(rs, path) # {}
  BY <1>2, Nearest DEF IsNearest
<1> QED
  BY <1>1, <1>2

LEMMA DirectMeans ==
    ASSUME NEW rs, NEW path, NEW q
    PROVE  q \in DirectRuled(rs, path) <=>
               /\ q \in DOMAIN rs /\ IsPrefix(path, q) /\ q # path
               /\ \A r \in DOMAIN rs :
                    IsPrefix(path, r) /\ r # path /\ IsPrefix(r, q) => r = q
  BY DEF DirectRuled, RuledUnder

(* What no rule is above or below is not named; an unnamed child is loaded *)
(* when the rule above it is AllRule or there is none.                     *)
LEMMA UnusedLoaded ==
    ASSUME NEW rs \in RulesOver(Paths), NEW p \in Paths
    PROVE  LET u == Append(p, Unused)
           IN  /\ \A n : IsNearest(rs, p, n) =>
                           (IsLoaded(rs, u) <=> rs[n] = "AllRule")
               /\ (\A r \in DOMAIN rs : ~IsPrefix(r, p)) => IsLoaded(rs, u)
<1> DEFINE u == Append(p, Unused)
<1>1. /\ u \in AnyPath /\ p \in AnyPath /\ IsPrefix(p, u)
      /\ \A q \in Paths : ~IsPrefix(u, q)
      /\ \A q \in Paths : IsPrefix(q, u) => IsPrefix(q, p)
  BY UnusedBelow, PathsAreAny
<1> HIDE DEF u
<1>2. DOMAIN rs \subseteq Paths /\ rs \in RulesOver(AnyPath) /\ Paths \subseteq AnyPath
  BY RulesAre, RulesOverPaths, PathsAreAny
<1>3. ASSUME NEW n, IsNearest(rs, p, n) PROVE IsLoaded(rs, u) <=> rs[n] = "AllRule"
  <2>1. n \in Paths /\ n \in AnyPath /\ IsPrefix(n, p) /\ n \in DOMAIN rs
    BY <1>2, <1>3 DEF IsNearest
  <2>2. IsPrefix(n, u)
    BY <1>1, <2>1, PrefixOrder
  <2>3. IsNearest(rs, u, n)
    BY <1>1, <1>2, <1>3, <2>2 DEF IsNearest
  <2>4. n # u
    BY <1>1, <2>1, PrefixOrder
  <2>5. DirectRuled(rs, u) = {}
    BY <1>1, <1>2, DirectMeans
  <2> QED
    BY <1>1, <1>2, <2>3, <2>4, <2>5, LoadedIfNearest
<1>4. ASSUME \A r \in DOMAIN rs : ~IsPrefix(r, p) PROVE IsLoaded(rs, u)
  <2>1. \A r \in DOMAIN rs : ~IsPrefix(r, u)
    BY <1>1, <1>2, <1>4
  <2> QED
    BY <2>1, LoadedIfUnruled
<1> QED
  BY <1>3, <1>4 DEF u

(* A ruled path is its own nearest rule.                                   *)
LEMMA RuledIsNearest ==
    ASSUME NEW rs \in RulesOver(AnyPath), NEW q \in DOMAIN rs
    PROVE  q \in AnyPath /\ IsNearest(rs, q, q)
<1>1. q \in AnyPath
  BY RulesAre
<1>2. IsPrefix(q, q)
  BY <1>1, PrefixOrder
<1> QED
  BY <1>1, <1>2 DEF IsNearest

LEMMA AllDescendantsExact ==
    ASSUME NEW rs \in RulesOver(Paths), NEW p \in Paths
    PROVE  IsLoadedWithAllDescendants(rs, p) <=>
               \A q \in AllPaths : IsPrefix(p, q) => IsLoaded(rs, q)
<1>1. /\ DOMAIN rs \subseteq Paths /\ rs \in RulesOver(AnyPath) /\ Paths \subseteq AnyPath
      /\ p \in AnyPath /\ AllPaths \subseteq AnyPath /\ DOMAIN rs \subseteq AnyPath
  BY RulesAre, RulesOverPaths, PathsAreAny, AllPathsAreAny
<1>2. ASSUME IsLoadedWithAllDescendants(rs, p),
             NEW q \in AllPaths, IsPrefix(p, q)
      PROVE  IsLoaded(rs, q)
  <2>1. q \in AnyPath
    BY <1>1
  <2>2. CASE \A r \in DOMAIN rs : ~IsPrefix(r, q)
    BY <2>2, LoadedIfUnruled
  <2>3. ASSUME NEW n \in DOMAIN rs, IsNearest(rs, q, n) PROVE rs[n] = "AllRule"
    <3>1. n \in AnyPath /\ IsPrefix(n, q)
      BY <1>1, <2>3 DEF IsNearest
    <3>2. CASE IsPrefix(p, n)
      BY <1>2, <3>2 DEF IsLoadedWithAllDescendants, RuledUnder
    <3>3. CASE IsPrefix(n, p)
      <4>1. \A r \in DOMAIN rs : IsPrefix(r, p) => IsPrefix(r, n)
        BY <1>1, <1>2, <2>1, <2>3, PrefixOrder DEF IsNearest
      <4>2. IsNearest(rs, p, n)
        BY <3>3, <4>1 DEF IsNearest
      <4> QED
        BY <1>1, <1>2, <4>2, NearestIsOne DEF IsLoadedWithAllDescendants
    <3> QED
      BY <1>1, <1>2, <2>1, <3>1, <3>2, <3>3, PrefixOrder
  <2> QED
    BY <1>1, <2>1, <2>2, <2>3, NearestOrNone, LoadedIfNearest
<1>3. ASSUME \A q \in AllPaths : IsPrefix(p, q) => IsLoaded(rs, q)
      PROVE  IsLoadedWithAllDescendants(rs, p)
  <2>1. ASSUME NEW q \in Paths, IsPrefix(p, q), NEW n, IsNearest(rs, q, n)
        PROVE  rs[n] = "AllRule"
    <3>1. /\ Append(q, Unused) \in AnyPath /\ Append(q, Unused) \in AllPaths
          /\ IsPrefix(q, Append(q, Unused))
      BY UnusedBelow
    <3>2. IsPrefix(p, Append(q, Unused))
      BY <1>1, <2>1, <3>1, PrefixOrder
    <3>3. IsLoaded(rs, Append(q, Unused))
      BY <1>3, <3>1, <3>2
    <3> QED
      BY <2>1, <3>3, UnusedLoaded
  <2>2. ASSUME RuledPrefixes(rs, p) # {} PROVE rs[NearestRuled(rs, p)] = "AllRule"
    BY <1>1, <2>1, <2>2, Nearest, PrefixOrder
  <2>3. ASSUME NEW q \in RuledUnder(rs, p) PROVE rs[q] = "AllRule"
    <3>1. q \in DOMAIN rs /\ IsPrefix(p, q) /\ q \in Paths
      BY <1>1 DEF RuledUnder
    <3> QED
      BY <1>1, <2>1, <3>1, RuledIsNearest
  <2> QED
    BY <2>2, <2>3 DEF IsLoadedWithAllDescendants
<1> QED
  BY <1>2, <1>3

LEMMA NoDescendantsExact ==
    ASSUME NEW rs \in RulesOver(Paths), NEW p \in Paths
    PROVE  IsLoadedWithNoDescendants(rs, p) <=>
               \A q \in AllPaths : IsPrefix(p, q) => (IsLoaded(rs, q) <=> q = p)
<1>1. /\ DOMAIN rs \subseteq Paths /\ rs \in RulesOver(AnyPath) /\ Paths \subseteq AnyPath
      /\ p \in AnyPath /\ AllPaths \subseteq AnyPath /\ DOMAIN rs \subseteq AnyPath
      /\ Paths \subseteq AllPaths
  BY RulesAre, RulesOverPaths, PathsAreAny, AllPathsAreAny
<1>2. ASSUME IsLoadedWithNoDescendants(rs, p),
             NEW q \in AllPaths, IsPrefix(p, q)
      PROVE  IsLoaded(rs, q) <=> q = p
  <2>1. /\ p \in DOMAIN rs /\ rs[p] = "OnlyRule" /\ q \in AnyPath
        /\ \A d \in DOMAIN rs : IsPrefix(p, d) /\ d # p => rs[d] = "NoneRule"
    BY <1>1, <1>2 DEF IsLoadedWithNoDescendants, RuledUnder
  <2>2. CASE q = p
    <3>1. IsNearest(rs, p, p)
      BY <1>1, <2>1, RuledIsNearest
    <3> QED
      BY <1>1, <2>1, <2>2, <3>1, LoadedIfNearest
  <2>3. CASE q # p
    <3>1. PICK n \in DOMAIN rs : IsNearest(rs, q, n)
      BY <1>1, <1>2, <2>1, NearestOrNone
    <3>2. n \in AnyPath /\ IsPrefix(p, n) /\ IsPrefix(n, q)
      BY <1>1, <1>2, <2>1, <3>1 DEF IsNearest
    <3>3. rs[n] # "AllRule" /\ ~(rs[n] = "OnlyRule" /\ n = q)
      BY <2>1, <2>3, <3>2
    <3>4. ASSUME NEW d \in DirectRuled(rs, q) PROVE rs[d] = "NoneRule"
      <4>1. d \in DOMAIN rs /\ IsPrefix(q, d) /\ d # q
        BY DirectMeans
      <4>2. IsPrefix(p, d) /\ d # p
        BY <1>1, <1>2, <2>1, <4>1, PrefixOrder
      <4> QED
        BY <2>1, <4>1, <4>2
    <3> QED
      BY <1>1, <2>1, <2>3, <3>1, <3>3, <3>4, LoadedIfNearest
  <2> QED
    BY <2>2, <2>3
<1>3. ASSUME \A q \in AllPaths : IsPrefix(p, q) => (IsLoaded(rs, q) <=> q = p)
      PROVE  IsLoadedWithNoDescendants(rs, p)
  <2>1. IsLoaded(rs, p) /\ IsPrefix(p, p)
    BY <1>1, <1>3, PrefixOrder
  <2>2. ~IsLoaded(rs, Append(p, Unused))
    BY <1>3, UnusedBelow
  <2>3. PICK n \in DOMAIN rs : IsNearest(rs, p, n)
    BY <1>1, <2>2, NearestOrNone, UnusedLoaded
  <2>4. rs[n] # "AllRule"
    BY <2>2, <2>3, UnusedLoaded
  <2>5. ASSUME NEW d \in DOMAIN rs, IsPrefix(p, d), d # p PROVE rs[d] = "NoneRule"
    <3>1. ~IsLoaded(rs, d)
      BY <1>1, <1>3, <2>5
    <3>2. d \in AnyPath /\ IsNearest(rs, d, d) /\ rs[d] \in RuleKinds
      BY <1>1, RuledIsNearest, RulesAre
    <3>3. rs[d] # "AllRule" /\ rs[d] # "OnlyRule"
      BY <1>1, <3>1, <3>2, LoadedIfNearest
    <3> QED
      BY <3>2, <3>3 DEF RuleKinds
  <2>6. ~\E q \in DirectRuled(rs, p) : rs[q] # "NoneRule"
    BY <2>5, DirectMeans
  <2>7. rs[n] = "OnlyRule" /\ n = p
    BY <1>1, <2>1, <2>3, <2>4, <2>6, LoadedIfNearest
  <2> QED
    BY <2>5, <2>7 DEF IsLoadedWithNoDescendants, RuledUnder
<1> QED
  BY <1>2, <1>3

-----------------------------------------------------------------------------
(* Changing the rules                                                      *)

Untouched(S, q) == \A p \in S : ~IsPrefix(p, q)

(* What ReplaceUnder makes of rs.                                          *)
IsReplaced(new, rs, S, rule) ==
    /\ new \in RulesOver(Paths)
    /\ DOMAIN new = {q \in DOMAIN rs : Untouched(S, q)} \cup S
    /\ \A q \in S : new[q] = rule
    /\ \A q \in DOMAIN rs : Untouched(S, q) => q \notin S /\ new[q] = rs[q]

LEMMA ReplaceMeans ==
    ASSUME NEW rs \in RulesOver(Paths), NEW S \in SUBSET Paths, NEW rule \in RuleKinds
    PROVE  IsReplaced(ReplaceUnder(rs, S, rule), rs, S, rule)
<1> DEFINE D == {q \in DOMAIN rs : Untouched(S, q)} \cup S
           new == ReplaceUnder(rs, S, rule)
<1>1. DOMAIN rs \subseteq Paths /\ \A q \in DOMAIN rs : rs[q] \in RuleKinds
  BY RulesAre
<1>2. new = [q \in D |-> IF q \in S THEN rule ELSE rs[q]]
  BY DEF ReplaceUnder, Untouched
<1>3. D \subseteq Paths /\ \A q \in D : (IF q \in S THEN rule ELSE rs[q]) \in RuleKinds
  BY <1>1
<1> HIDE DEF new
<1>4. DOMAIN new = D
  BY <1>2
<1>5. \A q \in DOMAIN rs : Untouched(S, q) => q \notin S
  BY <1>1, PathsAreAny, PrefixOrder DEF Untouched
<1> HIDE DEF D
<1>6. new \in [D -> RuleKinds]
  BY <1>2, <1>3
<1>7. new \in RulesOver(Paths)
  BY <1>3, <1>6 DEF RulesOver
<1>8. \A q \in S : new[q] = rule
  BY <1>2 DEF D
<1>9. \A q \in DOMAIN rs : Untouched(S, q) => q \notin S /\ new[q] = rs[q]
  BY <1>2, <1>5 DEF D
<1> QED
  BY <1>4, <1>7, <1>8, <1>9 DEF D, new, IsReplaced

LoadRule(withDescendants) == IF withDescendants THEN "AllRule" ELSE "OnlyRule"

(* What the rules are after LoadAndUnload: the new rules of the two sets,  *)
(* and those of the old ones that neither set is above.                    *)
IsLoadedAndUnloaded(new, rs, L, U, w) ==
    /\ new \in RulesOver(Paths)
    /\ L \subseteq DOMAIN new /\ \A q \in L : new[q] = LoadRule(w)
    /\ \A q \in DOMAIN rs : Untouched(L \cup U, q) => q \in DOMAIN new
    /\ \A q \in DOMAIN new :
         \/ q \in L
         \/ q \in U /\ new[q] = "NoneRule"
         \/ q \in DOMAIN rs /\ Untouched(L \cup U, q) /\ new[q] = rs[q]
    /\ \A q \in U : q \in DOMAIN new \/ \E p \in L : IsPrefix(p, q)

LEMMA LoadAndUnloadMeans ==
    ASSUME NEW rs \in RulesOver(Paths), NEW L \in SUBSET Paths, NEW U \in SUBSET Paths,
           NEW w \in BOOLEAN
    PROVE  IsLoadedAndUnloaded(LoadAndUnload(rs, L, U, w), rs, L, U, w)
<1> DEFINE mid == ReplaceUnder(rs, U, "NoneRule")
           new == ReplaceUnder(mid, L, LoadRule(w))
<1>1. LoadAndUnload(rs, L, U, w) = new
  BY DEF LoadAndUnload, Unload, LoadWithDescendants, LoadWithoutDescendants, LoadRule
<1>2. "NoneRule" \in RuleKinds /\ LoadRule(w) \in RuleKinds
  BY DEF RuleKinds, LoadRule
<1>3. /\ mid \in RulesOver(Paths)
      /\ DOMAIN mid = {q \in DOMAIN rs : Untouched(U, q)} \cup U
      /\ \A q \in U : mid[q] = "NoneRule"
      /\ \A q \in DOMAIN rs : Untouched(U, q) => q \notin U /\ mid[q] = rs[q]
  <2>1. IsReplaced(mid, rs, U, "NoneRule")
    BY <1>2, ReplaceMeans
  <2> QED
    BY <2>1 DEF IsReplaced
<1> HIDE DEF mid
<1>4. /\ new \in RulesOver(Paths)
      /\ DOMAIN new = {q \in DOMAIN mid : Untouched(L, q)} \cup L
      /\ \A q \in L : new[q] = LoadRule(w)
      /\ \A q \in DOMAIN mid : Untouched(L, q) => q \notin L /\ new[q] = mid[q]
  <2>1. IsReplaced(new, mid, L, LoadRule(w))
    BY <1>2, <1>3, ReplaceMeans
  <2> QED
    BY <2>1 DEF IsReplaced
<1> HIDE DEF new
<1>5. \A q : Untouched(L \cup U, q) <=> Untouched(L, q) /\ Untouched(U, q)
  BY DEF Untouched
<1>6. \A q \in DOMAIN rs : Untouched(L \cup U, q) => q \in DOMAIN new
  BY <1>3, <1>4, <1>5
<1>7. ASSUME NEW q \in DOMAIN new
      PROVE  \/ q \in L
             \/ q \in U /\ new[q] = "NoneRule"
             \/ q \in DOMAIN rs /\ Untouched(L \cup U, q) /\ new[q] = rs[q]
  BY <1>3, <1>4, <1>5
<1>8. ASSUME NEW q \in U PROVE q \in DOMAIN new \/ \E p \in L : IsPrefix(p, q)
  BY <1>3, <1>4 DEF Untouched
<1> QED
  BY <1>1, <1>4, <1>6, <1>7, <1>8 DEF IsLoadedAndUnloaded

(* Where neither set is above a path, its nearest rule stays.              *)
LEMMA NearestStays ==
    ASSUME NEW rs \in RulesOver(Paths), NEW L \in SUBSET Paths, NEW U \in SUBSET Paths,
           NEW w \in BOOLEAN, NEW x \in AnyPath, Untouched(L \cup U, x)
    PROVE  LET new == LoadAndUnload(rs, L, U, w)
           IN  /\ \A r : r \in DOMAIN rs /\ IsPrefix(r, x)
                           <=> r \in DOMAIN new /\ IsPrefix(r, x)
               /\ \A n : IsNearest(rs, x, n) <=> IsNearest(new, x, n)
               /\ \A n : IsNearest(rs, x, n) => new[n] = rs[n]
<1> DEFINE new == LoadAndUnload(rs, L, U, w)
           S == L \cup U
<1>1. /\ new \in RulesOver(Paths)
      /\ \A q \in DOMAIN rs : Untouched(S, q) => q \in DOMAIN new
      /\ \A q \in DOMAIN new :
                    \/ q \in L
                    \/ q \in U /\ new[q] = "NoneRule"
                    \/ q \in DOMAIN rs /\ Untouched(S, q) /\ new[q] = rs[q]
  <2>1. IsLoadedAndUnloaded(new, rs, L, U, w)
    BY LoadAndUnloadMeans
  <2> QED
    BY <2>1 DEF IsLoadedAndUnloaded
<1> HIDE DEF new
<1>2. /\ DOMAIN rs \subseteq AnyPath /\ DOMAIN new \subseteq AnyPath /\ S \subseteq AnyPath
  BY <1>1, RulesAre, PathsAreAny
<1>3. ASSUME NEW r \in AnyPath, IsPrefix(r, x) PROVE Untouched(S, r) /\ r \notin S
  BY <1>2, <1>3, PrefixOrder DEF Untouched
<1>4. \A r : r \in DOMAIN rs /\ IsPrefix(r, x) <=> r \in DOMAIN new /\ IsPrefix(r, x)
  BY <1>1, <1>2, <1>3
<1>5. \A n : IsNearest(rs, x, n) <=> IsNearest(new, x, n)
  BY <1>4 DEF IsNearest
<1>6. ASSUME NEW n, IsNearest(rs, x, n) PROVE new[n] = rs[n]
  <2>1. n \in DOMAIN new /\ IsPrefix(n, x) /\ n \in AnyPath
    BY <1>2, <1>4, <1>6 DEF IsNearest
  <2> QED
    BY <1>1, <1>3, <2>1
<1> QED
  BY <1>4, <1>5, <1>6 DEF new

(* A path that neither set is above is loaded anew only by a load directly *)
(* below it.                                                               *)
LEMMA LoadedAnew ==
    ASSUME NEW rs \in RulesOver(Paths), NEW L \in SUBSET Paths, NEW U \in SUBSET Paths,
           NEW w \in BOOLEAN, NEW x \in AnyPath, Untouched(L \cup U, x),
           ~IsLoaded(rs, x), IsLoaded(LoadAndUnload(rs, L, U, w), x)
    PROVE  \E p \in L : p \in DirectRuled(LoadAndUnload(rs, L, U, w), x)
<1> DEFINE new == LoadAndUnload(rs, L, U, w)
           S == L \cup U
<1>1. /\ new \in RulesOver(Paths)
      /\ \A q \in DOMAIN rs : Untouched(S, q) => q \in DOMAIN new
      /\ \A q \in DOMAIN new :
                    \/ q \in L
                    \/ q \in U /\ new[q] = "NoneRule"
                    \/ q \in DOMAIN rs /\ Untouched(S, q) /\ new[q] = rs[q]
  <2>1. IsLoadedAndUnloaded(new, rs, L, U, w)
    BY LoadAndUnloadMeans
  <2> QED
    BY <2>1 DEF IsLoadedAndUnloaded
<1>2. /\ \A r : r \in DOMAIN rs /\ IsPrefix(r, x) <=> r \in DOMAIN new /\ IsPrefix(r, x)
      /\ \A n : IsNearest(rs, x, n) <=> IsNearest(new, x, n)
      /\ \A n : IsNearest(rs, x, n) => new[n] = rs[n]
  BY NearestStays
<1>3. IsLoaded(new, x)
  OBVIOUS
<1> HIDE DEF new
<1>4. /\ rs \in RulesOver(AnyPath) /\ new \in RulesOver(AnyPath)
      /\ DOMAIN rs \subseteq AnyPath /\ DOMAIN new \subseteq AnyPath /\ S \subseteq AnyPath
  BY <1>1, RulesAre, RulesOverPaths, PathsAreAny
<1>5. PICK n \in DOMAIN rs : IsNearest(rs, x, n)
  BY <1>4, NearestOrNone, LoadedIfUnruled
<1>6. /\ rs[n] # "AllRule" /\ ~(rs[n] = "OnlyRule" /\ n = x)
      /\ ~\E q \in DirectRuled(rs, x) : rs[q] # "NoneRule"
  BY <1>4, <1>5, LoadedIfNearest
<1>7. PICK d \in DirectRuled(new, x) : new[d] # "NoneRule"
  BY <1>2, <1>3, <1>4, <1>5, <1>6, LoadedIfNearest
<1>8. /\ d \in DOMAIN new /\ d \in AnyPath /\ IsPrefix(x, d) /\ d # x
      /\ \A r \in DOMAIN new : IsPrefix(x, r) /\ r # x /\ IsPrefix(r, d) => r = d
  BY <1>4, DirectMeans
<1>9. CASE d \in L
  BY <1>9 DEF new
<1>10. CASE d \notin L
  <2>1. d \in DOMAIN rs /\ Untouched(S, d) /\ new[d] = rs[d]
    BY <1>1, <1>7, <1>8, <1>10
  <2>2. ASSUME NEW r \in DOMAIN rs, IsPrefix(x, r), r # x, IsPrefix(r, d) PROVE r = d
    <3>1. Untouched(S, r)
      BY <1>4, <1>8, <2>1, <2>2, PrefixOrder DEF Untouched
    <3> QED
      BY <1>1, <1>8, <2>2, <3>1
  <2>3. d \in DirectRuled(rs, x)
    BY <1>8, <2>1, <2>2, DirectMeans
  <2> QED
    BY <1>6, <1>7, <2>1, <2>3
<1> QED
  BY <1>9, <1>10

(* What is loaded below a path that is not has a rule in between.          *)
LEMMA RuleBetween ==
    ASSUME NEW rs \in RulesOver(AnyPath), NEW x \in AnyPath, NEW d \in AnyPath,
           IsPrefix(x, d), IsLoaded(rs, d), ~IsLoaded(rs, x)
    PROVE  \E r \in DOMAIN rs : IsStrictPrefix(x, r) /\ IsPrefix(r, d)
<1> SUFFICES ASSUME \A r \in DOMAIN rs : ~(IsPrefix(x, r) /\ x # r /\ IsPrefix(r, d))
             PROVE  FALSE
  BY DEF IsStrictPrefix
<1>1. DOMAIN rs \subseteq AnyPath /\ d # x
  BY RulesAre
<1>2. PICK n \in DOMAIN rs : IsNearest(rs, x, n)
  BY NearestOrNone, LoadedIfUnruled
<1>3. n \in AnyPath /\ IsPrefix(n, x) /\ IsPrefix(n, d)
  BY <1>1, <1>2, PrefixOrder DEF IsNearest
<1>4. ASSUME NEW r \in DOMAIN rs, IsPrefix(r, d) PROVE IsPrefix(r, n)
  <2>1. IsPrefix(r, x)
    BY <1>1, <1>4, PrefixOrder
  <2> QED
    BY <1>2, <2>1 DEF IsNearest
<1>5. IsNearest(rs, d, n)
  BY <1>2, <1>3, <1>4 DEF IsNearest
<1>6. rs[n] # "AllRule" /\ ~\E q \in DirectRuled(rs, x) : rs[q] # "NoneRule"
  BY <1>2, LoadedIfNearest
<1>7. n # d
  BY <1>1, <1>3, PrefixOrder
<1>8. PICK q \in DirectRuled(rs, d) : rs[q] # "NoneRule"
  BY <1>5, <1>6, <1>7, LoadedIfNearest
<1>9. /\ q \in DOMAIN rs /\ q \in AnyPath /\ IsPrefix(d, q) /\ q # d
      /\ \A r \in DOMAIN rs : IsPrefix(d, r) /\ r # d /\ IsPrefix(r, q) => r = q
  BY <1>1, DirectMeans
<1>10. IsPrefix(x, q) /\ q # x
  BY <1>1, <1>9, PrefixOrder
<1>11. ASSUME NEW r \in DOMAIN rs, IsPrefix(x, r), r # x, IsPrefix(r, q) PROVE r = q
  <2>1. ~IsPrefix(r, d)
    BY <1>11
  <2>2. IsPrefix(d, r) /\ r # d
    BY <1>1, <1>9, <1>11, <2>1, PrefixOrder
  <2> QED
    BY <1>9, <1>11, <2>2
<1>12. q \in DirectRuled(rs, x)
  BY <1>9, <1>10, <1>11, DirectMeans
<1> QED
  BY <1>6, <1>8, <1>12

(* With one path loaded or unloaded, a path that it is not above goes out  *)
(* of effect only when it is above an unloaded one.                        *)
LEMMA StillLoaded ==
    ASSUME NEW rs \in RulesOver(Paths), NEW p \in Paths,
           NEW L \in SUBSET {p}, NEW U \in SUBSET {p},
           NEW w \in BOOLEAN, NEW x \in AnyPath, Untouched(L \cup U, x),
           IsLoaded(rs, x), ~IsLoaded(LoadAndUnload(rs, L, U, w), x)
    PROVE  p \in U /\ p \notin L /\ IsPrefix(x, p)
<1> DEFINE new == LoadAndUnload(rs, L, U, w)
           S == L \cup U
<1>0. L \in SUBSET Paths /\ U \in SUBSET Paths
  OBVIOUS
<1>1. /\ new \in RulesOver(Paths)
      /\ L \subseteq DOMAIN new /\ \A q \in L : new[q] = LoadRule(w)
      /\ \A q \in DOMAIN rs : Untouched(S, q) => q \in DOMAIN new
      /\ \A q \in DOMAIN new :
                    \/ q \in L
                    \/ q \in U /\ new[q] = "NoneRule"
                    \/ q \in DOMAIN rs /\ Untouched(S, q) /\ new[q] = rs[q]
  <2>1. IsLoadedAndUnloaded(new, rs, L, U, w)
    BY <1>0, LoadAndUnloadMeans
  <2> QED
    BY <2>1 DEF IsLoadedAndUnloaded
<1>2. /\ \A r : r \in DOMAIN rs /\ IsPrefix(r, x) <=> r \in DOMAIN new /\ IsPrefix(r, x)
      /\ \A n : IsNearest(rs, x, n) <=> IsNearest(new, x, n)
      /\ \A n : IsNearest(rs, x, n) => new[n] = rs[n]
  BY <1>0, NearestStays
<1>3. ~IsLoaded(new, x)
  OBVIOUS
<1> HIDE DEF new
<1>4. /\ rs \in RulesOver(AnyPath) /\ new \in RulesOver(AnyPath)
      /\ DOMAIN rs \subseteq AnyPath /\ DOMAIN new \subseteq AnyPath /\ S \subseteq AnyPath
      /\ p \in AnyPath
  BY <1>1, RulesAre, RulesOverPaths, PathsAreAny
<1>5. PICK n \in DOMAIN new : IsNearest(new, x, n)
  BY <1>3, <1>4, NearestOrNone, LoadedIfUnruled
<1>6. /\ rs[n] # "AllRule" /\ ~(rs[n] = "OnlyRule" /\ n = x)
      /\ ~\E q \in DirectRuled(new, x) : new[q] # "NoneRule"
  BY <1>2, <1>3, <1>4, <1>5, LoadedIfNearest
<1>7. PICK d \in DirectRuled(rs, x) : rs[d] # "NoneRule"
  BY <1>2, <1>4, <1>5, <1>6, LoadedIfNearest
<1>8. /\ d \in DOMAIN rs /\ d \in AnyPath /\ IsPrefix(x, d) /\ d # x
      /\ \A r \in DOMAIN rs : IsPrefix(x, r) /\ r # x /\ IsPrefix(r, d) => r = d
  BY <1>4, DirectMeans
<1>9. ~Untouched(S, d)
  <2> SUFFICES ASSUME Untouched(S, d) PROVE FALSE
    OBVIOUS
  <2>1. d \in DOMAIN new /\ new[d] = rs[d]
    BY <1>1, <1>8, PrefixOrder DEF Untouched
  <2>2. ASSUME NEW r \in DOMAIN new, IsPrefix(x, r), r # x, IsPrefix(r, d) PROVE r = d
    BY <1>1, <1>8, <2>2 DEF Untouched
  <2>3. d \in DirectRuled(new, x)
    BY <1>8, <2>1, <2>2, DirectMeans
  <2> QED
    BY <1>6, <1>7, <2>1, <2>3
<1>10. p \in S /\ IsPrefix(p, d)
  BY <1>9 DEF Untouched
<1>11. IsPrefix(x, p) /\ x # p
  BY <1>4, <1>8, <1>10, PrefixOrder DEF Untouched
<1>12. p \notin L
  <2> SUFFICES ASSUME p \in L PROVE FALSE
    OBVIOUS
  <2>1. p \in DOMAIN new /\ new[p] # "NoneRule"
    BY <1>1 DEF LoadRule
  <2>2. ASSUME NEW r \in DOMAIN new, IsPrefix(x, r), r # x, IsPrefix(r, p) PROVE r = p
    <3>1. CASE r \in S
      BY <3>1
    <3>2. CASE r \in DOMAIN rs
      BY <1>4, <1>8, <1>10, <2>2, <3>2, PrefixOrder
    <3> QED
      BY <1>1, <3>1, <3>2
  <2>3. p \in DirectRuled(new, x)
    BY <1>11, <2>1, <2>2, DirectMeans
  <2> QED
    BY <1>6, <2>1, <2>3
<1> QED
  BY <1>10, <1>11, <1>12

LEMMA LoadKeepsItsSide ==
    ASSUME NEW rs \in RulesOver(Paths), NEW p \in Paths, NEW L \in SUBSET {p},
           NEW x \in AnyPath
    PROVE  LET new == LoadAndUnload(rs, L, {}, TRUE)
           IN  /\ IsLoaded(rs, x) => IsLoaded(new, x)
               /\ IsLoaded(new, x) => IsLoaded(rs, x) \/ Related(p, x)
<1> DEFINE new == LoadAndUnload(rs, L, {}, TRUE)
<1>0. L \in SUBSET Paths /\ {} \in SUBSET Paths /\ {} \in SUBSET {p} /\ TRUE \in BOOLEAN
  OBVIOUS
<1>1. CASE Untouched(L \cup {}, x)
  <2>1. ASSUME IsLoaded(rs, x), ~IsLoaded(new, x) PROVE FALSE
    <3>1. p \in {}
      BY <1>0, <1>1, <2>1, StillLoaded
    <3> QED
      BY <3>1
  <2>2. ASSUME IsLoaded(new, x), ~IsLoaded(rs, x) PROVE Related(p, x)
    <3>1. PICK q \in L : q \in DirectRuled(new, x)
      BY <1>0, <1>1, <2>2, LoadedAnew
    <3>2. q = p
      OBVIOUS
    <3>3. IsPrefix(x, q)
      BY <3>1, DirectMeans
    <3> QED
      BY <3>2, <3>3 DEF Related
  <2> QED
    BY <2>1, <2>2
<1>2. CASE ~Untouched(L \cup {}, x)
  <2>1. p \in L /\ IsPrefix(p, x) /\ p \in AnyPath
    BY <1>2, PathsAreAny DEF Untouched
  <2>2. /\ new \in RulesOver(Paths) /\ p \in DOMAIN new /\ new[p] = "AllRule"
        /\ \A q \in DOMAIN new : q = p \/ ~IsPrefix(p, q)
    <3>1. IsLoadedAndUnloaded(new, rs, L, {}, TRUE)
      BY <1>0, LoadAndUnloadMeans
    <3> HIDE DEF new
    <3> QED
      BY <2>1, <3>1 DEF IsLoadedAndUnloaded, LoadRule, Untouched
  <2> HIDE DEF new
  <2>3. new \in RulesOver(AnyPath) /\ DOMAIN new \subseteq AnyPath
    BY <2>2, RulesOverPaths, RulesAre
  <2>4. IsNearest(new, x, p)
    BY <2>1, <2>2, <2>3, PrefixOrder DEF IsNearest
  <2>5. IsLoaded(new, x)
    BY <2>2, <2>3, <2>4, LoadedIfNearest
  <2> QED
    BY <2>1, <2>5 DEF Related, new
<1> QED
  BY <1>1, <1>2

LEMMA UnloadKeepsItsSide ==
    ASSUME NEW rs \in RulesOver(Paths), NEW p \in Paths, NEW x \in AnyPath,
           NEW w \in BOOLEAN
    PROVE  LET new == LoadAndUnload(rs, {}, {p}, w)
           IN  /\ IsPrefix(p, x) => ~IsLoaded(new, x)
               /\ IsLoaded(new, x) => IsLoaded(rs, x)
               /\ IsLoaded(rs, x) => IsLoaded(new, x) \/ Related(p, x)
<1> DEFINE new == LoadAndUnload(rs, {}, {p}, w)
<1>0. /\ {p} \in SUBSET Paths /\ {} \in SUBSET Paths
      /\ {} \in SUBSET {p} /\ {p} \in SUBSET {p} /\ p \in AnyPath
  BY PathsAreAny
<1>1. CASE Untouched({} \cup {p}, x)
  <2>1. ~IsPrefix(p, x)
    BY <1>1 DEF Untouched
  <2>2. ASSUME IsLoaded(rs, x), ~IsLoaded(new, x) PROVE Related(p, x)
    BY <1>0, <1>1, <2>2, StillLoaded DEF Related
  <2>3. ASSUME IsLoaded(new, x), ~IsLoaded(rs, x) PROVE FALSE
    BY <1>0, <1>1, <2>3, LoadedAnew
  <2> QED
    BY <2>1, <2>2, <2>3
<1>2. CASE ~Untouched({} \cup {p}, x)
  <2>1. IsPrefix(p, x)
    BY <1>2 DEF Untouched
  <2>2. /\ new \in RulesOver(Paths) /\ p \in DOMAIN new
        /\ \A q \in DOMAIN new : IsPrefix(p, q) => q = p /\ new[q] = "NoneRule"
    <3>1. IsLoadedAndUnloaded(new, rs, {}, {p}, w)
      BY <1>0, LoadAndUnloadMeans
    <3> HIDE DEF new
    <3> QED
      BY <3>1 DEF IsLoadedAndUnloaded, Untouched
  <2> HIDE DEF new
  <2>3. new \in RulesOver(AnyPath) /\ DOMAIN new \subseteq AnyPath
    BY <2>2, RulesOverPaths, RulesAre
  <2>4. IsNearest(new, x, p) /\ new[p] = "NoneRule"
    BY <1>0, <2>1, <2>2, <2>3, PrefixOrder DEF IsNearest
  <2>5. DirectRuled(new, x) = {}
    <3> SUFFICES ASSUME NEW d \in DirectRuled(new, x) PROVE FALSE
      OBVIOUS
    <3>1. d \in DOMAIN new /\ IsPrefix(x, d) /\ d # x /\ d \in AnyPath
      BY <2>3, DirectMeans
    <3> QED
      BY <1>0, <2>1, <2>2, <3>1, PrefixOrder
  <2>6. ~IsLoaded(new, x)
    BY <2>3, <2>4, <2>5, LoadedIfNearest
  <2> QED
    BY <2>1, <2>6 DEF Related, new
<1> QED
  BY <1>1, <1>2

(* What a load leaves at and below a path it loads.                        *)
LEMMA LoadLoads ==
    ASSUME NEW rs \in RulesOver(Paths), NEW p \in Paths, NEW x \in AnyPath,
           NEW w \in BOOLEAN, IsPrefix(p, x)
    PROVE  IsLoaded(LoadAndUnload(rs, {p}, {}, w), x) <=> w \/ x = p
<1> DEFINE new == LoadAndUnload(rs, {p}, {}, w)
<1>1. /\ new \in RulesOver(Paths) /\ p \in DOMAIN new /\ new[p] = LoadRule(w)
      /\ \A q \in DOMAIN new : q = p \/ ~IsPrefix(p, q)
  <2>1. {p} \in SUBSET Paths /\ {} \in SUBSET Paths
    OBVIOUS
  <2>2. IsLoadedAndUnloaded(new, rs, {p}, {}, w)
    BY <2>1, LoadAndUnloadMeans
  <2> HIDE DEF new
  <2> QED
    BY <2>2 DEF IsLoadedAndUnloaded, Untouched
<1> HIDE DEF new
<1>2. new \in RulesOver(AnyPath) /\ DOMAIN new \subseteq AnyPath /\ p \in AnyPath
  BY <1>1, RulesOverPaths, RulesAre, PathsAreAny
<1>3. IsNearest(new, x, p)
  BY <1>1, <1>2, PrefixOrder DEF IsNearest
<1>4. DirectRuled(new, x) = {}
  <2> SUFFICES ASSUME NEW d \in DirectRuled(new, x) PROVE FALSE
    OBVIOUS
  <2>1. d \in DOMAIN new /\ IsPrefix(x, d) /\ d # x /\ d \in AnyPath
    BY <1>2, DirectMeans
  <2> QED
    BY <1>1, <1>2, <2>1, PrefixOrder
<1>5. IsLoaded(new, x) <=> new[p] = "AllRule" \/ (new[p] = "OnlyRule" /\ p = x)
  BY <1>2, <1>3, <1>4, LoadedIfNearest
<1> QED
  BY <1>1, <1>5 DEF LoadRule, new

(* The topmost rule between a path that is not loaded and something loaded *)
(* below it is a NoneRule.                                                 *)
LEMMA NoneBetween ==
    ASSUME NEW rs \in RulesOver(AnyPath), NEW x \in AnyPath, NEW d \in AnyPath,
           IsPrefix(x, d), IsLoaded(rs, d), ~IsLoaded(rs, x)
    PROVE  \E r \in DOMAIN rs :
               IsStrictPrefix(x, r) /\ IsPrefix(r, d) /\ rs[r] = "NoneRule"
<1> DEFINE R == {r \in DOMAIN rs : IsStrictPrefix(x, r) /\ IsPrefix(r, d)}
           T == {Len(r) : r \in R}
<1>0. PICK s \in DOMAIN rs : IsStrictPrefix(x, s) /\ IsPrefix(s, d)
  BY RuleBetween
<1>1. DOMAIN rs \subseteq AnyPath /\ R \subseteq DOMAIN rs /\ R # {}
  <2>1. DOMAIN rs \subseteq AnyPath
    BY RulesAre
  <2>2. s \in R
    BY <1>0
  <2> QED
    BY <2>1, <2>2
<1>2. T \subseteq Nat /\ T # {}
  <2>1. \A q \in AnyPath : Len(q) \in Nat
    BY DEF AnyPath
  <2> HIDE DEF R
  <2> QED
    BY <1>1, <2>1
<1>3. PICK r \in R : \A q \in R : Len(r) <= Len(q)
  <2> HIDE DEF T, R
  <2>1. PICK i \in T : \A j \in T : i <= j
    BY <1>2, Least
  <2> QED
    BY <2>1 DEF T
<1>4. ASSUME NEW q \in DOMAIN rs, IsPrefix(x, q), q # x, IsPrefix(q, r) PROVE q = r
  <2>1. q \in R
    BY <1>1, <1>4, PrefixOrder DEF IsStrictPrefix
  <2>2. Len(r) <= Len(q)
    BY <1>3, <2>1
  <2> QED
    BY <1>1, <1>4, <2>2, PrefixOrder
<1>5. r \in DirectRuled(rs, x)
  BY <1>4, DirectMeans DEF IsStrictPrefix
<1>6. PICK n \in DOMAIN rs : IsNearest(rs, x, n)
  BY NearestOrNone, LoadedIfUnruled
<1> QED
  BY <1>5, <1>6, LoadedIfNearest

-----------------------------------------------------------------------------
(* The rules of an instance key                                            *)

From(p, q) == SubSeq(q, Len(p) + 1, Len(q))

LEMMA SuffixMeans ==
    ASSUME NEW p \in AnyPath, NEW q \in AnyPath, IsPrefix(p, q)
    PROVE  From(p, q) \in AnyPath /\ p \o From(p, q) = q
<1> DEFINE S == PrimNames \cup {Unused}
           m == Len(p)
           n == Len(q)
           s == From(p, q)
<1>1. /\ m \in Nat /\ n \in Nat /\ m <= n /\ p \in Seq(S) /\ q \in Seq(S)
      /\ \A i \in 1 .. m : p[i] = q[i]
      /\ \A i \in 1 .. n : q[i] \in S
  BY PrefixMeans, ElementOfSeq DEF AnyPath
<1> HIDE DEF S, m, n
<1>2. /\ s \in Seq(S)
      /\ Len(s) = IF m + 1 <= n THEN n - (m + 1) + 1 ELSE 0
      /\ \A i \in 1 .. n - (m + 1) + 1 : s[i] = q[m + 1 + i - 1]
  <2>1. \A i \in m + 1 .. n : q[i] \in S
    BY <1>1
  <2> QED
    BY <1>1, <2>1, SubSeqProperties DEF From, m, n
<1> HIDE DEF s
<1>3. Len(s) = n - m /\ \A i \in 1 .. n - m : s[i] = q[m + i]
  <2>1. \A i \in 1 .. n - m : i \in 1 .. n - (m + 1) + 1 /\ m + 1 + i - 1 = m + i
    BY <1>1
  <2> QED
    BY <1>1, <1>2, <2>1
<1>4. /\ p \o s \in Seq(S) /\ Len(p \o s) = m + Len(s)
      /\ \A i \in 1 .. m + Len(s) : (p \o s)[i] = IF i <= m THEN p[i] ELSE s[i - m]
  BY <1>1, <1>2, ConcatProperties DEF m
<1>5. Len(p \o s) = n
  BY <1>1, <1>3, <1>4
<1>6. ASSUME NEW i \in 1 .. n PROVE (p \o s)[i] = q[i]
  <2>1. CASE i <= m
    BY <1>1, <1>3, <1>4, <2>1
  <2>2. CASE ~(i <= m)
    <3>1. i - m \in 1 .. n - m /\ m + (i - m) = i
      BY <1>1, <2>2
    <3> QED
      BY <1>1, <1>3, <1>4, <2>2, <3>1
  <2> QED
    BY <2>1, <2>2
<1>7. p \o s = q
  BY <1>1, <1>4, <1>5, <1>6, SeqEqual DEF n
<1> QED
  BY <1>2, <1>7 DEF s, S, AnyPath

LEMMA ConcatMeans ==
    ASSUME NEW p \in AnyPath, NEW s \in AnyPath, NEW t \in AnyPath
    PROVE  /\ p \o s \in AnyPath /\ IsPrefix(p, p \o s)
           /\ p \o s = p \o t => s = t
           /\ p \o s = p <=> s = Root
           /\ IsPrefix(p \o s, p \o t) <=> IsPrefix(s, t)
           /\ p \o Root = p
<1> DEFINE S == PrimNames \cup {Unused}
<1>1. /\ p \in Seq(S) /\ s \in Seq(S) /\ t \in Seq(S)
      /\ Len(p) \in Nat /\ Len(s) \in Nat /\ Len(t) \in Nat
  BY DEF AnyPath
<1> HIDE DEF S
<1>2. /\ p \o s \in Seq(S) /\ Len(p \o s) = Len(p) + Len(s)
      /\ \A i \in 1 .. Len(p) + Len(s) :
           (p \o s)[i] = IF i <= Len(p) THEN p[i] ELSE s[i - Len(p)]
  BY <1>1, ConcatProperties
<1>3. /\ p \o t \in Seq(S) /\ Len(p \o t) = Len(p) + Len(t)
      /\ \A i \in 1 .. Len(p) + Len(t) :
           (p \o t)[i] = IF i <= Len(p) THEN p[i] ELSE t[i - Len(p)]
  BY <1>1, ConcatProperties
<1>4. p \o s \in AnyPath /\ p \o t \in AnyPath
  BY <1>2, <1>3 DEF S, AnyPath
<1>5. IsPrefix(p \o s, p \o t) <=>
          /\ Len(p \o s) <= Len(p \o t)
          /\ \A i \in 1 .. Len(p \o s) : (p \o s)[i] = (p \o t)[i]
  BY <1>4, PrefixMeans
<1>6. IsPrefix(s, t) <=> Len(s) <= Len(t) /\ \A i \in 1 .. Len(s) : s[i] = t[i]
  BY PrefixMeans
<1>7. IsPrefix(p, p \o s)
  <2>1. IsPrefix(p, p \o s) <=>
          Len(p) <= Len(p \o s) /\ \A i \in 1 .. Len(p) : p[i] = (p \o s)[i]
    BY <1>4, PrefixMeans
  <2> QED
    BY <1>1, <1>2, <2>1
<1>8. p \o s = p \o t => s = t
  BY <1>1, ConcatSimplifications
<1>9. (p \o s = p <=> s = Root) /\ p \o Root = p
  BY <1>1, ConcatEqualIffEmpty, ConcatEmptySeq DEF Root
<1>10. ASSUME IsPrefix(s, t) PROVE IsPrefix(p \o s, p \o t)
  <2>1. Len(s) <= Len(t) /\ \A i \in 1 .. Len(s) : s[i] = t[i]
    BY <1>10, <1>6
  <2>2. \A i \in 1 .. Len(p) + Len(s) : (p \o s)[i] = (p \o t)[i]
    BY <1>1, <1>2, <1>3, <2>1
  <2> QED
    BY <1>1, <1>2, <1>3, <1>5, <2>1, <2>2
<1>11. ASSUME IsPrefix(p \o s, p \o t) PROVE IsPrefix(s, t)
  <2>1. /\ Len(s) <= Len(t)
        /\ \A i \in 1 .. Len(p) + Len(s) : (p \o s)[i] = (p \o t)[i]
    BY <1>1, <1>2, <1>3, <1>11, <1>5
  <2>2. ASSUME NEW i \in 1 .. Len(s) PROVE s[i] = t[i]
    <3>1. /\ Len(p) + i \in 1 .. Len(p) + Len(s) /\ Len(p) + i \in 1 .. Len(p) + Len(t)
          /\ ~(Len(p) + i <= Len(p)) /\ Len(p) + i - Len(p) = i
      BY <1>1, <2>1
    <3> QED
      BY <1>2, <1>3, <2>1, <3>1
  <2> QED
    BY <1>6, <2>1, <2>2
<1> QED
  BY <1>2, <1>7, <1>8, <1>9, <1>10, <1>11 DEF S, AnyPath

LEMMA EffectiveIsRule ==
    ASSUME NEW rs \in RulesOver(AnyPath), NEW path \in AnyPath
    PROVE  GetEffectiveRuleForPath(rs, path) \in RuleKinds
<1>1. CASE \A r \in DOMAIN rs : ~IsPrefix(r, path)
  BY <1>1, LoadedIfUnruled DEF RuleKinds
<1>2. CASE \E n \in DOMAIN rs : IsNearest(rs, path, n)
  BY <1>2, LoadedIfNearest
<1> QED
  BY <1>1, <1>2, NearestOrNone

LEMMA RelativeMeans ==
    ASSUME NEW rs \in RulesOver(AnyPath), NEW p \in AnyPath
    PROVE  LET rel == RelativeRules(rs, p)
           IN  /\ rel \in RulesOver(AnyPath)
               /\ DOMAIN rel = {Root} \cup {s \in AnyPath : p \o s \in DOMAIN rs}
               /\ rel[Root] = GetEffectiveRuleForPath(rs, p)
               /\ \A s \in DOMAIN rel : s # Root => rel[s] = rs[p \o s]
<1> DEFINE moved == {SubSeq(q, Len(p) + 1, Len(q)) : q \in RuledUnder(rs, p)}
           D == {s \in AnyPath : p \o s \in DOMAIN rs}
           rel == RelativeRules(rs, p)
           R == Root
<1>1. DOMAIN rs \subseteq AnyPath /\ \A q \in DOMAIN rs : rs[q] \in RuleKinds
  BY RulesAre
<1>2. moved \subseteq D
  <2> SUFFICES ASSUME NEW q \in RuledUnder(rs, p)
               PROVE  SubSeq(q, Len(p) + 1, Len(q)) \in D
    OBVIOUS
  <2>1. q \in DOMAIN rs /\ q \in AnyPath /\ IsPrefix(p, q)
    BY <1>1 DEF RuledUnder
  <2>2. From(p, q) \in AnyPath /\ p \o From(p, q) = q
    BY <2>1, SuffixMeans
  <2> QED
    BY <2>1, <2>2 DEF From
<1>3. D \subseteq moved
  <2> SUFFICES ASSUME NEW s \in AnyPath, p \o s \in DOMAIN rs PROVE s \in moved
    OBVIOUS
  <2>1. p \o s \in AnyPath /\ IsPrefix(p, p \o s)
    BY ConcatMeans
  <2>2. From(p, p \o s) \in AnyPath /\ p \o From(p, p \o s) = p \o s
    BY <2>1, SuffixMeans
  <2>3. From(p, p \o s) = s
    <3> DEFINE f == From(p, p \o s)
    <3>1. f \in AnyPath /\ p \o f = p \o s
      BY <2>2
    <3> HIDE DEF f
    <3>2. f = s
      BY <3>1, ConcatSimplifications DEF AnyPath
    <3> QED
      BY <3>2 DEF f
  <2>4. p \o s \in RuledUnder(rs, p)
    BY <2>1 DEF RuledUnder
  <2> QED
    BY <2>3, <2>4 DEF From
<1>4. rel = [s \in D \cup {R} |->
               IF s = R THEN GetEffectiveRuleForPath(rs, p) ELSE rs[p \o s]]
  BY <1>2, <1>3 DEF RelativeRules
<1>5. R \in AnyPath /\ GetEffectiveRuleForPath(rs, p) \in RuleKinds
  BY PathsAreAny, EffectiveIsRule
<1> HIDE DEF rel, R
<1>6. rel \in [D \cup {R} -> RuleKinds]
  BY <1>1, <1>4, <1>5
<1>7. rel \in RulesOver(AnyPath)
  BY <1>5, <1>6 DEF RulesOver
<1>8. /\ DOMAIN rel = D \cup {R}
      /\ rel[R] = GetEffectiveRuleForPath(rs, p)
      /\ \A s \in DOMAIN rel : s # R => rel[s] = rs[p \o s]
  BY <1>4
<1> QED
  BY <1>7, <1>8 DEF rel, R

(* What is at or below p is p and a path.                                  *)
LEMMA BelowMeans ==
    ASSUME NEW p \in AnyPath, NEW e \in AnyPath, IsPrefix(p, e)
    PROVE  \E f \in AnyPath : e = p \o f
  BY SuffixMeans

LEMMA RelativeDirect ==
    ASSUME NEW rs \in RulesOver(AnyPath), NEW p \in AnyPath, NEW s \in AnyPath
    PROVE  LET rel == RelativeRules(rs, p)
           IN  (\E d \in DirectRuled(rel, s) : rel[d] # "NoneRule") <=>
               (\E e \in DirectRuled(rs, p \o s) : rs[e] # "NoneRule")
<1> DEFINE rel == RelativeRules(rs, p)
<1>1. /\ rel \in RulesOver(AnyPath)
      /\ DOMAIN rel = {Root} \cup {f \in AnyPath : p \o f \in DOMAIN rs}
      /\ \A f \in DOMAIN rel : f # Root => rel[f] = rs[p \o f]
  BY RelativeMeans
<1> HIDE DEF rel
<1>2. /\ DOMAIN rs \subseteq AnyPath /\ DOMAIN rel \subseteq AnyPath
      /\ p \o s \in AnyPath /\ IsPrefix(p, p \o s)
  BY <1>1, RulesAre, ConcatMeans
<1>3. ASSUME NEW f \in AnyPath, IsPrefix(s, f), f # s PROVE f # Root
  <2> SUFFICES ASSUME f = Root PROVE FALSE
    OBVIOUS
  <2>1. IsPrefix(f, s)
    BY PrefixOrder
  <2> QED
    BY <1>3, <2>1, PrefixOrder
<1>4. ASSUME NEW d \in DirectRuled(rel, s), rel[d] # "NoneRule"
      PROVE  \E e \in DirectRuled(rs, p \o s) : rs[e] # "NoneRule"
  <2>1. /\ d \in DOMAIN rel /\ d \in AnyPath /\ IsPrefix(s, d) /\ d # s
        /\ \A r \in DOMAIN rel : IsPrefix(s, r) /\ r # s /\ IsPrefix(r, d) => r = d
    BY <1>2, DirectMeans
  <2>2. d # Root /\ p \o d \in DOMAIN rs /\ rel[d] = rs[p \o d]
    BY <1>1, <1>3, <2>1
  <2>3. IsPrefix(p \o s, p \o d) /\ p \o d # p \o s
    BY <2>1, ConcatMeans
  <2>4. ASSUME NEW r \in DOMAIN rs, IsPrefix(p \o s, r), r # p \o s, IsPrefix(r, p \o d)
        PROVE  r = p \o d
    <3>1. IsPrefix(p, r) /\ r \in AnyPath
      BY <1>2, <2>4, PrefixOrder
    <3>2. PICK f \in AnyPath : r = p \o f
      BY <3>1, BelowMeans
    <3>3. f \in DOMAIN rel
      BY <1>1, <3>2
    <3>4. IsPrefix(s, f) /\ IsPrefix(f, d) /\ f # s
      BY <2>1, <2>4, <3>2, ConcatMeans
    <3> QED
      BY <2>1, <3>2, <3>3, <3>4
  <2>5. p \o d \in DirectRuled(rs, p \o s)
    BY <2>2, <2>3, <2>4, DirectMeans
  <2> QED
    BY <1>4, <2>2, <2>5
<1>5. ASSUME NEW e \in DirectRuled(rs, p \o s), rs[e] # "NoneRule"
      PROVE  \E d \in DirectRuled(rel, s) : rel[d] # "NoneRule"
  <2>1. /\ e \in DOMAIN rs /\ e \in AnyPath /\ IsPrefix(p \o s, e) /\ e # p \o s
        /\ \A r \in DOMAIN rs :
             IsPrefix(p \o s, r) /\ r # p \o s /\ IsPrefix(r, e) => r = e
    BY <1>2, DirectMeans
  <2>2. IsPrefix(p, e)
    BY <1>2, <2>1, PrefixOrder
  <2>3. PICK d \in AnyPath : e = p \o d
    BY <2>1, <2>2, BelowMeans
  <2>4. d \in DOMAIN rel /\ IsPrefix(s, d) /\ d # s
    BY <1>1, <2>1, <2>3, ConcatMeans
  <2>5. rel[d] = rs[e]
    BY <1>1, <1>3, <2>3, <2>4
  <2>6. ASSUME NEW r \in DOMAIN rel, IsPrefix(s, r), r # s, IsPrefix(r, d) PROVE r = d
    <3>1. r \in AnyPath /\ p \o r \in DOMAIN rs
      BY <1>1, <1>2, <1>3, <2>6
    <3>2. IsPrefix(p \o s, p \o r) /\ IsPrefix(p \o r, e)
      BY <2>3, <2>6, <3>1, ConcatMeans
    <3>3. p \o r # p \o s
      BY <2>6, <3>1, ConcatSimplifications DEF AnyPath
    <3>4. p \o r = p \o d
      BY <2>1, <2>3, <3>1, <3>2, <3>3
    <3> QED
      BY <3>1, <3>4, ConcatSimplifications DEF AnyPath
  <2>7. d \in DirectRuled(rel, s)
    BY <2>4, <2>6, DirectMeans
  <2> QED
    BY <1>5, <2>5, <2>7
<1> QED
  BY <1>4, <1>5 DEF rel

(* The relative rules say of a path what the rules say of it below p.      *)
LEMMA RelativeIsFaithful ==
    ASSUME NEW rs \in RulesOver(AnyPath), NEW p \in AnyPath, NEW s \in AnyPath
    PROVE  IsLoaded(RelativeRules(rs, p), s) <=> IsLoaded(rs, p \o s)
<1> DEFINE rel == RelativeRules(rs, p)
           ps == p \o s
           effective == GetEffectiveRuleForPath(rs, p)
<1>1. /\ rel \in RulesOver(AnyPath)
      /\ DOMAIN rel = {Root} \cup {f \in AnyPath : p \o f \in DOMAIN rs}
      /\ rel[Root] = effective
      /\ \A f \in DOMAIN rel : f # Root => rel[f] = rs[p \o f]
  BY RelativeMeans
<1>2. (\E d \in DirectRuled(rel, s) : rel[d] # "NoneRule") <=>
      (\E e \in DirectRuled(rs, ps) : rs[e] # "NoneRule")
  BY RelativeDirect
<1> HIDE DEF rel
<1>3. /\ DOMAIN rs \subseteq AnyPath /\ DOMAIN rel \subseteq AnyPath /\ Root \in AnyPath
      /\ ps \in AnyPath /\ IsPrefix(p, ps) /\ (ps = p <=> s = Root) /\ p \o Root = p
      /\ effective \in RuleKinds /\ (IsLoaded(rs, p) <=> effective # "NoneRule")
  BY <1>1, RulesAre, ConcatMeans, PathsAreAny, EffectiveIsRule DEF IsLoaded
<1>4. CASE s = Root
  <2>1. IsNearest(rel, s, s)
    BY <1>1, <1>4, RuledIsNearest
  <2>2. ASSUME ~IsLoaded(rs, p)
        PROVE  ~\E e \in DirectRuled(rs, p) : rs[e] # "NoneRule"
    <3>1. PICK n \in DOMAIN rs : IsNearest(rs, p, n)
      BY <2>2, NearestOrNone, LoadedIfUnruled
    <3> QED
      BY <2>2, <3>1, LoadedIfNearest
  <2>3. IsLoaded(rel, s) <=>
            \/ effective = "AllRule" \/ effective = "OnlyRule"
            \/ \E d \in DirectRuled(rel, s) : rel[d] # "NoneRule"
    BY <1>1, <1>4, <2>1, LoadedIfNearest
  <2>4. ps = p
    BY <1>3, <1>4
  <2> HIDE DEF effective, ps
  <2>5. IsLoaded(rs, p) => IsLoaded(rel, s)
    BY <1>3, <2>3 DEF RuleKinds
  <2>6. ~IsLoaded(rs, p) => ~IsLoaded(rel, s)
    BY <1>2, <1>3, <2>2, <2>3, <2>4
  <2>7. IsLoaded(rel, s) <=> IsLoaded(rs, ps)
    BY <2>4, <2>5, <2>6
  <2> QED
    BY <2>7 DEF rel, ps
<1>5. CASE s # Root
  <2>1. IsPrefix(Root, s)
    BY <1>3, PrefixOrder
  <2>2. PICK n \in DOMAIN rel : IsNearest(rel, s, n)
    BY <1>1, <2>1, NearestOrNone
  <2>3. n \in AnyPath /\ IsPrefix(n, s)
    BY <1>3, <2>2 DEF IsNearest
  <2>4. ASSUME NEW r \in DOMAIN rs, IsPrefix(r, ps), ~IsPrefix(r, p)
        PROVE  \E f \in DOMAIN rel : f # Root /\ r = p \o f /\ IsPrefix(f, n)
    <3>1. r \in AnyPath /\ IsPrefix(p, r)
      BY <1>3, <2>4, PrefixOrder
    <3>2. PICK f \in AnyPath : r = p \o f
      BY <3>1, BelowMeans
    <3>3. f \in DOMAIN rel /\ IsPrefix(f, s)
      BY <1>1, <2>4, <3>2, ConcatMeans
    <3>4. IsPrefix(f, n)
      BY <2>2, <3>3 DEF IsNearest
    <3>5. f # Root
      BY <1>3, <2>4, <3>1, <3>2, PrefixOrder
    <3> QED
      BY <3>2, <3>3, <3>4, <3>5
  <2>5. CASE n # Root
    <3>1. p \o n \in DOMAIN rs /\ rel[n] = rs[p \o n] /\ p \o n \in AnyPath
      BY <1>1, <1>3, <2>2, <2>5
    <3>2. IsPrefix(p, p \o n) /\ IsPrefix(p \o n, ps)
      BY <2>3, ConcatMeans
    <3>3. n = s <=> p \o n = ps
      BY <2>3, ConcatSimplifications DEF AnyPath
    <3>4. ASSUME NEW r \in DOMAIN rs, IsPrefix(r, ps) PROVE IsPrefix(r, p \o n)
      <4>1. CASE IsPrefix(r, p)
        BY <1>3, <3>1, <3>2, <4>1, PrefixOrder
      <4>2. CASE ~IsPrefix(r, p)
        <5>1. PICK f \in DOMAIN rel : r = p \o f /\ IsPrefix(f, n)
          BY <2>4, <3>4, <4>2
        <5> QED
          BY <1>3, <2>3, <5>1, ConcatMeans
      <4> QED
        BY <4>1, <4>2
    <3>5. IsNearest(rs, ps, p \o n)
      BY <3>1, <3>2, <3>4 DEF IsNearest
    <3>6. IsLoaded(rs, ps) <=>
              \/ rs[p \o n] = "AllRule"
              \/ rs[p \o n] = "OnlyRule" /\ p \o n = ps
              \/ \E q \in DirectRuled(rs, ps) : rs[q] # "NoneRule"
      BY <1>3, <3>5, LoadedIfNearest
    <3>7. IsLoaded(rel, s) <=>
              \/ rel[n] = "AllRule"
              \/ rel[n] = "OnlyRule" /\ n = s
              \/ \E q \in DirectRuled(rel, s) : rel[q] # "NoneRule"
      BY <1>1, <2>2, LoadedIfNearest
    <3> QED
      BY <1>2, <3>1, <3>3, <3>6, <3>7 DEF rel
  <2>6. CASE n = Root
    <3>1. ASSUME NEW r \in DOMAIN rs, IsPrefix(r, ps) PROVE IsPrefix(r, p)
      <4> SUFFICES ASSUME ~IsPrefix(r, p) PROVE FALSE
        OBVIOUS
      <4>1. PICK f \in DOMAIN rel : f # Root /\ IsPrefix(f, n)
        BY <2>4, <3>1
      <4>2. IsPrefix(n, f) /\ f \in AnyPath
        BY <1>3, <2>6, PrefixOrder
      <4> QED
        BY <2>3, <2>6, <4>1, <4>2, PrefixOrder
    <3>2. IsLoaded(rel, s) <=>
              \/ effective = "AllRule"
              \/ \E q \in DirectRuled(rel, s) : rel[q] # "NoneRule"
      BY <1>1, <1>5, <2>2, <2>6, LoadedIfNearest
    <3>3. CASE \A r \in DOMAIN rs : ~IsPrefix(r, p)
      <4>1. effective = "AllRule" /\ IsLoaded(rs, ps)
        BY <3>1, <3>3, LoadedIfUnruled
      <4> QED
        BY <3>2, <4>1 DEF rel
    <3>4. CASE \E m \in DOMAIN rs : IsNearest(rs, p, m)
      <4>1. PICK m \in DOMAIN rs : IsNearest(rs, p, m)
        BY <3>4
      <4>2. m \in AnyPath /\ IsPrefix(m, p) /\ (effective = "AllRule" <=> rs[m] = "AllRule")
        BY <1>3, <4>1, LoadedIfNearest DEF IsNearest
      <4>3. IsPrefix(m, ps)
        BY <1>3, <4>2, PrefixOrder
      <4>4. IsNearest(rs, ps, m)
        BY <3>1, <4>1, <4>3 DEF IsNearest
      <4>5. m # ps
        BY <1>3, <1>5, <4>2, PrefixOrder
      <4>6. IsLoaded(rs, ps) <=>
                \/ rs[m] = "AllRule"
                \/ \E q \in DirectRuled(rs, ps) : rs[q] # "NoneRule"
        BY <1>3, <4>4, <4>5, LoadedIfNearest
      <4> QED
        BY <1>2, <3>2, <4>2, <4>6 DEF rel
    <3> QED
      BY <3>3, <3>4, NearestOrNone
  <2> QED
    BY <2>5, <2>6
<1> QED
  BY <1>4, <1>5

-----------------------------------------------------------------------------
(* Composition                                                             *)

LEMMA SourceMeans ==
    ASSUME NEW q \in Paths
    PROVE  /\ Source[q] \in PayloadPrims \cup {Root}
           /\ Source[q] # Root => Source[q] \in PayloadPrims /\ IsStrictPrefix(Source[q], q)
  BY SourceAssumption

LEMMA PayloadPrimsArePaths ==
    PayloadPrims \subseteq Paths /\ Root \notin PayloadPrims
  BY PathsAssumption

LEMMA OnStageAbove ==
    ASSUME NEW incl, NEW p \in Paths, NEW q \in Paths, IsPrefix(q, p), OnStage(p, incl)
    PROVE  OnStage(q, incl)
<1>1. ASSUME NEW r \in Paths, IsPrefix(r, q) PROVE IsPrefix(r, p)
  BY <1>1, PathsAreAny, PrefixOrder
<1> QED
  BY <1>1 DEF OnStage

(* Out of incl, recomposing tops under newRules makes out: what is not    *)
(* below a root is as it was, what is and is on the stage is as the rules  *)
(* say.                                                                    *)
IsRecomposed(out, tops, newRules, incl) ==
    /\ out \subseteq PayloadPrims
    /\ \A x \in PayloadPrims : Untouched(tops, x) => (x \in out <=> x \in incl)
    /\ \A x \in PayloadPrims : ~Untouched(tops, x) /\ OnStage(x, out) =>
         (x \in out <=> IsLoaded(newRules, x))

LEMMA RecomposedMeans ==
    ASSUME NEW tops, NEW newRules, NEW incl \in SUBSET PayloadPrims
    PROVE  IsRecomposed(Recomposed(tops, newRules, incl), tops, newRules, incl)
<1> DEFINE out == Recomposed(tops, newRules, incl)
           touched == {p \in Paths : \E r \in tops : IsPrefix(r, p)}
           asked == (incl \ touched) \cup
                    {p \in touched \cap PayloadPrims : IsLoaded(newRules, p)}
<1>1. out = {p \in PayloadPrims :
               p \in IF p \in touched /\ OnStage(p, asked) THEN asked ELSE incl}
  BY DEF Recomposed
<1>2. /\ \A x \in PayloadPrims : Untouched(tops, x) <=> x \notin touched
      /\ \A x \in PayloadPrims : x \notin touched => (x \in asked <=> x \in incl)
      /\ \A x \in PayloadPrims : x \in touched => (x \in asked <=> IsLoaded(newRules, x))
  BY PayloadPrimsArePaths DEF Untouched
<1> HIDE DEF asked, touched, out
<1>3. out \subseteq PayloadPrims
  BY <1>1
<1>4. ASSUME NEW x \in PayloadPrims, x \notin touched PROVE x \in out <=> x \in incl
  BY <1>1, <1>4
<1>5. \A x \in Paths : OnStage(x, out) => OnStage(x, asked)
  <2> DEFINE Bad == {x \in Paths : OnStage(x, out) /\ ~OnStage(x, asked)}
             T == {Len(x) : x \in Bad}
  <2> SUFFICES ASSUME Bad # {} PROVE FALSE
    OBVIOUS
  <2>1. \A x \in Paths : x \in AnyPath /\ Len(x) \in Nat
    BY PathsAreAny DEF AnyPath
  <2>2. T \subseteq Nat /\ T # {}
    BY <2>1
  <2> HIDE DEF T
  <2>3. PICK i \in T : \A j \in T : i <= j
    BY <2>2, Least
  <2>4. PICK x \in Bad : i = Len(x)
    BY DEF T
  <2>5. PICK q \in Paths : IsPrefix(q, x) /\ Source[q] \notin asked \cup {Root}
    BY <2>4 DEF OnStage
  <2> DEFINE s == Source[q]
  <2>6. s \in PayloadPrims /\ s \in Paths /\ IsPrefix(s, q) /\ s # q
    BY <2>5, SourceMeans, PayloadPrimsArePaths DEF IsStrictPrefix
  <2>7. s \in out
    BY <2>5, <2>6, PayloadPrimsArePaths DEF OnStage
  <2> HIDE DEF s
  <2>8. IsPrefix(s, x) /\ s # x
    BY <2>1, <2>5, <2>6, PrefixOrder
  <2>9. ~(Len(x) <= Len(s))
    BY <2>1, <2>6, <2>8, PrefixOrder
  <2>10. OnStage(s, out)
    BY <2>6, <2>8, OnStageAbove
  <2>11. s \notin Bad
    BY <2>3, <2>4, <2>9 DEF T
  <2>12. OnStage(s, asked)
    BY <2>6, <2>10, <2>11
  <2>13. s \in asked
    BY <1>1, <1>2, <2>6, <2>7, <2>12
  <2> QED
    BY <2>5, <2>13 DEF s
<1>6. ASSUME NEW x \in PayloadPrims, x \in touched, OnStage(x, out)
      PROVE  x \in out <=> IsLoaded(newRules, x)
  <2>1. OnStage(x, asked)
    BY <1>5, <1>6, PayloadPrimsArePaths
  <2> QED
    BY <1>1, <1>2, <1>6, <2>1
<1> QED
  BY <1>2, <1>3, <1>4, <1>6 DEF IsRecomposed, out

RuledAreComposed(rs, incl) ==
    \A p \in PayloadPrims : OnStage(p, incl) /\ IsLoaded(rs, p) => p \in incl

(* A payload below one that is not composed is composed only when there is *)
(* a rule between the two.                                                 *)
ComposedBelowRule(rs, incl) ==
    \A x, d \in PayloadPrims :
        /\ IsStrictPrefix(x, d) /\ OnStage(d, incl)
        /\ d \in incl /\ x \notin incl
        => \E r \in DOMAIN rs : IsStrictPrefix(x, r) /\ IsPrefix(r, d)

LEMMA RecompositionKeeps ==
    ASSUME NEW tops, NEW newRules \in RulesOver(Paths), NEW incl, NEW out,
           tops \subseteq Paths, IsRecomposed(out, tops, newRules, incl),
           \A x \in PayloadPrims :
               Untouched(tops, x) /\ OnStage(x, incl) /\ IsLoaded(newRules, x)
               => x \in incl,
           \A x, d \in PayloadPrims :
               /\ Untouched(tops, d) /\ IsStrictPrefix(x, d) /\ OnStage(d, incl)
               /\ d \in incl /\ x \notin incl
               => \E r \in DOMAIN newRules : IsStrictPrefix(x, r) /\ IsPrefix(r, d)
    PROVE  RuledAreComposed(newRules, out) /\ ComposedBelowRule(newRules, out)
<1>1. /\ PayloadPrims \subseteq AnyPath /\ Paths \subseteq AnyPath
      /\ PayloadPrims \subseteq Paths /\ newRules \in RulesOver(AnyPath)
  BY PayloadPrimsArePaths, PathsAreAny, RulesOverPaths
<1>2. ASSUME NEW x \in Paths, NEW y \in Paths, IsPrefix(y, x), Untouched(tops, x)
      PROVE  Untouched(tops, y)
  <2>1. ASSUME NEW r \in tops, IsPrefix(r, y) PROVE IsPrefix(r, x)
    BY <1>1, <1>2, <2>1, PrefixOrder
  <2> QED
    BY <1>2, <2>1 DEF Untouched
<1>3. ASSUME NEW x \in Paths, Untouched(tops, x), OnStage(x, out)
      PROVE  OnStage(x, incl)
  <2>1. ASSUME NEW q \in Paths, IsPrefix(q, x), Source[q] # Root PROVE Source[q] \in incl
    <3>1. Source[q] \in PayloadPrims /\ IsPrefix(Source[q], q) /\ Source[q] \in Paths
      BY <1>1, <2>1, SourceMeans DEF IsStrictPrefix
    <3>2. IsPrefix(Source[q], x)
      BY <1>1, <2>1, <3>1, PrefixOrder
    <3>3. Untouched(tops, Source[q])
      BY <1>2, <1>3, <3>1, <3>2
    <3>4. Source[q] \in out
      BY <1>3, <2>1 DEF OnStage
    <3> QED
      BY <3>1, <3>3, <3>4 DEF IsRecomposed
  <2> QED
    BY <2>1 DEF OnStage
<1>4. RuledAreComposed(newRules, out)
  <2> SUFFICES ASSUME NEW x \in PayloadPrims, OnStage(x, out), IsLoaded(newRules, x)
               PROVE  x \in out
    BY DEF RuledAreComposed
  <2>1. CASE Untouched(tops, x)
    BY <1>1, <1>3, <2>1 DEF IsRecomposed
  <2>2. CASE ~Untouched(tops, x)
    BY <2>2 DEF IsRecomposed
  <2> QED
    BY <2>1, <2>2
<1>5. ComposedBelowRule(newRules, out)
  <2> SUFFICES ASSUME NEW x \in PayloadPrims, NEW d \in PayloadPrims,
                      IsStrictPrefix(x, d), OnStage(d, out), d \in out, x \notin out
               PROVE  \E r \in DOMAIN newRules : IsStrictPrefix(x, r) /\ IsPrefix(r, d)
    BY DEF ComposedBelowRule
  <2>1. IsPrefix(x, d) /\ OnStage(x, out)
    BY <1>1, OnStageAbove DEF IsStrictPrefix
  <2>2. ~IsLoaded(newRules, x)
    BY <1>4, <2>1 DEF RuledAreComposed
  <2>3. CASE Untouched(tops, d)
    <3>1. Untouched(tops, x) /\ OnStage(d, incl)
      BY <1>1, <1>2, <1>3, <2>1, <2>3
    <3>2. d \in incl /\ x \notin incl
      BY <2>3, <3>1 DEF IsRecomposed
    <3> QED
      BY <2>3, <3>1, <3>2
  <2>4. CASE ~Untouched(tops, d)
    <3>1. IsLoaded(newRules, d)
      BY <2>4 DEF IsRecomposed
    <3> QED
      BY <1>1, <2>1, <2>2, <3>1, RuleBetween
  <2> QED
    BY <2>3, <2>4
<1> QED
  BY <1>4, <1>5

LEMMA FrontMeans ==
    ASSUME NEW q \in AnyPath, q # Root
    PROVE  /\ Front(q) \in AnyPath /\ IsPrefix(Front(q), q)
           /\ Len(q) \in Nat \ {0} /\ Len(Front(q)) = Len(q) - 1
BY SeqFrontMeans DEF AnyPath, Root

(* Below an ancestor of a path and above the path is a child of the        *)
(* ancestor.                                                               *)
LEMMA ChildTowards ==
    ASSUME NEW p \in Paths, NEW r \in Paths, IsStrictPrefix(r, p)
    PROVE  \E q \in Paths \ {Root} : IsPrefix(q, p) /\ Front(q) = r
<1> DEFINE C == {q \in Paths : IsPrefix(r, q) /\ q # r /\ IsPrefix(q, p)}
           T == {Len(q) : q \in C}
<1>1. \A x \in Paths : x \in AnyPath /\ Len(x) \in Nat
  BY PathsAreAny DEF AnyPath
<1>2. p \in C
  BY <1>1, PrefixOrder DEF IsStrictPrefix
<1>3. T \subseteq Nat /\ T # {}
  BY <1>1, <1>2
<1> HIDE DEF T
<1>4. PICK i \in T : \A j \in T : i <= j
  BY <1>3, Least
<1>5. PICK q \in C : i = Len(q)
  BY DEF T
<1>6. q # Root
  <2> SUFFICES ASSUME q = Root PROVE FALSE
    OBVIOUS
  <2>1. IsPrefix(q, r)
    BY <1>1, PrefixOrder
  <2> QED
    BY <1>1, <1>5, <2>1, PrefixOrder
<1> DEFINE f == Front(q)
<1>7. /\ f \in AnyPath /\ f \in Paths /\ IsPrefix(f, q)
      /\ Len(q) \in Nat \ {0} /\ Len(f) = Len(q) - 1
  BY <1>1, <1>6, FrontMeans, PathsAssumption
<1> HIDE DEF f
<1>8. IsPrefix(f, p)
  BY <1>1, <1>7, PrefixOrder
<1>9. ~(Len(q) <= Len(r))
  <2> SUFFICES ASSUME Len(q) <= Len(r) PROVE FALSE
    OBVIOUS
  <2>1. IsPrefix(q, r)
    BY <1>1, PrefixOrder
  <2> QED
    BY <1>1, <2>1, PrefixOrder
<1>10. IsPrefix(r, f)
  <2>1. Len(r) <= Len(f)
    BY <1>1, <1>7, <1>9
  <2> QED
    BY <1>1, <1>7, <2>1, PrefixOrder
<1>11. ~(Len(q) <= Len(f))
  BY <1>7
<1>12. f \notin C
  BY <1>4, <1>5, <1>11 DEF T
<1>13. f = r
  BY <1>7, <1>8, <1>10, <1>12
<1> QED
  BY <1>6, <1>13 DEF f

LEMMA LoadRootMeans ==
    ASSUME NEW p \in Paths, p # Root
    PROVE  LET q == LoadRoot(p)
           IN  /\ q \in Paths \ {Root} /\ IsPrefix(q, p)
               /\ OnStage(Front(q), included) /\ PrimIsLoaded(Front(q), included)
<1> DEFINE Good(r) == OnStage(r, included) /\ PrimIsLoaded(r, included)
           C == {r \in Paths : IsPrefix(r, p) /\ r # p /\ Good(r)}
           T == {Len(p) - Len(r) : r \in C}
<1>1. \A x \in Paths : x \in AnyPath /\ Len(x) \in Nat
  BY PathsAreAny DEF AnyPath
<1>2. Root \in Paths /\ IsPrefix(Root, p)
  BY <1>1, PathsAssumption, PrefixOrder
<1>3. \A q \in Paths : IsPrefix(q, Root) => q = Root
  BY <1>1, <1>2, PrefixOrder
<1>4. OnStage(Root, included)
  BY <1>3, SourceAssumption DEF OnStage
<1>5. PrimIsLoaded(Root, included)
  BY <1>3, PayloadPrimsArePaths DEF PrimIsLoaded, LoadablePrefixes
<1>6. Root \in C
  BY <1>2, <1>4, <1>5
<1>7. \A r \in C : Len(r) \in Nat /\ Len(r) <= Len(p)
  BY <1>1, PrefixOrder
<1> HIDE DEF C
<1>8. T \subseteq Nat /\ T # {}
  BY <1>1, <1>6, <1>7
<1> HIDE DEF T
<1>9. PICK i \in T : \A j \in T : i <= j
  BY <1>8, Least
<1>10. PICK r \in C : i = Len(p) - Len(r)
  BY DEF T
<1>11. \A s \in C : Len(s) <= Len(r)
  <2> SUFFICES ASSUME NEW s \in C PROVE Len(s) <= Len(r)
    OBVIOUS
  <2>1. i <= Len(p) - Len(s)
    BY <1>9 DEF T
  <2> QED
    BY <1>1, <1>7, <1>10, <2>1
<1>12. PICK q \in Paths \ {Root} : IsPrefix(q, p) /\ Front(q) = r
  BY <1>10, ChildTowards DEF C, IsStrictPrefix
<1>13. Good(Front(q))
  BY <1>10, <1>12 DEF C
<1>14. \A s \in Above(p) : Good(s) => Len(s) <= Len(Front(q))
  BY <1>11, <1>12 DEF C, Above, IsStrictPrefix
<1> QED
  BY <1>12, <1>13, <1>14 DEF LoadRoot

-----------------------------------------------------------------------------
(* The invariant                                                           *)

WorkingSetInv ==
    /\ WorkingSetTypeOK
    /\ RuledAreComposed(rules, included)
    /\ ComposedBelowRule(rules, included)

LEMMA RestrictRules ==
    ASSUME NEW rs \in RulesOver(Paths), NEW S, S \subseteq DOMAIN rs
    PROVE  Restrict(rs, S) \in RulesOver(Paths)
<1>1. S \subseteq Paths /\ \A q \in S : rs[q] \in RuleKinds
  BY RulesAre
<1>2. Restrict(rs, S) \in [S -> RuleKinds]
  BY <1>1 DEF Restrict
<1> QED
  BY <1>1, <1>2 DEF RulesOver

LEMMA MinimizeRules ==
    ASSUME NEW rs \in RulesOver(Paths)
    PROVE  Minimize(rs) \in RulesOver(Paths)
<1> DEFINE shown == IF Root \in DOMAIN rs /\ rs[Root] = "AllRule"
                    THEN Restrict(rs, DOMAIN rs \ {Root}) ELSE rs
           S == {q \in DOMAIN shown : shown[q] # ParentRule(shown, q)}
<1>1. shown \in RulesOver(Paths)
  <2>1. Restrict(rs, DOMAIN rs \ {Root}) \in RulesOver(Paths)
    BY RestrictRules
  <2> QED
    BY <2>1
<1>2. Minimize(rs) = IF Cardinality(DOMAIN shown) <= 1 THEN shown ELSE Restrict(shown, S)
  BY DEF Minimize
<1> HIDE DEF shown
<1>3. Restrict(shown, S) \in RulesOver(Paths)
  BY <1>1, RestrictRules
<1> QED
  BY <1>1, <1>2, <1>3

LEMMA AddRuleRules ==
    ASSUME NEW rs \in RulesOver(Paths), NEW p \in Paths, NEW rule \in RuleKinds
    PROVE  AddRule(rs, p, rule) \in RulesOver(Paths)
<1> DEFINE D == DOMAIN rs \cup {p}
<1>1. DOMAIN rs \subseteq Paths /\ \A q \in DOMAIN rs : rs[q] \in RuleKinds
  BY RulesAre
<1>2. AddRule(rs, p, rule) \in [D -> RuleKinds]
  BY <1>1 DEF AddRule
<1> QED
  BY <1>1, <1>2 DEF RulesOver

(* Recomposing everything needs nothing of what was there.                 *)
LEMMA SetRulesKeeps ==
    ASSUME NEW newRules \in RulesOver(Paths), NEW incl \in SUBSET PayloadPrims,
           rules' = newRules, included' = Recomposed({Root}, newRules, incl)
    PROVE  WorkingSetInv'
<1>1. IsRecomposed(included', {Root}, newRules, incl)
  BY RecomposedMeans
<1>2. Root \in Paths /\ \A x \in PayloadPrims : ~Untouched({Root}, x)
  BY PathsAssumption, PayloadPrimsArePaths, PathsAreAny, PrefixOrder DEF Untouched
<1>3. RuledAreComposed(newRules, included') /\ ComposedBelowRule(newRules, included')
  BY <1>1, <1>2, RecompositionKeeps
<1> QED
  BY <1>1, <1>3 DEF WorkingSetInv, WorkingSetTypeOK, IsRecomposed

LEMMA ResyncKeeps ==
    ASSUME WorkingSetInv, NEW p \in Paths, ResyncPrim(p)
    PROVE  WorkingSetInv'
<1>1. /\ rules \in RulesOver(Paths) /\ included \in SUBSET PayloadPrims
      /\ RuledAreComposed(rules, included) /\ ComposedBelowRule(rules, included)
      /\ rules' = rules /\ included' = Recomposed({p}, rules, included)
  BY DEF WorkingSetInv, WorkingSetTypeOK, ResyncPrim
<1>2. IsRecomposed(included', {p}, rules, included)
  BY <1>1, RecomposedMeans
<1>3. {p} \subseteq Paths
  OBVIOUS
<1>4. RuledAreComposed(rules, included') /\ ComposedBelowRule(rules, included')
  <2>1. \A x \in PayloadPrims :
            Untouched({p}, x) /\ OnStage(x, included) /\ IsLoaded(rules, x)
            => x \in included
    BY <1>1 DEF RuledAreComposed
  <2>2. \A x, d \in PayloadPrims :
            /\ Untouched({p}, d) /\ IsStrictPrefix(x, d) /\ OnStage(d, included)
            /\ d \in included /\ x \notin included
            => \E r \in DOMAIN rules : IsStrictPrefix(x, r) /\ IsPrefix(r, d)
    BY <1>1 DEF ComposedBelowRule
  <2> QED
    BY <1>1, <1>2, <1>3, <2>1, <2>2, RecompositionKeeps
<1> QED
  BY <1>1, <1>2, <1>4 DEF WorkingSetInv, WorkingSetTypeOK, IsRecomposed

(* A payload the new rules ask for and the old ones did not is above a     *)
(* loaded path, and at or above the prim whose children LoadRoot           *)
(* recomposes: had it not been composed, a rule would lie between it and   *)
(* the loaded path, and that rule would keep it unloaded.                  *)
LEMMA LoadFindsAbove ==
    ASSUME WorkingSetInv, NEW L \in SUBSET Paths, NEW U \in SUBSET Paths,
           NEW w \in BOOLEAN, NEW x \in PayloadPrims,
           Untouched(L \cup {LoadRoot(p) : p \in L} \cup U, x),
           OnStage(x, included), IsLoaded(LoadAndUnload(rules, L, U, w), x)
    PROVE  x \in included
<1> DEFINE new == LoadAndUnload(rules, L, U, w)
<1>1. /\ rules \in RulesOver(Paths) /\ included \in SUBSET PayloadPrims
      /\ RuledAreComposed(rules, included) /\ ComposedBelowRule(rules, included)
  BY DEF WorkingSetInv, WorkingSetTypeOK
<1>2. /\ \A q \in Paths : q \in AnyPath
      /\ PayloadPrims \subseteq Paths /\ x \in AnyPath
      /\ Untouched(L \cup U, x) /\ \A p \in L : ~IsPrefix(LoadRoot(p), x)
  BY PathsAreAny, PayloadPrimsArePaths DEF Untouched
<1>3. IsLoadedAndUnloaded(new, rules, L, U, w)
  BY <1>1, LoadAndUnloadMeans
<1>4. CASE IsLoaded(rules, x)
  BY <1>1, <1>4 DEF RuledAreComposed
<1>5. CASE ~IsLoaded(rules, x) /\ x \notin included
  <2>1. PICK p \in L : p \in DirectRuled(new, x)
    BY <1>1, <1>2, <1>5, LoadedAnew
  <2> HIDE DEF new
  <2>2. /\ p \in Paths /\ IsPrefix(x, p) /\ p # x
        /\ \A r \in DOMAIN new : IsPrefix(x, r) /\ r # x /\ IsPrefix(r, p) => r = p
    BY <2>1, DirectMeans
  <2>3. p # Root
    <3> SUFFICES ASSUME p = Root PROVE FALSE
      OBVIOUS
    <3>1. IsPrefix(p, x)
      BY <1>2, PrefixOrder
    <3> QED
      BY <1>2, <2>2, <3>1, PrefixOrder
  <2> DEFINE q == LoadRoot(p)
             f == Front(q)
  <2>4. /\ q \in Paths \ {Root} /\ IsPrefix(q, p) /\ ~IsPrefix(q, x)
        /\ OnStage(f, included) /\ PrimIsLoaded(f, included)
    BY <1>2, <2>2, <2>3, LoadRootMeans
  <2> HIDE DEF q
  <2>5. /\ f \in AnyPath /\ f \in Paths /\ IsPrefix(f, q)
        /\ Len(q) \in Nat \ {0} /\ Len(f) = Len(q) - 1
    BY <1>2, <2>4, FrontMeans, PathsAssumption
  <2> HIDE DEF f
  <2>6. IsPrefix(x, q) /\ x # q /\ q \in AnyPath
    BY <1>2, <2>2, <2>4, PrefixOrder
  <2>7. IsPrefix(x, f)
    <3>1. ~(Len(q) <= Len(x))
      BY <1>2, <2>4, <2>6, PrefixOrder
    <3>2. Len(x) \in Nat
      BY <1>2 DEF AnyPath
    <3>3. Len(x) <= Len(f)
      BY <2>5, <3>1, <3>2
    <3> QED
      BY <1>2, <2>5, <2>6, <3>3, PrefixOrder
  <2>8. PICK d \in PayloadPrims : IsPrefix(d, f) /\ Len(x) <= Len(d) /\ d \in included
    BY <2>4, <2>7 DEF PrimIsLoaded, LoadablePrefixes
  <2>9. d \in Paths /\ d \in AnyPath /\ IsPrefix(x, d) /\ x # d
    BY <1>2, <1>5, <2>5, <2>7, <2>8, PrefixOrder
  <2>10. OnStage(d, included)
    BY <2>4, <2>5, <2>8, <2>9, OnStageAbove
  <2>11. PICK r \in DOMAIN rules : IsStrictPrefix(x, r) /\ IsPrefix(r, d)
    BY <1>1, <1>5, <2>8, <2>9, <2>10 DEF ComposedBelowRule, IsStrictPrefix
  <2>12. /\ r \in AnyPath /\ IsPrefix(x, r) /\ r # x /\ IsPrefix(r, f)
         /\ IsPrefix(r, q) /\ IsPrefix(r, p) /\ IsPrefix(f, p)
    <3>1. r \in AnyPath /\ IsPrefix(x, r) /\ r # x
      BY <1>1, <1>2, <2>11, RulesAre DEF IsStrictPrefix
    <3>2. IsPrefix(r, f)
      BY <2>5, <2>8, <2>9, <2>11, <3>1, PrefixOrder
    <3>3. IsPrefix(r, q)
      BY <2>5, <2>6, <3>1, <3>2, PrefixOrder
    <3>4. IsPrefix(r, p) /\ IsPrefix(f, p)
      BY <1>2, <2>2, <2>4, <2>5, <2>6, <3>1, <3>3, PrefixOrder
    <3> QED
      BY <3>1, <3>2, <3>3, <3>4
  <2>13. f # p
    <3> SUFFICES ASSUME f = p PROVE FALSE
      OBVIOUS
    <3>1. Len(q) <= Len(f)
      BY <1>2, <2>4, <2>6, PrefixOrder
    <3> QED
      BY <2>5, <3>1
  <2>14. r # p /\ \A s \in AnyPath : IsPrefix(s, r) => s # p
    <3>1. \A s \in AnyPath : IsPrefix(s, f) => s # p
      <4> SUFFICES ASSUME IsPrefix(p, f) PROVE FALSE
        BY <1>2, <2>2
      <4> QED
        BY <1>2, <2>2, <2>5, <2>12, <2>13, PrefixOrder
    <3> QED
      BY <2>5, <2>12, <3>1, PrefixOrder
  <2>15. CASE Untouched(L \cup U, r)
    <3>1. r \in DOMAIN new
      BY <1>3, <2>15 DEF IsLoadedAndUnloaded
    <3> QED
      BY <2>2, <2>12, <2>14, <3>1
  <2>16. CASE ~Untouched(L \cup U, r)
    <3>1. \E s \in DOMAIN new : s \in L \cup U /\ IsPrefix(s, r)
      <4>1. PICK t \in L \cup U : IsPrefix(t, r)
        BY <2>16 DEF Untouched
      <4>2. CASE t \in DOMAIN new
        BY <4>1, <4>2
      <4>3. CASE t \notin DOMAIN new
        <5>1. PICK s \in L : IsPrefix(s, t)
          BY <1>3, <4>1, <4>3 DEF IsLoadedAndUnloaded
        <5>2. s \in DOMAIN new
          BY <1>3, <5>1 DEF IsLoadedAndUnloaded
        <5>3. IsPrefix(s, r)
          BY <1>2, <2>12, <4>1, <5>1, PrefixOrder
        <5> QED
          BY <5>1, <5>2, <5>3
      <4> QED
        BY <4>2, <4>3
    <3>2. PICK s \in DOMAIN new : s \in L \cup U /\ IsPrefix(s, r)
      BY <3>1
    <3>3. s \in AnyPath /\ ~IsPrefix(s, x)
      BY <1>2, <3>2 DEF Untouched
    <3>4. IsPrefix(x, s) /\ s # x
      BY <1>2, <2>12, <3>2, <3>3, PrefixOrder
    <3>5. IsPrefix(s, p)
      BY <1>2, <2>2, <2>12, <3>2, <3>3, PrefixOrder
    <3> QED
      BY <2>2, <2>14, <3>2, <3>3, <3>4, <3>5
  <2> QED
    BY <2>15, <2>16
<1> QED
  BY <1>4, <1>5

LEMMA CallKeeps ==
    ASSUME WorkingSetInv, NEW loadSet \in SUBSET Paths, NEW unloadSet \in SUBSET Paths,
           NEW w \in BOOLEAN, LoadAndUnloadCall(loadSet, unloadSet, w)
    PROVE  WorkingSetInv'
<1> DEFINE L == {p \in loadSet : IsValidForLoad(p)}
           U == unloadSet
           new == LoadAndUnload(rules, L, U, w)
           tops == L \cup {LoadRoot(p) : p \in L} \cup U
           kept == {p \in included : \A r \in tops : ~ IsPrefix(r, p)}
<1>0. SUFFICES ASSUME ~IsNoOp(loadSet, unloadSet, w) PROVE WorkingSetInv'
  <2>1. CASE IsNoOp(loadSet, unloadSet, w)
    <3>1. rules' = rules /\ included' = included
      BY <2>1 DEF LoadAndUnloadCall, RulesAfter
    <3> QED
      BY <3>1 DEF WorkingSetInv, WorkingSetTypeOK, RuledAreComposed, ComposedBelowRule,
                  OnStage
  <2> QED
    BY <2>1
<1>1. /\ rules \in RulesOver(Paths) /\ included \in SUBSET PayloadPrims
      /\ RuledAreComposed(rules, included) /\ ComposedBelowRule(rules, included)
      /\ rules' = new /\ included' = Recomposed(tops, new, kept)
  BY <1>0 DEF WorkingSetInv, WorkingSetTypeOK, LoadAndUnloadCall, RulesAfter
<1>2. L \in SUBSET Paths /\ kept \in SUBSET PayloadPrims
  BY <1>1
<1>3. IsRecomposed(included', tops, new, kept)
  <2> HIDE DEF new, tops, kept
  <2> QED
    BY <1>1, <1>2, RecomposedMeans
<1>4. IsLoadedAndUnloaded(new, rules, L, U, w)
  <2> HIDE DEF L
  <2> QED
    BY <1>1, <1>2, LoadAndUnloadMeans
<1>5. tops \subseteq Paths
  <2> SUFFICES ASSUME NEW p \in L PROVE LoadRoot(p) \in Paths
    BY <1>2
  <2>1. CASE p = Root
    BY <2>1, PathsAssumption DEF LoadRoot
  <2>2. CASE p # Root
    BY <1>2, <2>2, LoadRootMeans
  <2> QED
    BY <2>1, <2>2
<1>6. \A x \in PayloadPrims : Untouched(tops, x) => (x \in kept <=> x \in included)
  BY DEF Untouched
<1>7. IsRecomposed(included', tops, new, included)
  <2> HIDE DEF new, tops, kept
  <2> QED
    BY <1>3, <1>6 DEF IsRecomposed
<1>8. ASSUME NEW x \in PayloadPrims, Untouched(tops, x), OnStage(x, included),
             IsLoaded(new, x)
      PROVE  x \in included
  <2> HIDE DEF L
  <2> QED
    BY <1>2, <1>8, LoadFindsAbove
<1>9. ASSUME NEW x \in PayloadPrims, NEW d \in PayloadPrims,
             Untouched(tops, d), IsStrictPrefix(x, d), OnStage(d, included),
             d \in included, x \notin included
      PROVE  \E r \in DOMAIN new : IsStrictPrefix(x, r) /\ IsPrefix(r, d)
  <2>1. PICK r \in DOMAIN rules : IsStrictPrefix(x, r) /\ IsPrefix(r, d)
    BY <1>1, <1>9 DEF ComposedBelowRule
  <2>2. /\ r \in AnyPath /\ d \in AnyPath /\ L \cup U \subseteq AnyPath
        /\ Untouched(L \cup U, d)
    BY <1>1, <1>2, <1>9, RulesAre, PathsAreAny, PayloadPrimsArePaths DEF Untouched
  <2>3. Untouched(L \cup U, r)
    <3> HIDE DEF L
    <3> QED
      BY <2>1, <2>2, PrefixOrder DEF Untouched
  <2>4. r \in DOMAIN new
    <3> HIDE DEF new, L
    <3> QED
      BY <1>4, <2>3 DEF IsLoadedAndUnloaded
  <2> QED
    BY <2>1, <2>4
<1>10. new \in RulesOver(Paths)
  BY <1>4 DEF IsLoadedAndUnloaded
<1>11. RuledAreComposed(new, included') /\ ComposedBelowRule(new, included')
  <2> HIDE DEF new, tops, kept, L
  <2> QED
    BY <1>5, <1>7, <1>8, <1>9, <1>10, RecompositionKeeps
<1> QED
  <2> HIDE DEF new, tops, kept, L
  <2> QED
    BY <1>1, <1>7, <1>10, <1>11 DEF WorkingSetInv, WorkingSetTypeOK, IsRecomposed

LEMMA WorkingSetStarts == WorkingSetInit => WorkingSetInv
<1> SUFFICES ASSUME WorkingSetInit PROVE WorkingSetInv
  OBVIOUS
<1>1. PICK initial \in {LoadAll, LoadNone} :
          rules = initial /\ included = Recomposed({Root}, initial, {})
  BY DEF WorkingSetInit
<1>2. initial \in RulesOver(Paths)
  <2>1. LoadAll \in [{} -> RuleKinds] /\ LoadNone \in [{Root} -> RuleKinds]
    BY DEF LoadAll, LoadNone, RuleKinds
  <2>2. {} \in SUBSET Paths /\ {Root} \in SUBSET Paths
    BY PathsAssumption
  <2> HIDE DEF LoadAll, LoadNone
  <2> QED
    BY <1>1, <2>1, <2>2 DEF RulesOver
<1>3. IsRecomposed(included, {Root}, initial, {})
  BY <1>1, RecomposedMeans
<1>4. Root \in Paths /\ \A x \in PayloadPrims : ~Untouched({Root}, x)
  BY PathsAssumption, PayloadPrimsArePaths, PathsAreAny, PrefixOrder DEF Untouched
<1>5. RuledAreComposed(initial, included) /\ ComposedBelowRule(initial, included)
  BY <1>2, <1>3, <1>4, RecompositionKeeps
<1> QED
  BY <1>1, <1>2, <1>3, <1>5 DEF WorkingSetInv, WorkingSetTypeOK, IsRecomposed

LEMMA WorkingSetSteps == WorkingSetInv /\ [WorkingSetNext]_workingSetVars => WorkingSetInv'
<1> SUFFICES ASSUME WorkingSetInv, [WorkingSetNext]_workingSetVars PROVE WorkingSetInv'
  OBVIOUS
<1>0. rules \in RulesOver(Paths) /\ included \in SUBSET PayloadPrims
  BY DEF WorkingSetInv, WorkingSetTypeOK
<1>1. CASE LoadSome
  <2>1. PICK p \in Paths, w \in BOOLEAN : LoadAndUnloadCall({p}, {}, w)
    BY <1>1 DEF LoadSome, Load
  <2>2. {p} \in SUBSET Paths /\ {} \in SUBSET Paths
    OBVIOUS
  <2> QED
    BY <2>1, <2>2, CallKeeps
<1>2. CASE UnloadSome
  <2>1. PICK p \in Paths : LoadAndUnloadCall({}, {p}, TRUE)
    BY <1>2 DEF UnloadSome, UnloadCall
  <2>2. {p} \in SUBSET Paths /\ {} \in SUBSET Paths /\ TRUE \in BOOLEAN
    OBVIOUS
  <2> QED
    BY <2>1, <2>2, CallKeeps
<1>3. CASE LoadAndUnloadSome
  <2>1. PICK loadSet \in PathSets, unloadSet \in PathSets, w \in BOOLEAN :
            LoadAndUnloadCall(loadSet, unloadSet, w)
    BY <1>3 DEF LoadAndUnloadSome
  <2>2. loadSet \in SUBSET Paths /\ unloadSet \in SUBSET Paths
    BY DEF PathSets
  <2> QED
    BY <2>1, <2>2, CallKeeps
<1>4. CASE ResyncSome
  BY <1>4, ResyncKeeps DEF ResyncSome
<1>5. CASE SetSome
  <2>1. CASE \E p \in Paths, rule \in RuleKinds : SetLoadRules(AddRule(rules, p, rule))
    <3>1. PICK p \in Paths, rule \in RuleKinds : SetLoadRules(AddRule(rules, p, rule))
      BY <2>1
    <3>2. AddRule(rules, p, rule) \in RulesOver(Paths)
      BY <1>0, AddRuleRules
    <3> QED
      BY <1>0, <3>1, <3>2, SetRulesKeeps DEF SetLoadRules
  <2>2. CASE SetLoadRules(Minimize(rules))
    BY <1>0, <2>2, MinimizeRules, SetRulesKeeps DEF SetLoadRules
  <2> QED
    BY <1>5, <2>1, <2>2 DEF SetSome
<1>6. CASE UNCHANGED workingSetVars
  BY <1>6 DEF WorkingSetInv, WorkingSetTypeOK, RuledAreComposed, ComposedBelowRule,
              OnStage, workingSetVars
<1> QED
  BY <1>1, <1>2, <1>3, <1>4, <1>5, <1>6 DEF WorkingSetNext

(* The invariant: the rules are about the scene; what they load is         *)
(* composed; a payload below an uncomposed one has a rule between.         *)
THEOREM WorkingSetInvariant == WorkingSetSpec => []WorkingSetInv
<1>1. WorkingSetInit => WorkingSetInv
  BY WorkingSetStarts
<1>2. WorkingSetInv /\ [WorkingSetNext]_workingSetVars => WorkingSetInv'
  BY WorkingSetSteps
<1> QED
  BY <1>1, <1>2, PTL DEF WorkingSetSpec

(* After any calls, every payload on the stage that the rules load is      *)
(* composed.                                                               *)
THEOREM WorkingSetFindsPayloads == WorkingSetSpec => []RuledPayloadsAreComposed
<1>1. WorkingSetInv => RuledPayloadsAreComposed
  BY DEF WorkingSetInv, RuledAreComposed, RuledPayloadsAreComposed
<1> QED
  BY <1>1, WorkingSetInvariant, PTL

(* The two queries decide exactly whether a path is loaded with all or     *)
(* with none of what is below it.                                          *)
THEOREM WorkingSetQueriesExact == WorkingSetSpec => []LoadQueriesExact
<1>1. WorkingSetInv => LoadQueriesExact
  BY AllDescendantsExact, NoDescendantsExact
  DEF WorkingSetInv, WorkingSetTypeOK, LoadQueriesExact
<1> QED
  BY <1>1, WorkingSetInvariant, PTL

(* The rules of an instance key decide as the stage's do.                  *)
THEOREM WorkingSetRelativeRules == WorkingSetSpec => []RelativeRulesFaithful
<1>1. WorkingSetInv => RelativeRulesFaithful
  <2> SUFFICES ASSUME WorkingSetInv, NEW p \in Paths, NEW q \in AllPaths, IsPrefix(p, q)
               PROVE  IsLoaded(RelativeRules(rules, p), SubSeq(q, Len(p) + 1, Len(q)))
                          <=> IsLoaded(rules, q)
    BY DEF RelativeRulesFaithful
  <2>1. rules \in RulesOver(AnyPath) /\ p \in AnyPath /\ q \in AnyPath
    BY RulesOverPaths, PathsAreAny, AllPathsAreAny DEF WorkingSetInv, WorkingSetTypeOK
  <2>2. From(p, q) \in AnyPath /\ p \o From(p, q) = q
    BY <2>1, SuffixMeans
  <2>3. IsLoaded(RelativeRules(rules, p), From(p, q)) <=> IsLoaded(rules, p \o From(p, q))
    BY <2>1, <2>2, RelativeIsFaithful
  <2> QED
    BY <2>2, <2>3 DEF From
<1> QED
  BY <1>1, WorkingSetInvariant, PTL

(* Calls leave what they ask for and keep to their side, those that return *)
(* early too: what they leave as it is was so already, but for what an     *)
(* unload meets below a descendant with a NoneRule of its own.             *)
THEOREM WorkingSetKeepsSides == WorkingSetSpec => []LoadsKeepTheirSide
<1>1. ASSUME WorkingSetInv, NEW p \in Paths, NEW q \in AllPaths
      PROVE  LET all == RulesAfter({p}, {}, TRUE) IN
             /\ IsLoaded(rules, q) => IsLoaded(all, q)
             /\ IsLoaded(all, q) => IsLoaded(rules, q) \/ Related(p, q)
             /\ IsValidForLoad(p) /\ IsPrefix(p, q) => IsLoaded(all, q)
  <2>1. rules \in RulesOver(Paths) /\ q \in AnyPath /\ TRUE \in BOOLEAN
    BY <1>1, AllPathsAreAny DEF WorkingSetInv, WorkingSetTypeOK
  <2>2. CASE IsNoOp({p}, {}, TRUE)
    <3>1. IsLoadedWithAllDescendants(rules, p) /\ RulesAfter({p}, {}, TRUE) = rules
      BY <2>2 DEF IsNoOp, RulesAfter
    <3> QED
      BY <2>1, <3>1, AllDescendantsExact
  <2>3. CASE ~IsNoOp({p}, {}, TRUE)
    <3> DEFINE L == {r \in {p} : IsValidForLoad(r)}
    <3>1. RulesAfter({p}, {}, TRUE) = LoadAndUnload(rules, L, {}, TRUE)
          /\ L \in SUBSET {p} /\ (IsValidForLoad(p) => L = {p})
      BY <2>3 DEF RulesAfter
    <3> HIDE DEF L
    <3> DEFINE new == LoadAndUnload(rules, L, {}, TRUE)
    <3>2. /\ IsLoaded(rules, q) => IsLoaded(new, q)
          /\ IsLoaded(new, q) => IsLoaded(rules, q) \/ Related(p, q)
      BY <2>1, <3>1, LoadKeepsItsSide
    <3>3. IsPrefix(p, q) => IsLoaded(LoadAndUnload(rules, {p}, {}, TRUE), q)
      BY <2>1, LoadLoads
    <3> QED
      BY <3>1, <3>2, <3>3
  <2> QED
    BY <2>2, <2>3
<1>2. ASSUME WorkingSetInv, NEW p \in Paths, NEW q \in AllPaths,
             IsValidForLoad(p), IsPrefix(p, q)
      PROVE  IsLoaded(RulesAfter({p}, {}, FALSE), q) <=> q = p
  <2>1. rules \in RulesOver(Paths) /\ q \in AnyPath /\ FALSE \in BOOLEAN
    BY <1>2, AllPathsAreAny DEF WorkingSetInv, WorkingSetTypeOK
  <2>2. CASE IsNoOp({p}, {}, FALSE)
    <3>1. IsLoadedWithNoDescendants(rules, p) /\ RulesAfter({p}, {}, FALSE) = rules
      BY <2>2 DEF IsNoOp, RulesAfter
    <3>2. IsLoaded(rules, q) <=> q = p
      BY <1>2, <2>1, <3>1, NoDescendantsExact
    <3> QED
      BY <3>1, <3>2
  <2>3. CASE ~IsNoOp({p}, {}, FALSE)
    <3>1. {r \in {p} : IsValidForLoad(r)} = {p}
      BY <1>2
    <3>2. RulesAfter({p}, {}, FALSE) = LoadAndUnload(rules, {p}, {}, FALSE)
      BY <2>3, <3>1 DEF RulesAfter
    <3>3. IsLoaded(LoadAndUnload(rules, {p}, {}, FALSE), q) <=> q = p
      BY <1>2, <2>1, LoadLoads
    <3> QED
      BY <3>2, <3>3
  <2> QED
    BY <2>2, <2>3
<1>3. ASSUME WorkingSetInv, NEW p \in Paths, NEW q \in AllPaths
      PROVE  LET none == RulesAfter({}, {p}, TRUE) IN
             /\ IsLoaded(none, q) => IsLoaded(rules, q) /\ q # p
             /\ IsLoaded(rules, q) => IsLoaded(none, q) \/ Related(p, q)
             /\ IsPrefix(p, q) /\ IsLoaded(none, q) =>
                  /\ IsNoOp({}, {p}, TRUE)
                  /\ \E r \in DOMAIN rules :
                        IsStrictPrefix(p, r) /\ IsPrefix(r, q) /\ rules[r] = "NoneRule"
  <2>1. /\ rules \in RulesOver(Paths) /\ q \in AnyPath /\ p \in AnyPath
        /\ rules \in RulesOver(AnyPath) /\ TRUE \in BOOLEAN
    BY <1>3, AllPathsAreAny, PathsAreAny, RulesOverPaths
    DEF WorkingSetInv, WorkingSetTypeOK
  <2>2. CASE IsNoOp({}, {p}, TRUE)
    <3>1. RulesAfter({}, {p}, TRUE) = rules
      BY <2>2 DEF RulesAfter
    <3>2. ~IsLoaded(rules, p)
      BY <2>2 DEF IsNoOp, IsLoaded
    <3> QED
      BY <2>1, <2>2, <3>1, <3>2, NoneBetween
  <2>3. CASE ~IsNoOp({}, {p}, TRUE)
    <3>1. {r \in {} : IsValidForLoad(r)} = {}
      OBVIOUS
    <3>2. RulesAfter({}, {p}, TRUE) = LoadAndUnload(rules, {}, {p}, TRUE)
      BY <2>3, <3>1 DEF RulesAfter
    <3>3. IsPrefix(p, p)
      BY <2>1, PrefixOrder
    <3> DEFINE new == LoadAndUnload(rules, {}, {p}, TRUE)
    <3>4. /\ IsPrefix(p, q) => ~IsLoaded(new, q)
          /\ IsLoaded(new, q) => IsLoaded(rules, q)
          /\ IsLoaded(rules, q) => IsLoaded(new, q) \/ Related(p, q)
      BY <2>1, UnloadKeepsItsSide
    <3> HIDE DEF new
    <3> QED
      BY <3>2, <3>3, <3>4 DEF new
  <2> QED
    BY <2>2, <2>3
<1>4. WorkingSetInv => LoadsKeepTheirSide
  BY <1>1, <1>2, <1>3 DEF LoadsKeepTheirSide
<1> QED
  BY <1>4, WorkingSetInvariant, PTL

-----------------------------------------------------------------------------
(* Instances: the inductive invariant of a round of recomposition          *)

(* What is registered, or will be when the changes are processed.          *)
IsRegistered(p, k) ==
    p \in Added(k) \/ (instanceOf[p] = k /\ p \notin pendingRemoved[k])

(* The source that a key has, or will have if it is new.                   *)
SourceOf(k) ==
    IF prototype[k] # 0 THEN source[k]
    ELSE IF pendingAdded[k] = <<>> THEN Nothing ELSE Head(pendingAdded[k])

InstanceTyped ==
    /\ kids \in [PrimKinds -> [Names -> PrimKinds \cup {Absent}]]
    /\ \A k \in PrimKinds : kids[k] \in Contents[k]
    /\ didChangeSignificantly \subseteq ScenePaths /\ didChangePrims \subseteq ScenePaths
    /\ index \in [ScenePaths -> PrimKinds \cup {Absent, Nothing}]
    /\ prototype \in [Instanceable -> Nat] /\ last \in Nat
    /\ source \in [Instanceable -> ScenePaths \cup {Nothing}]
    /\ instances \in [Instanceable -> SUBSET ScenePaths]
    /\ instanceOf \in [ScenePaths -> Instanceable \cup {Nothing}]
    /\ pendingAdded \in [Instanceable -> Seq(ScenePaths)]
    /\ pendingRemoved \in [Instanceable -> SUBSET ScenePaths]
    /\ roots \subseteq ScenePaths /\ todo \subseteq ScenePaths
    /\ phase \in {"idle", "compose", "stage"}

(* Registrations are pending while composition runs, changes of layers     *)
(* between rounds.                                                         *)
PhasesFit ==
    /\ phase # "compose" =>
           /\ todo = {}
           /\ \A k \in Instanceable : pendingAdded[k] = <<>> /\ pendingRemoved[k] = {}
    /\ phase # "idle" => didChangeSignificantly = {} /\ didChangePrims = {}

MapsFit == \A k \in Instanceable :
    /\ instances[k] = {p \in ScenePaths : instanceOf[p] = k}
    /\ pendingRemoved[k] \subseteq instances[k]
    /\ IF prototype[k] = 0 THEN instances[k] = {} /\ source[k] = Nothing
                           ELSE source[k] \in instances[k]

(* Where composition may still go.                                         *)
Open == AtOrBelow(todo)

(* Registered is what has the index of an instance; where composition may  *)
(* still go, only a source that it will look at next.                      *)
RegistrationFits ==
    /\ \A p \in ScenePaths, k \in Instanceable : IsRegistered(p, k) =>
           /\ index[p] = k
           /\ p \in Open => p \in todo /\ prototype[k] # 0 /\ source[k] = p
    /\ \A p \in ScenePaths \ Open : index[p] \in Instanceable => IsRegistered(p, index[p])

(* An index is below prims only, and below no instance but sources.        *)
WellPlaced(p) == \A q \in Ancestors[p] :
    index[q] \in PrimKinds /\ (index[q] \in Instanceable => SourceOf(index[q]) = q)

PlacesFit ==
    /\ \A p \in todo : WellPlaced(p)
    /\ \A p \in ScenePaths \ Open : index[p] # Nothing => WellPlaced(p)

TodoApart == \A p \in todo : Ancestors[p] \cap todo = {}

(* A change of layers is where an index brings or has a child.             *)
ChangesFit ==
    /\ \A p \in didChangeSignificantly : p = PseudoRoot \/ index[Parent(p)] \in PrimKinds
    /\ \A p \in didChangePrims : index[p] # Nothing

(* Indexes are of what is there, between rounds but for what has changed;  *)
(* and no instance is below another one of its key.                        *)
KindsFit ==
    /\ phase # "idle" => \A p \in ScenePaths : index[p] # Nothing => index[p] = KindAt(p)
    /\ phase = "idle" =>
        /\ index[PseudoRoot] \in {StageKind, Nothing}
        /\ \A p \in ScenePaths, n \in Names :
               LET c == Append(p, n)
               IN  c \in ScenePaths \ didChangeSignificantly /\ index[c] # Nothing =>
                       index[c] = ChildKind(index[p], n)
        /\ \A p \in ScenePaths : \A q \in Ancestors[p] :
               index[p] \in Instanceable => index[q] # index[p]

(* An index that was not blown will still be well placed when composition  *)
(* comes to it.                                                            *)
LeftoversFit == \A p \in Open : index[p] # Nothing =>
    \A q \in Ancestors[p] \cap Open :
        /\ KindAt(q) \in PrimKinds
        /\ KindAt(q) \in Instanceable => prototype[KindAt(q)] # 0 /\ source[KindAt(q)] = q

(* The children of what is composed are composed, or will be.              *)
ChildrenFit == \A p \in ScenePaths \ Open :
    index[p] \in PrimKinds /\ (index[p] \in Instanceable => SourceOf(index[p]) = p) =>
        \A c \in ChildrenOf(p, index[p]) \ didChangeSignificantly :
            c \in todo \/ index[c] # Nothing

IndexInv ==
    /\ InstanceTyped /\ PhasesFit /\ MapsFit /\ RegistrationFits /\ PlacesFit
    /\ TodoApart /\ ChangesFit /\ KindsFit /\ LeftoversFit /\ ChildrenFit

-----------------------------------------------------------------------------
(* Paths: the ancestors of a path are in a row, its parent the last        *)

LEMMA PathsAreSeqs ==
    ASSUME NEW p \in ScenePaths
    PROVE  p \in Seq(Names) /\ Len(p) \in Nat
BY ContentAssumption

LEMMA AncestorsMean ==
    ASSUME NEW p \in ScenePaths
    PROVE  \A q : q \in Ancestors[p] <=> q \in ScenePaths /\ IsPrefix(q, p) /\ q # p
BY DEF Ancestors, IsStrictPrefix

LEMMA AncestorsOrder ==
    ASSUME NEW p \in ScenePaths
    PROVE  /\ Ancestors[p] \subseteq ScenePaths /\ p \notin Ancestors[p]
           /\ \A q \in Ancestors[p] :
                  /\ Ancestors[q] \subseteq Ancestors[p]
                  /\ p \notin Ancestors[q]
                  /\ Len(q) < Len(p)
                  /\ \A r \in Ancestors[p] :
                         q = r \/ q \in Ancestors[r] \/ r \in Ancestors[q]
           /\ Ancestors[PseudoRoot] = {}
<1>1. Ancestors[p] \subseteq ScenePaths /\ p \notin Ancestors[p]
  BY AncestorsMean
<1>2. ASSUME NEW q \in Ancestors[p]
      PROVE  /\ Ancestors[q] \subseteq Ancestors[p] /\ p \notin Ancestors[q]
             /\ Len(q) < Len(p)
             /\ \A r \in Ancestors[p] : q = r \/ q \in Ancestors[r] \/ r \in Ancestors[q]
  <2>1. /\ q \in ScenePaths /\ IsPrefix(q, p) /\ q # p
        /\ q \in Seq(Names) /\ p \in Seq(Names) /\ Len(q) \in Nat /\ Len(p) \in Nat
    BY AncestorsMean, PathsAreSeqs
  <2>2. ASSUME NEW r \in Ancestors[q]  PROVE r \in Ancestors[p] /\ r # p
    <3>1. r \in ScenePaths /\ IsPrefix(r, q) /\ r # q /\ r \in Seq(Names)
      BY <2>1, AncestorsMean, PathsAreSeqs
    <3>2. IsPrefix(r, p) /\ r # p
      BY <2>1, <3>1, SeqPrefixOrder
    <3>. QED  BY <3>1, <3>2, AncestorsMean
  <2>3. Len(q) < Len(p)
    <3>1. Len(q) <= Len(p)
      BY <2>1, SeqPrefixOrder
    <3>2. Len(q) # Len(p)
      <4>1. IsPrefix(p, p) /\ (Len(p) <= Len(q) => IsPrefix(p, q))
        BY <2>1, SeqPrefixOrder
      <4>2. IsPrefix(p, q) => p = q
        BY <2>1, SeqPrefixOrder
      <4>. QED  BY <2>1, <4>1, <4>2
    <3>. QED  BY <2>1, <3>1, <3>2
  <2>4. ASSUME NEW r \in Ancestors[p]
        PROVE  q = r \/ q \in Ancestors[r] \/ r \in Ancestors[q]
    <3>1. r \in ScenePaths /\ IsPrefix(r, p) /\ r \in Seq(Names)
      BY AncestorsMean, PathsAreSeqs
    <3>2. IsPrefix(q, r) \/ IsPrefix(r, q)
      BY <2>1, <3>1, SeqPrefixOrder
    <3>. QED  BY <2>1, <3>1, <3>2, AncestorsMean
  <2>. QED  BY <2>2, <2>3, <2>4
<1>3. Ancestors[PseudoRoot] = {}
  <2>1. PseudoRoot \in ScenePaths /\ PseudoRoot = <<>>
    BY ContentAssumption DEF PseudoRoot
  <2>2. ASSUME NEW q \in Ancestors[PseudoRoot]  PROVE FALSE
    <3>1. q \in Seq(Names) /\ IsPrefix(q, PseudoRoot) /\ q # PseudoRoot
      BY <2>1, AncestorsMean, PathsAreSeqs
    <3>2. <<>> \in Seq(Names)
      OBVIOUS
    <3>3. IsPrefix(<<>>, q)
      BY <3>1, <3>2, SeqPrefixOrder
    <3>4. q = <<>>
      BY <2>1, <3>1, <3>2, <3>3, SeqPrefixOrder
    <3>. QED  BY <2>1, <3>1, <3>4
  <2>. QED  BY <2>2
<1>. QED  BY <1>1, <1>2, <1>3

LEMMA ParentMeans ==
    ASSUME NEW p \in ScenePaths, p # PseudoRoot
    PROVE  /\ Parent(p) \in ScenePaths /\ Parent(p) \in Ancestors[p]
           /\ Ancestors[p] = Ancestors[Parent(p)] \cup {Parent(p)}
           /\ Len(p) \in Nat \ {0} /\ p[Len(p)] \in Names
           /\ Len(Parent(p)) = Len(p) - 1
           /\ p = Append(Parent(p), p[Len(p)])
           /\ \A i \in 1 .. Len(Parent(p)) : Parent(p)[i] = p[i]
<1>. DEFINE q == Parent(p)
<1>1. /\ q \in ScenePaths /\ p \in Seq(Names) /\ q \in Seq(Names)
      /\ IsPrefix(q, p) /\ Len(p) \in Nat \ {0} /\ Len(q) = Len(p) - 1
  BY ContentAssumption, PathsAreSeqs, SeqFrontMeans DEF Parent, PseudoRoot
<1>2. q \in Ancestors[p]
  BY <1>1, AncestorsMean
<1>3. p[Len(p)] \in Names
  BY <1>1
<1>4. \A i \in 1 .. Len(q) : q[i] = p[i]
  BY <1>1, SeqPrefixMeans
<1>5. p = Append(q, p[Len(p)])
  <2>1. /\ Append(q, p[Len(p)]) \in Seq(Names) /\ Len(Append(q, p[Len(p)])) = Len(p)
        /\ \A i \in 1 .. Len(p) : Append(q, p[Len(p)])[i] = p[i]
    BY <1>1, <1>3, <1>4, AppendProperties
  <2>. QED  BY <1>1, <2>1, SeqEqual
<1>6. ASSUME NEW r \in Ancestors[p], r # q  PROVE r \in Ancestors[q]
  <2>1. r \in ScenePaths /\ Len(r) < Len(p) /\ Len(r) \in Nat
    BY AncestorsOrder, PathsAreSeqs
  <2>2. ~(Len(q) < Len(r))
    BY <1>1, <2>1
  <2>3. q \notin Ancestors[r]
    BY <2>1, <2>2, AncestorsOrder
  <2>. QED  BY <1>2, <1>6, <2>3, AncestorsOrder
<1>7. Ancestors[q] \subseteq Ancestors[p]
  BY <1>2, AncestorsOrder
<1>. QED  BY <1>1, <1>2, <1>3, <1>4, <1>5, <1>6, <1>7

LEMMA ChildMeans ==
    ASSUME NEW p \in ScenePaths, NEW n \in Names, Append(p, n) \in ScenePaths
    PROVE  /\ Append(p, n) # PseudoRoot /\ Parent(Append(p, n)) = p
           /\ Append(p, n)[Len(Append(p, n))] = n
<1>. DEFINE c == Append(p, n)
<1>1. /\ p \in Seq(Names) /\ Len(p) \in Nat /\ c \in Seq(Names) /\ Len(c) = Len(p) + 1
      /\ c[Len(p) + 1] = n /\ \A i \in 1 .. Len(p) : c[i] = p[i]
  BY PathsAreSeqs, AppendProperties
<1>. HIDE DEF c
<1>2. c # PseudoRoot
  BY <1>1, EmptySeq DEF PseudoRoot
<1>c. c \in ScenePaths
  BY DEF c
<1>3. /\ Parent(c) \in Seq(Names) /\ Len(Parent(c)) = Len(p)
      /\ \A i \in 1 .. Len(p) : Parent(c)[i] = c[i]
  <2>1. /\ Parent(c) \in ScenePaths /\ Len(Parent(c)) = Len(c) - 1
        /\ \A i \in 1 .. Len(Parent(c)) : Parent(c)[i] = c[i]
    BY <1>2, <1>c, ParentMeans
  <2>2. Len(Parent(c)) = Len(p)
    BY <1>1, <2>1
  <2>. QED  BY <2>1, <2>2, PathsAreSeqs
<1>4. Parent(c) = p
  BY <1>1, <1>3, SeqEqual
<1>5. c[Len(c)] = n
  BY <1>1
<1>. QED  BY <1>2, <1>4, <1>5 DEF c

(* Below an ancestor of p, towards p, is a child of it.                    *)
LEMMA StepTowards ==
    ASSUME NEW p \in ScenePaths, NEW q \in Ancestors[p]
    PROVE  \E c \in ScenePaths \ {PseudoRoot} :
               Parent(c) = q /\ (c = p \/ c \in Ancestors[p])
<1>. DEFINE C == {c \in Ancestors[p] \cup {p} : q \in Ancestors[c]}
            T == {Len(c) : c \in C}
<1>1. C \subseteq ScenePaths /\ p \in C /\ \A c \in ScenePaths : Len(c) \in Nat
  BY AncestorsOrder, PathsAreSeqs
<1>. HIDE DEF C
<1>2. T \subseteq Nat /\ T # {}
  BY <1>1
<1>3. PICK i \in T : \A j \in T : i <= j
  <2>. HIDE DEF T
  <2>. QED  BY <1>2, Least
<1>4. PICK c \in C : \A d \in C : Len(c) <= Len(d)
  BY <1>3
<1>5. c \in ScenePaths /\ c \in Ancestors[p] \cup {p} /\ q \in Ancestors[c] /\ c # PseudoRoot
  BY <1>1, AncestorsOrder DEF C
<1>6. /\ Parent(c) \in Ancestors[c] /\ Ancestors[c] = Ancestors[Parent(c)] \cup {Parent(c)}
      /\ Parent(c) \in ScenePaths
  BY <1>5, ParentMeans
<1>7. Parent(c) \in Ancestors[p] /\ Len(Parent(c)) < Len(c)
  BY <1>5, <1>6, AncestorsOrder
<1>8. Parent(c) \notin C
  BY <1>1, <1>4, <1>5, <1>6, <1>7
<1>9. Parent(c) = q
  BY <1>5, <1>6, <1>7, <1>8 DEF C
<1>. QED  BY <1>5, <1>9

(* Of some paths above p, or p itself, one is the lowest.                  *)
LEMMA LowestAbove ==
    ASSUME NEW p \in ScenePaths, NEW P, P \subseteq Ancestors[p] \cup {p}, P # {}
    PROVE  \E q \in P : \A r \in P : r = q \/ r \in Ancestors[q]
<1>. DEFINE T == {Len(p) - Len(q) : q \in P}
<1>1. \A q \in P : q \in ScenePaths /\ Len(q) \in Nat /\ Len(q) <= Len(p) /\ Len(p) \in Nat
  BY AncestorsOrder, PathsAreSeqs
<1>2. T \subseteq Nat /\ T # {}
  BY <1>1
<1>3. PICK i \in T : \A j \in T : i <= j
  <2>. HIDE DEF T
  <2>. QED  BY <1>2, Least
<1>4. PICK q \in P : \A r \in P : Len(p) - Len(q) <= Len(p) - Len(r)
  BY <1>3
<1>5. ASSUME NEW r \in P, r # q  PROVE r \in Ancestors[q]
  <2>1. Len(r) <= Len(q)
    BY <1>1, <1>4
  <2>2. q \notin Ancestors[r]
    <3>1. q \in Ancestors[r] => Len(q) < Len(r)
      BY <1>1, AncestorsOrder
    <3>. QED  BY <1>1, <2>1, <3>1
  <2>3. q \in Ancestors[p] \cup {p} /\ r \in Ancestors[p] \cup {p}
    OBVIOUS
  <2>. QED  BY <1>5, <2>2, <2>3, AncestorsOrder
<1>. QED  BY <1>5

(* Over each path of a set is a topmost one, perhaps itself.               *)
LEMMA TopmostAbove ==
    ASSUME NEW P \in SUBSET ScenePaths, NEW p \in P
    PROVE  \E q \in Topmost(P) : q = p \/ q \in Ancestors[p]
<1>. DEFINE C == {q \in P : q = p \/ q \in Ancestors[p]}
            T == {Len(q) : q \in C}
<1>1. C \subseteq ScenePaths /\ p \in C /\ \A c \in ScenePaths : Len(c) \in Nat
  BY PathsAreSeqs
<1>. HIDE DEF C
<1>2. T \subseteq Nat /\ T # {}
  BY <1>1
<1>3. PICK i \in T : \A j \in T : i <= j
  <2>. HIDE DEF T
  <2>. QED  BY <1>2, Least
<1>4. PICK q \in C : \A d \in C : Len(q) <= Len(d)
  BY <1>3
<1>5. q \in P /\ q \in ScenePaths /\ (q = p \/ q \in Ancestors[p])
  BY <1>1 DEF C
<1>6. ASSUME NEW r \in Ancestors[q], r \in P  PROVE FALSE
  <2>1. r \in ScenePaths /\ Len(r) < Len(q) /\ r \in Ancestors[p]
    BY <1>5, AncestorsOrder
  <2>2. r \in C
    BY <1>6, <2>1 DEF C
  <2>. QED  BY <1>1, <1>4, <1>5, <2>1, <2>2
<1>. QED  BY <1>5, <1>6 DEF Topmost

-----------------------------------------------------------------------------
(* What is below some paths                                                *)

LEMMA UnderMeans ==
    ASSUME NEW P, NEW x \in ScenePaths
    PROVE  x \in AtOrBelow(P) <=> \E q \in P : q = x \/ q \in Ancestors[x]
BY DEF AtOrBelow

LEMMA UnderCloses ==
    ASSUME NEW P, NEW x \in ScenePaths, NEW q \in Ancestors[x], q \in AtOrBelow(P)
    PROVE  x \in AtOrBelow(P)
<1>1. q \in ScenePaths /\ Ancestors[q] \subseteq Ancestors[x]
  BY AncestorsOrder
<1>. QED  BY <1>1, UnderMeans

(* The function that KindAt is defined by exists.                          *)
LEMMA KindsAlong ==
    ASSUME NEW p \in ScenePaths
    PROVE  \E f : /\ KindAt(p) = f[Len(p)] /\ f[0] = StageKind
                  /\ \A i \in 1 .. Len(p) : f[i] = ChildKind(f[i - 1], p[i])
<1>. DEFINE n == Len(p)
            Value(g, i) == IF i = 0 THEN StageKind ELSE ChildKind(g[i - 1], p[i])
            IsUpTo(g, m) == g = [i \in 0 .. m |-> Value(g, i)]
            f == CHOOSE g : IsUpTo(g, n)
<1>1. n \in Nat
  BY PathsAreSeqs
<1>2. \A m \in 0 .. n : \E g : IsUpTo(g, m)
  <2>. DEFINE T == {m \in 0 .. n : ~\E g : IsUpTo(g, m)}
  <2>. SUFFICES ASSUME T # {} PROVE FALSE
    OBVIOUS
  <2>1. \E m \in T : \A j \in T : m <= j
    <3>1. T \subseteq Nat
      BY <1>1
    <3>. HIDE DEF T
    <3>. QED  BY <3>1, Least
  <2>2. PICK m \in T : \A j \in T : m <= j
    BY <2>1
  <2>3. m \in 0 .. n /\ m \in Nat /\ \A g : ~IsUpTo(g, m)
    OBVIOUS
  <2>4. CASE m = 0
    <3>. DEFINE g == [i \in 0 .. 0 |-> StageKind]
    <3>1. IsUpTo(g, 0)
      OBVIOUS
    <3>. QED  BY <2>3, <2>4, <3>1
  <2>5. CASE m # 0
    <3>1. m - 1 \in 0 .. n /\ m - 1 \notin T
      <4>. HIDE DEF T
      <4>. QED  BY <2>2, <2>3, <2>5
    <3>2. PICK g : IsUpTo(g, m - 1)
      BY <3>1
    <3>. DEFINE h == [i \in 0 .. m |-> IF i = m THEN Value(g, m) ELSE g[i]]
    <3>3. ASSUME NEW i \in 0 .. m  PROVE h[i] = Value(h, i)
      <4>1. i # 0 => h[i - 1] = g[i - 1]
        BY <2>3
      <4>2. Value(h, i) = Value(g, i)
        BY <4>1
      <4>3. ASSUME i # m  PROVE g[i] = Value(g, i)
        <5>1. i \in 0 .. m - 1
          BY <2>3, <4>3
        <5>. QED  BY <3>2, <5>1
      <4>. QED  BY <4>2, <4>3
    <3>4. h = [i \in 0 .. m |-> h[i]]
      OBVIOUS
    <3>. HIDE DEF h
    <3>5. IsUpTo(h, m)
      BY <3>3, <3>4
    <3>. QED  BY <2>3, <3>5
  <2>. QED  BY <2>4, <2>5
<1>3. IsUpTo(f, n)
  <2>1. n \in 0 .. n
    BY <1>1
  <2>. HIDE DEF IsUpTo
  <2>2. \E g : IsUpTo(g, n)
    BY <1>2, <2>1
  <2>. QED  BY <2>2
<1>4. KindAt(p) = f[n]
  BY DEF KindAt
<1>5. f[0] = StageKind /\ \A i \in 1 .. n : f[i] = ChildKind(f[i - 1], p[i])
  <2>. HIDE DEF f
  <2>1. \A i \in 0 .. n : f[i] = Value(f, i)
    BY <1>3
  <2>2. 0 \in 0 .. n /\ \A i \in 1 .. n : i \in 0 .. n /\ i # 0
    BY <1>1
  <2>. QED  BY <2>1, <2>2
<1>. QED  BY <1>4, <1>5

LEMMA KindStep ==
    /\ KindAt(PseudoRoot) = StageKind
    /\ \A p \in ScenePaths \ {PseudoRoot} :
           KindAt(p) = ChildKind(KindAt(Parent(p)), p[Len(p)])
<1>1. KindAt(PseudoRoot) = StageKind
  <2>1. PICK f : KindAt(PseudoRoot) = f[Len(PseudoRoot)] /\ f[0] = StageKind
    BY ContentAssumption, KindsAlong
  <2>2. Len(PseudoRoot) = 0
    BY DEF PseudoRoot
  <2>. QED  BY <2>1, <2>2
<1>2. ASSUME NEW p \in ScenePaths \ {PseudoRoot}
      PROVE  KindAt(p) = ChildKind(KindAt(Parent(p)), p[Len(p)])
  <2>. DEFINE q == Parent(p)
              m == Len(q)
  <2>1. /\ q \in ScenePaths /\ Len(p) \in Nat \ {0} /\ m \in Nat /\ m = Len(p) - 1
        /\ \A i \in 1 .. m : q[i] = p[i]
    BY ParentMeans
  <2>2. PICK f : /\ KindAt(p) = f[Len(p)] /\ f[0] = StageKind
                 /\ \A i \in 1 .. Len(p) : f[i] = ChildKind(f[i - 1], p[i])
    BY KindsAlong
  <2>3. PICK g : /\ KindAt(q) = g[m] /\ g[0] = StageKind
                 /\ \A i \in 1 .. m : g[i] = ChildKind(g[i - 1], q[i])
    BY <2>1, KindsAlong
  <2>. HIDE DEF m, q
  <2>4. \A i \in 0 .. m : f[i] = g[i]
    <3>. DEFINE T == {i \in 0 .. m : f[i] # g[i]}
    <3>. SUFFICES ASSUME T # {} PROVE FALSE
      OBVIOUS
    <3>1. \E i \in T : \A j \in T : i <= j
      <4>1. T \subseteq Nat
        BY <2>1
      <4>. HIDE DEF T
      <4>. QED  BY <4>1, Least
    <3>2. PICK i \in T : \A j \in T : i <= j
      BY <3>1
    <3>3. i \in 0 .. m /\ i # 0 /\ f[i] # g[i]
      BY <2>2, <2>3
    <3>4. i \in 1 .. m /\ i \in 1 .. Len(p) /\ i - 1 \in 0 .. m /\ i - 1 < i
      BY <2>1, <3>3
    <3>5. f[i - 1] = g[i - 1]
      BY <3>2, <3>4
    <3>. QED  BY <2>1, <2>2, <2>3, <3>3, <3>4, <3>5
  <2>5. m \in 0 .. m /\ Len(p) \in 1 .. Len(p) /\ Len(p) - 1 = m
    BY <2>1
  <2>6. f[Len(p)] = ChildKind(f[m], p[Len(p)])
    BY <2>2, <2>5
  <2>. QED  BY <2>2, <2>3, <2>4, <2>5, <2>6 DEF q
<1>. QED  BY <1>1, <1>2

LEMMA KindsAre ==
    /\ Instanceable \subseteq PrimKinds /\ StageKind \in PrimKinds
    /\ StageKind \notin Instanceable
    /\ Absent \notin PrimKinds /\ Nothing \notin PrimKinds /\ Nothing # Absent
    /\ Nothing \notin ScenePaths /\ Nothing \notin Instanceable
    /\ PseudoRoot \in ScenePaths
BY ContentAssumption DEF PrimKinds

LEMMA KindsOfChildren ==
    ASSUME InstanceTyped, NEW k, NEW n \in Names
    PROVE  /\ ChildKind(k, n) \in PrimKinds \cup {Absent}
           /\ ChildKind(k, n) \in PrimKinds <=> Has(k, n)
           /\ Has(k, n) => k \in PrimKinds /\ ChildKind(k, n) = kids[k][n]
BY KindsAre DEF InstanceTyped, ChildKind, Has

LEMMA KindsAtPaths ==
    ASSUME InstanceTyped, NEW p \in ScenePaths
    PROVE  KindAt(p) \in PrimKinds \cup {Absent}
<1>1. CASE p = PseudoRoot
  BY <1>1, KindStep, KindsAre
<1>2. CASE p # PseudoRoot
  <2>1. p[Len(p)] \in Names
    BY <1>2, ParentMeans
  <2>. QED  BY <1>2, <2>1, KindStep, KindsOfChildren
<1>. QED  BY <1>1, <1>2

(* What is there has everything above it there, of other kinds.            *)
LEMMA KindsApart ==
    ASSUME InstanceTyped
    PROVE  \A p \in ScenePaths : KindAt(p) \in PrimKinds =>
               \A q \in Ancestors[p] : KindAt(q) \in PrimKinds /\ KindAt(q) # KindAt(p)
<1>1. PICK rank \in [PrimKinds -> 0 .. Cardinality(PrimKinds)] :
          \A k \in PrimKinds : \A content \in Contents[k] : \A n \in Names :
              content[n] # Absent => rank[content[n]] < rank[k]
  BY AcyclicAssumption
<1>. DEFINE Right(p) == KindAt(p) \in PrimKinds =>
                \A q \in Ancestors[p] :
                    KindAt(q) \in PrimKinds /\ rank[KindAt(p)] < rank[KindAt(q)]
            B == {p \in ScenePaths : ~Right(p)}
<1>2. B = {}
  <2>. SUFFICES ASSUME B # {} PROVE FALSE
    OBVIOUS
  <2>1. PICK p \in Topmost(B) : TRUE
    <3>1. B \in SUBSET ScenePaths /\ \E p \in B : TRUE
      OBVIOUS
    <3>. HIDE DEF B
    <3>. QED  BY <3>1, TopmostAbove
  <2>2. p \in ScenePaths /\ ~Right(p) /\ \A q \in Ancestors[p] : q \notin B
    BY DEF Topmost
  <2>3. p # PseudoRoot
    BY <2>2, AncestorsOrder
  <2>. DEFINE r == Parent(p)
              n == p[Len(p)]
  <2>4. /\ r \in ScenePaths /\ r \in Ancestors[p] /\ n \in Names
        /\ Ancestors[p] = Ancestors[r] \cup {r}
    BY <2>2, <2>3, ParentMeans
  <2>5. Right(r)
    BY <2>2, <2>4
  <2>6. KindAt(p) = ChildKind(KindAt(r), n)
    BY <2>2, <2>3, KindStep
  <2>. HIDE DEF r, n
  <2>7. KindAt(p) \in PrimKinds
    BY <2>2
  <2>8. /\ KindAt(r) \in PrimKinds /\ KindAt(p) = kids[KindAt(r)][n]
        /\ KindAt(p) # Absent
    BY <2>4, <2>6, <2>7, KindsOfChildren, KindsAre
  <2>9. rank[KindAt(p)] < rank[KindAt(r)]
    BY <1>1, <2>4, <2>8 DEF InstanceTyped
  <2>10. ASSUME NEW q \in Ancestors[p]
         PROVE  KindAt(q) \in PrimKinds /\ rank[KindAt(p)] < rank[KindAt(q)]
    <3>1. CASE q = r
      BY <2>8, <2>9, <3>1
    <3>2. CASE q \in Ancestors[r]
      <4>1. KindAt(q) \in PrimKinds /\ rank[KindAt(r)] < rank[KindAt(q)]
        BY <2>5, <2>8, <3>2
      <4>2. /\ rank[KindAt(p)] \in Int /\ rank[KindAt(q)] \in Int
            /\ rank[KindAt(r)] \in Int
        BY <1>1, <2>7, <2>8, <4>1
      <4>. QED  BY <2>9, <4>1, <4>2
    <3>. QED  BY <2>4, <3>1, <3>2
  <2>. QED  BY <2>2, <2>10
<1>3. ASSUME NEW p \in ScenePaths, KindAt(p) \in PrimKinds, NEW q \in Ancestors[p]
      PROVE  KindAt(q) \in PrimKinds /\ KindAt(q) # KindAt(p)
  <2>1. KindAt(q) \in PrimKinds /\ rank[KindAt(p)] < rank[KindAt(q)]
    BY <1>2, <1>3
  <2>2. rank[KindAt(p)] \in Int
    BY <1>1, <1>3
  <2>. QED  BY <2>1, <2>2
<1>. QED  BY <1>3

-----------------------------------------------------------------------------
(* Between rounds: what is registered is what is an instance               *)

LEMMA AtRest ==
    ASSUME IndexInv, phase # "compose"
    PROVE  /\ Open = {} /\ todo = {}
           /\ \A p \in ScenePaths, k \in Instanceable :
                  /\ IsRegistered(p, k) <=> instanceOf[p] = k
                  /\ instanceOf[p] = k <=> index[p] = k
           /\ \A k \in Instanceable :
                  /\ pendingAdded[k] = <<>> /\ pendingRemoved[k] = {} /\ Added(k) = {}
                  /\ SourceOf(k) = source[k]
                  /\ source[k] # Nothing =>
                         /\ prototype[k] # 0 /\ source[k] \in ScenePaths
                         /\ instanceOf[source[k]] = k /\ index[source[k]] = k
           /\ \A p \in ScenePaths : index[p] # Nothing => WellPlaced(p)
<1>1. todo = {} /\ \A k \in Instanceable : pendingAdded[k] = <<>> /\ pendingRemoved[k] = {}
  BY DEF IndexInv, PhasesFit
<1>2. Open = {}
  BY <1>1 DEF Open, AtOrBelow
<1>3. \A k \in Instanceable : Added(k) = {}
  BY <1>1 DEF Added, ToSet
<1>4. \A p \in ScenePaths, k \in Instanceable : IsRegistered(p, k) <=> instanceOf[p] = k
  BY <1>1, <1>3 DEF IsRegistered
<1>5. \A p \in ScenePaths, k \in Instanceable : instanceOf[p] = k <=> index[p] = k
  BY <1>2, <1>4 DEF IndexInv, RegistrationFits
<1>6. ASSUME NEW k \in Instanceable
      PROVE  /\ SourceOf(k) = source[k]
             /\ source[k] # Nothing =>
                    /\ prototype[k] # 0 /\ source[k] \in ScenePaths
                    /\ instanceOf[source[k]] = k /\ index[source[k]] = k
  BY <1>1, <1>5 DEF IndexInv, MapsFit, SourceOf
<1>7. \A p \in ScenePaths : index[p] # Nothing => WellPlaced(p)
  BY <1>2 DEF IndexInv, PlacesFit
<1>. QED  BY <1>1, <1>2, <1>3, <1>4, <1>5, <1>6, <1>7

LEMMA KeyIs ==
    ASSUME NEW p \in ScenePaths, NEW r \in Ancestors[p] \cup {p}, instanceOf[r] # Nothing,
           \A q \in Ancestors[p] \cup {p} :
               instanceOf[q] # Nothing => q = r \/ q \in Ancestors[r]
    PROVE  KeyAt(p) = instanceOf[r]
<1>. DEFINE R == {q \in Ancestors[p] \cup {p} : instanceOf[q] # Nothing}
            IsLowest(q) == \A t \in R : Len(t) <= Len(q)
            q == CHOOSE q \in R : IsLowest(q)
<1>1. r \in R /\ R \subseteq ScenePaths /\ \A t \in ScenePaths : Len(t) \in Nat
  BY AncestorsOrder, PathsAreSeqs
<1>2. \A t \in R : t = r \/ t \in Ancestors[r]
  OBVIOUS
<1>3. KeyAt(p) = instanceOf[q]
  <2>1. R # {}
    BY <1>1
  <2>. QED  BY <2>1 DEF KeyAt
<1>. HIDE DEF R
<1>4. IsLowest(r)
  <2>1. \A t \in R : t = r \/ Len(t) < Len(r)
    BY <1>1, <1>2, AncestorsOrder
  <2>. QED  BY <1>1, <2>1
<1>5. q \in R /\ IsLowest(q)
  BY <1>1, <1>4
<1>6. q = r
  <2>1. Len(r) <= Len(q)
    BY <1>1, <1>5
  <2>2. q = r \/ Len(q) < Len(r)
    BY <1>1, <1>2, <1>5, AncestorsOrder
  <2>. QED  BY <1>1, <1>5, <2>1, <2>2
<1>. QED  BY <1>3, <1>6

Walked(p) ==
    {c \in Ancestors[p] \cup {p} :
         c # PseudoRoot /\ \A d \in Ancestors[p] \cup {p} :
             IsStrictPrefix(c, d) => instanceOf[d] # Nothing}

LEMMA UsesMean ==
    ASSUME NEW p \in ScenePaths
    PROVE  PrototypeUses(p) <=>
               \E k \in Instanceable, c \in Walked(p) :
                   source[k] # Nothing /\ KeyAt(c) = k /\ IsPrefix(source[k], c)
BY DEF PrototypeUses, GetPrimsInPrototypes, Walked

LEMMA PathPrefixesMean ==
    ASSUME NEW q \in ScenePaths, NEW p \in ScenePaths
    PROVE  /\ IsStrictPrefix(q, p) <=> q \in Ancestors[p]
           /\ IsPrefix(q, p) <=> q = p \/ q \in Ancestors[p]
<1>1. IsPrefix(q, q)
  BY PathsAreSeqs, SeqPrefixOrder
<1>. QED  BY <1>1, AncestorsMean DEF IsStrictPrefix

(* Below sources only, a prim of a prototype uses the index; a loop from   *)
(* the instance itself goes on to its parent.                              *)
LEMMA UsesIfPlaced ==
    ASSUME IndexInv, phase = "idle", NEW p \in ScenePaths, WellPlaced(p),
           IsPathDescendantToAnInstance(p)
    PROVE  PrototypeUses(p)
<1>. DEFINE R == {q \in Ancestors[p] : instanceOf[q] # Nothing}
<1>1. R # {} /\ R \subseteq ScenePaths
  BY AncestorsOrder DEF IsPathDescendantToAnInstance
<1>2. PICK r \in R : \A q \in R : q = r \/ q \in Ancestors[r]
  <2>1. R \subseteq Ancestors[p] \cup {p}
    OBVIOUS
  <2>. HIDE DEF R
  <2>. QED  BY <1>1, <2>1, LowestAbove
<1>3. r \in Ancestors[p] /\ r \in ScenePaths /\ instanceOf[r] # Nothing
  BY <1>1
<1>4. PICK k \in Instanceable : instanceOf[r] = k
  BY <1>3 DEF IndexInv, InstanceTyped
<1>5. index[r] = k /\ source[k] = r /\ r # Nothing
  <2>1. index[r] = k
    BY <1>3, <1>4, AtRest
  <2>2. SourceOf(k) = r
    BY <1>3, <2>1 DEF WellPlaced
  <2>. QED  BY <1>3, <2>1, <2>2, AtRest, KindsAre
<1>6. p # PseudoRoot
  BY <1>3, AncestorsOrder
<1>7. CASE instanceOf[p] = Nothing
  <2>1. p \in Walked(p)
    <3>1. \A d \in Ancestors[p] \cup {p} : ~IsStrictPrefix(p, d)
      BY AncestorsOrder, PathPrefixesMean
    <3>. QED  BY <1>6, <3>1 DEF Walked
  <2>2. KeyAt(p) = k
    BY <1>2, <1>3, <1>4, <1>7, KeyIs
  <2>3. IsPrefix(source[k], p)
    BY <1>3, <1>5, PathPrefixesMean
  <2>. QED  BY <1>5, <2>1, <2>2, <2>3, UsesMean
<1>8. CASE instanceOf[p] # Nothing
  <2>. DEFINE c == Parent(p)
  <2>1. c \in ScenePaths /\ c \in Ancestors[p] /\ Ancestors[p] = Ancestors[c] \cup {c}
    BY <1>6, ParentMeans
  <2>2. c # PseudoRoot
    <3>1. SUFFICES ASSUME c = PseudoRoot PROVE FALSE
      OBVIOUS
    <3>2. r = PseudoRoot
      BY <1>3, <2>1, <3>1, AncestorsOrder
    <3>3. index[PseudoRoot] \in {StageKind, Nothing}
      BY DEF IndexInv, KindsFit
    <3>. QED  BY <1>5, <3>2, <3>3, KindsAre
  <2>3. c \in Walked(p)
    <3>1. ASSUME NEW d \in Ancestors[p] \cup {p}, IsStrictPrefix(c, d)
          PROVE  instanceOf[d] # Nothing
      <4>1. d \in ScenePaths
        BY AncestorsOrder
      <4>2. c \in Ancestors[d]
        BY <2>1, <3>1, <4>1, PathPrefixesMean
      <4>3. d # c /\ d \notin Ancestors[c]
        BY <2>1, <4>1, <4>2, AncestorsOrder
      <4>4. d = p
        BY <2>1, <4>3
      <4>. QED  BY <1>8, <4>4
    <3>. QED  BY <2>1, <2>2, <3>1 DEF Walked
  <2>4. KeyAt(c) = k
    <3>1. r \in Ancestors[c] \cup {c}
      BY <1>3, <2>1
    <3>2. \A q \in Ancestors[c] \cup {c} :
              instanceOf[q] # Nothing => q = r \/ q \in Ancestors[r]
      BY <1>2, <2>1
    <3>. QED  BY <1>3, <1>4, <2>1, <3>1, <3>2, KeyIs
  <2>5. IsPrefix(source[k], c)
    BY <1>3, <1>5, <2>1, PathPrefixesMean
  <2>. QED  BY <1>5, <2>3, <2>4, <2>5, UsesMean
<1>. QED  BY <1>7, <1>8

LEMMA PlacedIfUses ==
    ASSUME IndexInv, phase = "idle", NEW p \in ScenePaths,
           p # PseudoRoot => index[Parent(p)] \in PrimKinds,
           IsPathDescendantToAnInstance(p) => PrototypeUses(p)
    PROVE  WellPlaced(p)
<1>1. CASE p = PseudoRoot
  BY <1>1, AncestorsOrder DEF WellPlaced
<1>2. CASE index[p] # Nothing
  BY <1>2, AtRest
<1>3. ASSUME p # PseudoRoot, index[p] = Nothing  PROVE WellPlaced(p)
  <2>. DEFINE r == Parent(p)
              k == index[r]
  <2>1. /\ r \in ScenePaths /\ r \in Ancestors[p]
        /\ Ancestors[p] = Ancestors[r] \cup {r} /\ k \in PrimKinds
    BY <1>3, ParentMeans
  <2>. HIDE DEF r
  <2>2. WellPlaced(r)
    BY <2>1, AtRest, KindsAre
  <2>3. ASSUME k \in Instanceable  PROVE SourceOf(k) = r
    <3>1. instanceOf[r] = k /\ instanceOf[r] # Nothing
      BY <2>1, <2>3, AtRest, KindsAre
    <3>2. PrototypeUses(p)
      BY <2>1, <3>1 DEF IsPathDescendantToAnInstance
    <3>3. instanceOf[p] = Nothing
      <4>1. instanceOf[p] \notin Instanceable
        BY <1>3, AtRest, KindsAre
      <4>. QED  BY <4>1 DEF IndexInv, InstanceTyped
    <3>4. PICK j \in Instanceable, c \in Walked(p) :
              source[j] # Nothing /\ KeyAt(c) = j /\ IsPrefix(source[j], c)
      BY <3>2, UsesMean
    <3>5. c = p
      <4>1. c \in Ancestors[p] \cup {p} /\ (IsStrictPrefix(c, p) => instanceOf[p] # Nothing)
        BY DEF Walked
      <4>2. c \in ScenePaths
        BY <4>1, AncestorsOrder
      <4>. QED  BY <3>3, <4>1, <4>2, PathPrefixesMean
    <3>6. j = k
      <4>1. \A q \in Ancestors[p] \cup {p} :
                instanceOf[q] # Nothing => q = r \/ q \in Ancestors[r]
        BY <2>1, <3>3
      <4>2. KeyAt(p) = instanceOf[r]
        BY <2>1, <3>1, <4>1, KeyIs
      <4>. QED  BY <3>1, <3>4, <3>5, <4>2
    <3>. DEFINE s == source[k]
    <3>7. s \in ScenePaths /\ instanceOf[s] = k /\ index[s] = k /\ SourceOf(k) = s
      BY <2>3, <3>4, <3>6, AtRest
    <3>8. s \in Ancestors[p]
      BY <3>1, <3>3, <3>4, <3>5, <3>6, <3>7, PathPrefixesMean
    <3>9. s \notin Ancestors[r]
      BY <2>1, <2>3, <3>7 DEF IndexInv, KindsFit
    <3>. QED  BY <2>1, <3>7, <3>8, <3>9
  <2>. QED  BY <2>1, <2>2, <2>3 DEF WellPlaced
<1>. QED  BY <1>1, <1>2, <1>3

-----------------------------------------------------------------------------
(* A round begins                                                          *)

ChangedPaths == didChangeSignificantly \cup didChangePrims
BlownPaths == AtOrBelow(didChangeSignificantly) \cup didChangePrims
ExposedPaths ==
    {p \in Topmost(ChangedPaths) : IsPathDescendantToAnInstance(p) => PrototypeUses(p)}

LEMMA ChangedAre ==
    ASSUME IndexInv, phase = "idle"
    PROVE  /\ ChangedPaths \subseteq ScenePaths /\ ExposedPaths \subseteq ScenePaths
           /\ \A p \in ChangedPaths : p # PseudoRoot => index[Parent(p)] \in PrimKinds
<1>1. ASSUME NEW p \in didChangePrims, p # PseudoRoot  PROVE index[Parent(p)] \in PrimKinds
  <2>1. p \in ScenePaths /\ index[p] # Nothing
    BY DEF IndexInv, InstanceTyped, ChangesFit
  <2>2. WellPlaced(p) /\ Parent(p) \in Ancestors[p]
    BY <1>1, <2>1, AtRest, ParentMeans
  <2>. QED  BY <2>2 DEF WellPlaced
<1>2. \A p \in didChangeSignificantly : p # PseudoRoot => index[Parent(p)] \in PrimKinds
  BY DEF IndexInv, ChangesFit
<1>3. ChangedPaths \subseteq ScenePaths
  BY DEF IndexInv, InstanceTyped, ChangedPaths
<1>. QED  BY <1>1, <1>2, <1>3 DEF ChangedPaths, ExposedPaths, Topmost

LEMMA ExposedArePlaced ==
    ASSUME IndexInv, phase = "idle", NEW p \in ExposedPaths
    PROVE  p \in ScenePaths /\ WellPlaced(p)
BY ChangedAre, PlacedIfUses DEF ExposedPaths, Topmost

(* A change that is not exposed is where no index is.                      *)
LEMMA HiddenAreEmpty ==
    ASSUME IndexInv, phase = "idle", NEW t \in Topmost(ChangedPaths), t \notin ExposedPaths,
           NEW x \in ScenePaths, x = t \/ t \in Ancestors[x]
    PROVE  index[x] = Nothing
<1>. SUFFICES ASSUME index[x] # Nothing PROVE FALSE
  OBVIOUS
<1>1. t \in ScenePaths /\ IsPathDescendantToAnInstance(t) /\ ~PrototypeUses(t)
  BY ChangedAre DEF ExposedPaths, Topmost
<1>2. WellPlaced(x) /\ Ancestors[t] \subseteq Ancestors[x]
  BY AtRest, AncestorsOrder
<1>3. WellPlaced(t)
  BY <1>2 DEF WellPlaced
<1>. QED  BY <1>1, <1>3, UsesIfPlaced

(* What changes and has an index is at or below what is exposed.           *)
LEMMA ChangesAreExposed ==
    ASSUME IndexInv, phase = "idle", NEW x \in ScenePaths, index[x] # Nothing,
           NEW p \in ChangedPaths, p = x \/ p \in Ancestors[x]
    PROVE  x \in AtOrBelow(ExposedPaths)
<1>1. PICK t \in Topmost(ChangedPaths) : t = p \/ t \in Ancestors[p]
  BY ChangedAre, TopmostAbove
<1>2. t = x \/ t \in Ancestors[x]
  BY <1>1, AncestorsOrder
<1>3. t \in ExposedPaths
  BY <1>2, HiddenAreEmpty
<1>. QED  BY <1>2, <1>3, UnderMeans

LEMMA ExposedApart ==
    ASSUME IndexInv, phase = "idle"
    PROVE  \A p \in ExposedPaths : \A q \in Ancestors[p] : q \notin AtOrBelow(ExposedPaths)
<1>. SUFFICES ASSUME NEW p \in ExposedPaths, NEW q \in Ancestors[p],
                     q \in AtOrBelow(ExposedPaths)
              PROVE  FALSE
  OBVIOUS
<1>1. p \in ScenePaths /\ q \in ScenePaths /\ Ancestors[q] \subseteq Ancestors[p]
  BY ChangedAre, AncestorsOrder
<1>2. PICK e \in ExposedPaths : e = q \/ e \in Ancestors[q]
  BY <1>1, UnderMeans
<1>3. e \in Ancestors[p] /\ e \in ChangedPaths
  BY <1>1, <1>2 DEF ExposedPaths, Topmost
<1>. QED  BY <1>3 DEF ExposedPaths, Topmost

LEMMA CurrentIfUnchanged ==
    ASSUME IndexInv, phase = "idle"
    PROVE  \A x \in ScenePaths :
               index[x] # Nothing /\ x \notin AtOrBelow(didChangeSignificantly) =>
                   index[x] = KindAt(x)
<1>. DEFINE B == {x \in ScenePaths : /\ index[x] # Nothing
                                     /\ x \notin AtOrBelow(didChangeSignificantly)
                                     /\ index[x] # KindAt(x)}
<1>. SUFFICES ASSUME B # {} PROVE FALSE
  OBVIOUS
<1>1. PICK x \in Topmost(B) : TRUE
  <2>1. B \in SUBSET ScenePaths /\ \E x \in B : TRUE
    OBVIOUS
  <2>. HIDE DEF B
  <2>. QED  BY <2>1, TopmostAbove
<1>2. /\ x \in ScenePaths /\ index[x] # Nothing /\ index[x] # KindAt(x)
      /\ x \notin AtOrBelow(didChangeSignificantly) /\ \A q \in Ancestors[x] : q \notin B
  BY DEF Topmost
<1>3. x # PseudoRoot
  <2>1. index[PseudoRoot] \in {StageKind, Nothing}
    BY DEF IndexInv, KindsFit
  <2>. QED  BY <1>2, <2>1, KindStep
<1>. DEFINE r == Parent(x)
            n == x[Len(x)]
<1>4. r \in ScenePaths /\ r \in Ancestors[x] /\ n \in Names /\ x = Append(r, n)
  BY <1>2, <1>3, ParentMeans
<1>5. KindAt(x) = ChildKind(KindAt(r), n)
  BY <1>2, <1>3, KindStep
<1>. HIDE DEF r, n
<1>6. x \notin didChangeSignificantly /\ r \notin AtOrBelow(didChangeSignificantly)
  BY <1>2, <1>4, UnderMeans, UnderCloses
<1>7. index[x] = ChildKind(index[r], n)
  <2>. DEFINE c == Append(r, n)
  <2>1. c \in ScenePaths \ didChangeSignificantly /\ index[c] # Nothing
    BY <1>2, <1>4, <1>6
  <2>2. index[c] = ChildKind(index[r], n)
    BY <1>4, <2>1 DEF IndexInv, KindsFit
  <2>. QED  BY <1>4, <2>2
<1>8. index[r] # Nothing
  <2>1. WellPlaced(x)
    BY <1>2, AtRest
  <2>. QED  BY <1>4, <2>1, KindsAre DEF WellPlaced
<1>9. index[r] = KindAt(r)
  BY <1>2, <1>4, <1>6, <1>8
<1>. QED  BY <1>2, <1>5, <1>7, <1>9

LEMMA RecomposeMeans ==
    ASSUME IndexInv, Recompose
    PROVE  /\ phase = "idle" /\ phase' = "compose"
           /\ didChangeSignificantly' = {} /\ didChangePrims' = {}
           /\ roots' = ExposedPaths /\ todo' = ExposedPaths
           /\ pendingRemoved' = UnregisterUnder(ExposedPaths)
           /\ UNCHANGED <<kids, mapVars, pendingAdded>>
           /\ index' \in [ScenePaths -> PrimKinds \cup {Absent, Nothing}]
           /\ \A x \in ScenePaths : index'[x] = IF x \in BlownPaths THEN Nothing ELSE index[x]
           /\ \A x \in ScenePaths : x \notin AtOrBelow(ExposedPaths) => index'[x] = index[x]
<1>. DEFINE cleared == [p \in ScenePaths |-> IF p \in BlownPaths THEN Nothing ELSE index[p]]
<1>1. /\ phase = "idle" /\ phase' = "compose"
      /\ didChangeSignificantly' = {} /\ didChangePrims' = {}
      /\ roots' = ExposedPaths /\ todo' = ExposedPaths
      /\ pendingRemoved' = UnregisterUnder(ExposedPaths)
      /\ UNCHANGED <<kids, mapVars, pendingAdded>>
      /\ index' = WithAncestors(ExposedPaths, cleared)
  BY DEF Recompose, ExposedPaths, BlownPaths, ChangedPaths
<1>2. ASSUME NEW x \in ScenePaths, x \notin AtOrBelow(ExposedPaths)
      PROVE  cleared[x] = index[x]
  <2>1. ASSUME x \in BlownPaths, index[x] # Nothing  PROVE FALSE
    <3>1. \E p \in ChangedPaths : p = x \/ p \in Ancestors[x]
      BY <2>1, UnderMeans DEF BlownPaths, ChangedPaths
    <3>. QED  BY <1>1, <1>2, <2>1, <3>1, ChangesAreExposed
  <2>. QED  BY <2>1
<1>3. ASSUME NEW x \in ScenePaths, cleared[x] = Nothing,
             NEW q \in ExposedPaths, x \in Ancestors[q]
      PROVE  FALSE
  <2>1. index[x] \in PrimKinds
    BY <1>1, <1>3, ExposedArePlaced DEF WellPlaced
  <2>2. x \notin AtOrBelow(ExposedPaths)
    BY <1>1, <1>3, ExposedApart
  <2>. QED  BY <1>2, <1>3, <2>1, <2>2, KindsAre
<1>. HIDE DEF cleared
<1>4. index' = [x \in ScenePaths |-> cleared[x]]
  BY <1>1, <1>3 DEF WithAncestors
<1>5. \A x \in ScenePaths : cleared[x] = IF x \in BlownPaths THEN Nothing ELSE index[x]
  BY DEF cleared
<1>6. \A x \in ScenePaths : index[x] \in PrimKinds \cup {Absent, Nothing}
  BY DEF IndexInv, InstanceTyped
<1>. QED  BY <1>1, <1>2, <1>4, <1>5, <1>6

LEMMA RecomposeKeeps ==
    ASSUME IndexInv, Recompose
    PROVE  IndexInv'
<1>. DEFINE E == ExposedPaths
            U == AtOrBelow(E)
<1>1. /\ phase = "idle" /\ phase' = "compose"
      /\ didChangeSignificantly' = {} /\ didChangePrims' = {}
      /\ roots' = E /\ todo' = E /\ pendingRemoved' = UnregisterUnder(E)
      /\ UNCHANGED <<kids, prototype, last, source, instances, instanceOf, pendingAdded>>
  BY RecomposeMeans DEF mapVars
<1>2. /\ index' \in [ScenePaths -> PrimKinds \cup {Absent, Nothing}]
      /\ \A x \in ScenePaths : index'[x] = IF x \in BlownPaths THEN Nothing ELSE index[x]
      /\ \A x \in ScenePaths : x \notin U => index'[x] = index[x]
  BY RecomposeMeans
<1>3. E \subseteq ScenePaths /\ U \subseteq ScenePaths /\ E \subseteq U /\ Open' = U
  BY <1>1, ChangedAre, UnderMeans DEF Open, AtOrBelow
<1>4. /\ \A p \in E : WellPlaced(p) /\ \A q \in Ancestors[p] : q \notin U
      /\ \A x \in ScenePaths : \A q \in Ancestors[x] : q \in U => x \in U
  BY <1>1, ExposedArePlaced, ExposedApart, UnderCloses
<1>5. /\ \A k \in Instanceable :
             /\ pendingRemoved'[k] = {q \in U : instanceOf[q] = k}
             /\ pendingAdded'[k] = <<>> /\ Added(k)' = {}
             /\ SourceOf(k)' = SourceOf(k)
      /\ \A p \in ScenePaths, k \in Instanceable :
             IsRegistered(p, k)' <=> index[p] = k /\ p \notin U
  <2>1. ASSUME NEW k \in Instanceable
        PROVE  /\ pendingRemoved'[k] = {q \in U : instanceOf[q] = k}
               /\ pendingAdded'[k] = <<>> /\ Added(k)' = {}
               /\ SourceOf(k)' = SourceOf(k)
    <3>1. pendingAdded[k] = <<>> /\ pendingAdded'[k] = <<>>
      BY <1>1, AtRest
    <3>. QED  BY <1>1, <3>1 DEF UnregisterUnder, Added, ToSet, SourceOf
  <2>. QED  BY <1>1, <1>3, <2>1, AtRest DEF IsRegistered
<1>6. ASSUME NEW x \in ScenePaths, WellPlaced(x), \A q \in Ancestors[x] : q \notin U
      PROVE  WellPlaced(x)'
  <2>1. \A q \in Ancestors[x] : index'[q] = index[q]
    BY <1>2, <1>6, AncestorsOrder
  <2>. QED  BY <1>5, <1>6, <2>1 DEF WellPlaced
<1>7. InstanceTyped'
  <2>1. pendingRemoved' \in [Instanceable -> SUBSET ScenePaths]
    BY <1>1, <1>3, <1>5 DEF UnregisterUnder
  <2>. QED  BY <1>1, <1>2, <1>3, <2>1 DEF IndexInv, InstanceTyped
<1>8. PhasesFit'
  BY <1>1 DEF PhasesFit
<1>9. MapsFit'
  BY <1>1, <1>3, <1>5 DEF IndexInv, MapsFit
<1>10. RegistrationFits'
  BY <1>2, <1>3, <1>5 DEF RegistrationFits
<1>11. PlacesFit'
  <2>1. \A p \in E : WellPlaced(p)'
    BY <1>3, <1>4, <1>6
  <2>2. ASSUME NEW p \in ScenePaths \ U, index'[p] # Nothing  PROVE WellPlaced(p)'
    <3>1. WellPlaced(p)
      BY <1>2, <2>2, <1>1, AtRest
    <3>. QED  BY <1>4, <1>6, <3>1
  <2>. QED  BY <1>1, <1>3, <2>1, <2>2 DEF PlacesFit
<1>12. TodoApart'
  BY <1>1, <1>3, <1>4 DEF TodoApart
<1>13. ChangesFit'
  BY <1>1 DEF ChangesFit
<1>14. \A x \in ScenePaths : index'[x] # Nothing =>
           /\ x \notin AtOrBelow(didChangeSignificantly)
           /\ index'[x] = index[x] /\ index[x] = KindAt(x)
  BY <1>1, <1>2, CurrentIfUnchanged DEF BlownPaths
<1>15. \A x \in ScenePaths : KindAt(x)' = KindAt(x)
  BY <1>1 DEF KindAt, ChildKind, Has
<1>16. KindsFit'
  BY <1>1, <1>14, <1>15 DEF KindsFit
<1>17. LeftoversFit'
  <2>1. ASSUME NEW x \in U, index'[x] # Nothing, NEW q \in Ancestors[x] \cap U
        PROVE  /\ KindAt(q) \in PrimKinds
               /\ KindAt(q) \in Instanceable =>
                      prototype[KindAt(q)] # 0 /\ source[KindAt(q)] = q
    <3>1. x \in ScenePaths /\ q \in ScenePaths
      BY <1>3, <2>1
    <3>2. index[x] # Nothing /\ x \notin AtOrBelow(didChangeSignificantly)
      BY <1>14, <2>1, <3>1
    <3>3. index[q] \in PrimKinds /\ (index[q] \in Instanceable => SourceOf(index[q]) = q)
      BY <1>1, <2>1, <3>1, <3>2, AtRest DEF WellPlaced
    <3>4. q \notin AtOrBelow(didChangeSignificantly)
      BY <2>1, <3>1, <3>2, UnderCloses
    <3>5. index[q] = KindAt(q)
      BY <1>1, <3>1, <3>3, <3>4, CurrentIfUnchanged, KindsAre
    <3>. QED  BY <1>1, <3>1, <3>3, <3>5, AtRest, KindsAre
  <2>. QED  BY <1>1, <1>3, <1>15, <2>1 DEF LeftoversFit
<1>18. ChildrenFit'
  <2>1. ASSUME NEW x \in ScenePaths \ U, index[x] \in PrimKinds,
               index[x] \in Instanceable => SourceOf(index[x]) = x,
               NEW c \in ChildrenOf(x, index[x])
        PROVE  c \in E \/ index'[c] # Nothing
    <3>. SUFFICES ASSUME c \notin E PROVE index'[c] # Nothing
      OBVIOUS
    <3>1. c \in ScenePaths /\ c # PseudoRoot /\ Parent(c) = x
      BY ChildMeans DEF ChildrenOf
    <3>2. x \in Ancestors[c] /\ Ancestors[c] = Ancestors[x] \cup {x}
      BY <3>1, ParentMeans
    <3>3. c \notin U
      <4>1. c \in U => \E q \in E : q = c \/ q \in Ancestors[c]
        BY <3>1, UnderMeans
      <4>2. x \in U <=> \E q \in E : q = x \/ q \in Ancestors[x]
        BY UnderMeans
      <4>. QED  BY <2>1, <3>2, <4>1, <4>2
    <3>4. c \notin didChangeSignificantly
      <4>. SUFFICES ASSUME c \in didChangeSignificantly PROVE FALSE
        OBVIOUS
      <4>1. PICK t \in Topmost(ChangedPaths) : t = c \/ t \in Ancestors[c]
        BY <1>1, ChangedAre, TopmostAbove DEF ChangedPaths
      <4>2. t \notin E
        BY <3>1, <3>3, <4>1, UnderMeans
      <4>3. t = c
        <5>1. t # x /\ t \notin Ancestors[x]
          BY <1>1, <2>1, <4>2, HiddenAreEmpty, KindsAre
        <5>. QED  BY <3>2, <4>1, <5>1
      <4>4. WellPlaced(x)
        BY <1>1, <2>1, AtRest, KindsAre
      <4>5. WellPlaced(c)
        BY <2>1, <3>2, <4>4 DEF WellPlaced
      <4>6. IsPathDescendantToAnInstance(c) /\ ~PrototypeUses(c)
        BY <4>2, <4>3 DEF ExposedPaths
      <4>. QED  BY <1>1, <3>1, <4>5, <4>6, UsesIfPlaced
    <3>5. index[c] # Nothing
      <4>1. Open = {} /\ todo = {}
        BY <1>1, AtRest
      <4>. QED  BY <2>1, <3>4, <4>1 DEF IndexInv, ChildrenFit
    <3>. QED  BY <1>2, <3>1, <3>3, <3>5
  <2>2. \A x \in ScenePaths : ChildrenOf(x, index[x])' = ChildrenOf(x, index'[x])
    BY <1>1 DEF ChildrenOf, Has
  <2>3. ASSUME NEW x \in ScenePaths \ U, index'[x] \in PrimKinds,
               index'[x] \in Instanceable => SourceOf(index[x])' = x,
               NEW c \in ChildrenOf(x, index[x])'
        PROVE  c \in E \/ index'[c] # Nothing
    <3>1. index'[x] = index[x]
      BY <1>2
    <3>2. index[x] \in Instanceable => SourceOf(index[x]) = x
      BY <1>5, <2>3, <3>1
    <3>. QED  BY <2>1, <2>2, <2>3, <3>1, <3>2
  <2>. QED  BY <1>1, <1>3, <2>3 DEF ChildrenFit
<1>. QED  BY <1>7, <1>8, <1>9, <1>10, <1>11, <1>12, <1>13, <1>16, <1>17, <1>18 DEF IndexInv

-----------------------------------------------------------------------------
(* A task of a path                                                        *)

LEMMA AddedGrows ==
    ASSUME InstanceTyped, NEW k \in Instanceable, NEW p \in ScenePaths,
           pendingAdded' = [pendingAdded EXCEPT ![k] = Append(@, p)]
    PROVE  /\ pendingAdded' \in [Instanceable -> Seq(ScenePaths)]
           /\ Added(k)' = Added(k) \cup {p}
           /\ \A j \in Instanceable \ {k} : pendingAdded'[j] = pendingAdded[j]
           /\ pendingAdded'[k] # <<>>
           /\ Head(pendingAdded'[k]) =
                  IF pendingAdded[k] = <<>> THEN p ELSE Head(pendingAdded[k])
           /\ pendingAdded[k] # <<>> => Head(pendingAdded[k]) \in Added(k)
<1>. DEFINE s == pendingAdded[k]
            t == Append(s, p)
            n == Len(s)
<1>1. s \in Seq(ScenePaths) /\ n \in Nat /\ pendingAdded'[k] = t
  BY DEF InstanceTyped
<1>2. /\ t \in Seq(ScenePaths) /\ Len(t) = n + 1 /\ t[n + 1] = p
      /\ \A i \in 1 .. n : t[i] = s[i]
  BY <1>1, AppendProperties
<1>3. pendingAdded' \in [Instanceable -> Seq(ScenePaths)]
  BY <1>2 DEF InstanceTyped
<1>. HIDE DEF t
<1>4. /\ Added(k) = {s[i] : i \in 1 .. n} /\ Added(k)' = {t[i] : i \in 1 .. n + 1}
  <2>1. DOMAIN s = 1 .. n /\ DOMAIN t = 1 .. n + 1
    BY <1>1, <1>2
  <2>2. Added(k) = ToSet(s) /\ Added(k)' = ToSet(t)
    BY <1>1 DEF Added, ToSet
  <2>. QED  BY <2>1, <2>2 DEF ToSet
<1>5. Added(k)' = Added(k) \cup {p}
  <2>1. \A i \in 1 .. n + 1 : i \in 1 .. n \/ i = n + 1
    BY <1>1
  <2>2. n + 1 \in 1 .. n + 1 /\ \A i \in 1 .. n : i \in 1 .. n + 1
    BY <1>1
  <2>. QED  BY <1>2, <1>4, <2>1, <2>2
<1>6. \A j \in Instanceable \ {k} : pendingAdded'[j] = pendingAdded[j]
  BY DEF InstanceTyped
<1>7. t # <<>> /\ Head(t) = t[1]
  BY <1>1, <1>2, EmptySeq
<1>8. s = <<>> => n = 0
  BY <1>1
<1>9. s # <<>> => 1 \in 1 .. n /\ Head(s) = s[1]
  BY <1>1, EmptySeq
<1>10. Head(t) = IF s = <<>> THEN p ELSE Head(s)
  BY <1>2, <1>7, <1>8, <1>9
<1>11. s # <<>> => Head(s) \in Added(k)
  BY <1>4, <1>9
<1>. QED  BY <1>1, <1>3, <1>5, <1>6, <1>7, <1>10, <1>11

LEMMA ChildrenAre ==
    ASSUME NEW p \in ScenePaths, NEW k, NEW c \in ChildrenOf(p, k)
    PROVE  /\ c \in ScenePaths /\ c # PseudoRoot /\ Parent(c) = p
           /\ p \in Ancestors[c] /\ Ancestors[c] = Ancestors[p] \cup {p}
           /\ k \in PrimKinds
<1>1. PICK n \in Names : c = Append(p, n) /\ c \in ScenePaths /\ Has(k, n)
  BY DEF ChildrenOf
<1>2. c # PseudoRoot /\ Parent(c) = p
  BY <1>1, ChildMeans
<1>3. Parent(c) \in Ancestors[c] /\ Ancestors[c] = Ancestors[Parent(c)] \cup {Parent(c)}
  BY <1>1, <1>2, ParentMeans
<1>. QED  BY <1>1, <1>2, <1>3 DEF Has

LEMMA ComputeMeans ==
    ASSUME IndexInv, NEW p \in ScenePaths, Compute(p)
    PROVE  /\ phase = "compose" /\ p \in todo /\ p \in Open
           /\ UNCHANGED <<kids, didChangeSignificantly, didChangePrims, mapVars,
                          pendingRemoved, roots, phase>>
           /\ index' = [index EXCEPT ![p] = KindAt(p)]
           /\ index[p] # Nothing => index[p] = KindAt(p)
           /\ pendingAdded' = IF KindAt(p) \in Instanceable
                              THEN [pendingAdded EXCEPT ![KindAt(p)] = Append(@, p)]
                              ELSE pendingAdded
           /\ todo' = (todo \ {p}) \cup
                          IF KindAt(p) \in Instanceable => IsSource(p, KindAt(p))
                          THEN ChildrenOf(p, KindAt(p)) ELSE {}
<1>1. phase = "compose" /\ p \in todo
  BY DEF Compute
<1>2. index[p] # Nothing => index[p] = KindAt(p)
  BY <1>1 DEF IndexInv, KindsFit
<1>3. (IF index[p] = Nothing THEN KindAt(p) ELSE index[p]) = KindAt(p)
  BY <1>2
<1>4. p \in Open
  BY <1>1, UnderMeans DEF Open
<1>. QED  BY <1>1, <1>2, <1>3, <1>4 DEF Compute, sceneVars

(* What the next tasks are below: less than before, and without p.         *)
LEMMA OpenShrinks ==
    ASSUME InstanceTyped, TodoApart, NEW p \in todo, NEW C, C \subseteq ScenePaths,
           \A c \in C : p \in Ancestors[c] /\ Ancestors[c] = Ancestors[p] \cup {p},
           todo' = (todo \ {p}) \cup C
    PROVE  /\ todo' \subseteq ScenePaths /\ TodoApart'
           /\ Open' \subseteq Open /\ p \notin Open'
           /\ \A x \in Open \ Open' : x # p => p \in Ancestors[x]
           /\ \A c \in C, x \in ScenePaths : c = x \/ c \in Ancestors[x] => x \in Open'
<1>1. todo \subseteq ScenePaths /\ p \in ScenePaths /\ todo' \subseteq ScenePaths
  BY DEF InstanceTyped
<1>2. \A x \in ScenePaths : x \in Open <=> \E t \in todo : t = x \/ t \in Ancestors[x]
  BY UnderMeans DEF Open
<1>3. \A x \in ScenePaths : x \in Open' <=> \E t \in todo' : t = x \/ t \in Ancestors[x]
  BY UnderMeans DEF Open, AtOrBelow
<1>4. Open \subseteq ScenePaths /\ Open' \subseteq ScenePaths
  BY DEF Open, AtOrBelow
<1>5. \A c \in C, x \in ScenePaths : c = x \/ c \in Ancestors[x] => x \in Open'
  BY <1>3
<1>6. ASSUME NEW x \in Open'  PROVE x \in Open
  <2>1. PICK t \in todo' : t = x \/ t \in Ancestors[x]
    BY <1>3, <1>4
  <2>2. CASE t \in todo
    BY <1>2, <1>4, <2>1, <2>2
  <2>3. CASE t \in C
    <3>1. p \in Ancestors[x]
      BY <1>4, <2>1, <2>3, AncestorsOrder
    <3>. QED  BY <1>2, <1>4, <3>1
  <2>. QED  BY <2>2, <2>3
<1>7. p \notin Open'
  <2>. SUFFICES ASSUME p \in Open' PROVE FALSE
    OBVIOUS
  <2>1. PICK t \in todo' : t = p \/ t \in Ancestors[p]
    BY <1>1, <1>3
  <2>2. CASE t \in C
    BY <1>1, <2>1, <2>2, AncestorsOrder
  <2>3. CASE t \in todo \ {p}
    BY <2>1, <2>3 DEF TodoApart
  <2>. QED  BY <2>2, <2>3
<1>8. ASSUME NEW x \in Open \ Open', x # p  PROVE p \in Ancestors[x]
  <2>1. PICK t \in todo : t = x \/ t \in Ancestors[x]
    BY <1>2, <1>4
  <2>2. t \notin todo'
    BY <1>3, <1>4, <1>8, <2>1
  <2>. QED  BY <1>8, <2>1, <2>2
<1>9. TodoApart'
  <2>. SUFFICES ASSUME NEW x \in todo', NEW y \in todo', y \in Ancestors[x] PROVE FALSE
    BY DEF TodoApart
  <2>1. CASE x \in todo \ {p}
    <3>1. y \notin todo /\ p \notin Ancestors[x]
      BY <2>1 DEF TodoApart
    <3>2. p \in Ancestors[y] /\ x \in ScenePaths
      BY <1>1, <3>1
    <3>. QED  BY <3>1, <3>2, AncestorsOrder
  <2>2. CASE x \in C
    <3>1. y \in Ancestors[p] \cup {p}
      BY <2>2
    <3>2. y \notin todo \ {p}
      BY <3>1 DEF TodoApart
    <3>3. p \in Ancestors[y]
      BY <3>2
    <3>. QED  BY <1>1, <3>1, <3>3, AncestorsOrder
  <2>. QED  BY <2>1, <2>2
<1>. QED  BY <1>1, <1>5, <1>6, <1>7, <1>8, <1>9

LEMMA ComputeKeeps ==
    ASSUME IndexInv, NEW p \in ScenePaths, Compute(p)
    PROVE  IndexInv'
<1>k. PICK k : k = KindAt(p)
  OBVIOUS
<1>. DEFINE goesOn == k \in Instanceable => IsSource(p, k)
            C == IF goesOn THEN ChildrenOf(p, k) ELSE {}
<1>1. /\ phase = "compose" /\ p \in todo /\ p \in Open /\ phase' = "compose"
      /\ UNCHANGED <<kids, didChangeSignificantly, didChangePrims, prototype, last,
                     source, instances, instanceOf, pendingRemoved, roots>>
      /\ index' = [index EXCEPT ![p] = k]
      /\ index[p] # Nothing => index[p] = k
      /\ pendingAdded' = IF k \in Instanceable
                         THEN [pendingAdded EXCEPT ![k] = Append(@, p)]
                         ELSE pendingAdded
      /\ todo' = (todo \ {p}) \cup C
  BY <1>k, ComputeMeans DEF mapVars
<1>2. k \in PrimKinds \cup {Absent} /\ k # Nothing
  BY <1>k, KindsAtPaths, KindsAre DEF IndexInv
<1>3. /\ index' \in [ScenePaths -> PrimKinds \cup {Absent, Nothing}]
      /\ index'[p] = k /\ \A x \in ScenePaths \ {p} : index'[x] = index[x]
  BY <1>1, <1>2 DEF IndexInv, InstanceTyped
<1>4. \A c \in ChildrenOf(p, k) :
          /\ c \in ScenePaths /\ c # PseudoRoot /\ p \in Ancestors[c]
          /\ Ancestors[c] = Ancestors[p] \cup {p}
  BY ChildrenAre
<1>5. C \subseteq ChildrenOf(p, k)
  OBVIOUS
<1>. HIDE DEF C
<1>6. /\ todo' \subseteq ScenePaths /\ TodoApart'
      /\ Open' \subseteq Open /\ p \notin Open'
      /\ \A x \in Open \ Open' : x # p => p \in Ancestors[x]
      /\ \A c \in C, x \in ScenePaths : c = x \/ c \in Ancestors[x] => x \in Open'
  BY <1>1, <1>4, <1>5, OpenShrinks DEF IndexInv
<1>. HIDE DEF goesOn
<1>7. Open \subseteq ScenePaths /\ todo \subseteq Open
  BY UnderMeans DEF Open, AtOrBelow, IndexInv, InstanceTyped
<1>8. \A x \in ScenePaths : KindAt(x)' = KindAt(x)
  BY <1>1 DEF KindAt, ChildKind, Has
(* Registration of p *)
<1>10. /\ pendingAdded' \in [Instanceable -> Seq(ScenePaths)]
       /\ \A j \in Instanceable : Added(j)' = IF j = k THEN Added(j) \cup {p} ELSE Added(j)
       /\ \A x \in ScenePaths, j \in Instanceable :
              IsRegistered(x, j)' <=> IsRegistered(x, j) \/ (x = p /\ j = k)
  <2>1. CASE k \in Instanceable
    <3>1. /\ pendingAdded' \in [Instanceable -> Seq(ScenePaths)]
          /\ Added(k)' = Added(k) \cup {p}
          /\ \A j \in Instanceable \ {k} : pendingAdded'[j] = pendingAdded[j]
      BY <1>1, <2>1, AddedGrows DEF IndexInv
    <3>2. \A j \in Instanceable \ {k} : Added(j)' = Added(j)
      BY <3>1 DEF Added
    <3>. QED  BY <1>1, <2>1, <3>1, <3>2 DEF IsRegistered
  <2>2. CASE k \notin Instanceable
    BY <1>1, <2>2 DEF IndexInv, InstanceTyped, IsRegistered, Added
  <2>. QED  BY <2>1, <2>2
(* The sources: a key that had none may get p *)
<1>11. \A j \in Instanceable :
           SourceOf(j)' = SourceOf(j) \/ (j = k /\ SourceOf(j) = Nothing /\ SourceOf(j)' = p)
  <2>1. CASE k \in Instanceable
    <3>1. /\ \A j \in Instanceable \ {k} : pendingAdded'[j] = pendingAdded[j]
          /\ pendingAdded'[k] # <<>>
          /\ Head(pendingAdded'[k]) =
                 IF pendingAdded[k] = <<>> THEN p ELSE Head(pendingAdded[k])
      BY <1>1, <2>1, AddedGrows DEF IndexInv
    <3>. QED  BY <1>1, <3>1 DEF SourceOf
  <2>2. CASE k \notin Instanceable
    BY <1>1, <2>2 DEF SourceOf
  <2>. QED  BY <2>1, <2>2
<1>12. k \in Instanceable => (IsSource(p, k) <=> SourceOf(k)' = p)
  <2>. SUFFICES ASSUME k \in Instanceable PROVE IsSource(p, k) <=> SourceOf(k)' = p
    OBVIOUS
  <2>1. /\ pendingAdded'[k] # <<>>
        /\ Head(pendingAdded'[k]) =
               IF pendingAdded[k] = <<>> THEN p ELSE Head(pendingAdded[k])
        /\ pendingAdded[k] # <<>> => Head(pendingAdded[k]) \in Added(k)
    BY <1>1, AddedGrows DEF IndexInv
  <2>2. p \in Added(k) => prototype[k] # 0
    BY <1>1 DEF IndexInv, RegistrationFits, IsRegistered
  <2>3. prototype' = prototype /\ source' = source
    BY <1>1
  <2>. QED  BY <2>1, <2>2, <2>3 DEF IsSource, SourceOf
<1>13. goesOn <=> (k \in Instanceable => SourceOf(k)' = p)
  BY <1>12 DEF goesOn
<1>14. ASSUME NEW x \in ScenePaths, WellPlaced(x), p \notin Ancestors[x]
       PROVE  WellPlaced(x)'
  <2>1. \A q \in Ancestors[x] : q \in ScenePaths /\ index'[q] = index[q]
    BY <1>3, <1>14, AncestorsOrder
  <2>2. \A q \in Ancestors[x] : index[q] \in Instanceable => SourceOf(index[q])' = q
    BY <1>11, <1>14, <2>1, KindsAre DEF WellPlaced
  <2>. QED  BY <1>14, <2>1, <2>2 DEF WellPlaced
<1>15. WellPlaced(p)
  BY <1>1 DEF IndexInv, PlacesFit
(* What is left of an index below p when p has been computed *)
<1>16. ASSUME NEW x \in Open \ Open', x # p, index[x] # Nothing
       PROVE  /\ k \in PrimKinds /\ goesOn /\ KindAt(x) = Absent /\ index'[x] = Absent
              /\ Ancestors[x] = Ancestors[p] \cup {p}
  <2>1. x \in ScenePaths /\ p \in Ancestors[x]
    BY <1>6, <1>7, <1>16
  <2>2. /\ k \in PrimKinds
        /\ k \in Instanceable => prototype[k] # 0 /\ source[k] = p
    BY <1>1, <1>k, <1>16, <2>1 DEF IndexInv, LeftoversFit
  <2>3. goesOn
    BY <2>2 DEF goesOn, IsSource
  <2>4. PICK c \in ScenePaths \ {PseudoRoot} : Parent(c) = p /\ (c = x \/ c \in Ancestors[x])
    BY <2>1, StepTowards
  <2>. DEFINE n == c[Len(c)]
  <2>5. /\ n \in Names /\ c = Append(p, n) /\ p \in Ancestors[c]
        /\ Ancestors[c] = Ancestors[p] \cup {p}
    BY <2>4, ParentMeans
  <2>6. KindAt(c) = ChildKind(k, n)
    BY <1>k, <2>4, <2>5, KindStep
  <2>. HIDE DEF n
  <2>7. c \notin C
    BY <1>6, <1>16, <2>1, <2>4
  <2>8. ~Has(k, n)
    BY <2>3, <2>4, <2>5, <2>7 DEF C, ChildrenOf
  <2>9. KindAt(c) = Absent
    BY <2>6, <2>8 DEF ChildKind
  <2>10. c = x
    <3>. SUFFICES ASSUME c \in Ancestors[x] PROVE FALSE
      BY <2>4
    <3>1. c \in Open
      BY <1>1, <2>5, UnderMeans DEF Open
    <3>2. KindAt(c) \in PrimKinds
      BY <1>16, <3>1 DEF IndexInv, LeftoversFit
    <3>. QED  BY <2>9, <3>2, KindsAre
  <2>11. index[x] = KindAt(x)
    BY <1>1, <1>16, <2>1 DEF IndexInv, KindsFit
  <2>. QED  BY <1>3, <1>16, <2>1, <2>2, <2>3, <2>5, <2>9, <2>10, <2>11
<1>17. InstanceTyped'
  BY <1>1, <1>3, <1>6, <1>10 DEF IndexInv, InstanceTyped
<1>18. PhasesFit'
  BY <1>1 DEF IndexInv, PhasesFit
<1>19. MapsFit'
  BY <1>1 DEF IndexInv, MapsFit
<1>20. RegistrationFits'
  <2>1. ASSUME NEW x \in ScenePaths, NEW j \in Instanceable, IsRegistered(x, j)'
        PROVE  /\ index'[x] = j
               /\ x \in Open' => x \in todo' /\ prototype'[j] # 0 /\ source'[j] = x
    <3>1. CASE x = p
      <4>1. j = k
        BY <1>1, <1>10, <2>1, <3>1, KindsAre DEF IndexInv, RegistrationFits
      <4>. QED  BY <1>3, <1>6, <3>1, <4>1
    <3>2. CASE x # p
      <4>1. IsRegistered(x, j)
        BY <1>10, <2>1, <3>2
      <4>. QED  BY <1>1, <1>3, <1>6, <3>2, <4>1 DEF IndexInv, RegistrationFits
    <3>. QED  BY <3>1, <3>2
  <2>2. ASSUME NEW x \in ScenePaths \ Open', index'[x] \in Instanceable
        PROVE  IsRegistered(x, index[x])'
    <3>1. CASE x = p
      BY <1>3, <1>10, <2>2, <3>1
    <3>2. CASE x # p
      <4>1. index[x] = index'[x]
        BY <1>3, <3>2
      <4>2. x \notin Open
        <5>. SUFFICES ASSUME x \in Open PROVE FALSE
          OBVIOUS
        <5>1. index'[x] = Absent
          BY <1>16, <2>2, <3>2, <4>1, KindsAre
        <5>. QED  BY <2>2, <5>1, KindsAre
      <4>3. IsRegistered(x, index[x])
        BY <2>2, <4>1, <4>2 DEF IndexInv, RegistrationFits
      <4>. QED  BY <1>10, <2>2, <4>1, <4>3
    <3>. QED  BY <3>1, <3>2
  <2>. QED  BY <2>1, <2>2 DEF RegistrationFits
<1>21. PlacesFit'
  <2>1. ASSUME NEW x \in ScenePaths, Ancestors[x] = Ancestors[p] \cup {p},
               k \in PrimKinds, goesOn
        PROVE  WellPlaced(x)'
    <3>1. WellPlaced(p)'
      BY <1>14, <1>15, AncestorsOrder
    <3>. QED  BY <1>3, <1>13, <2>1, <3>1 DEF WellPlaced
  <2>2. ASSUME NEW x \in todo'  PROVE WellPlaced(x)'
    <3>1. CASE x \in todo \ {p}
      <4>1. WellPlaced(x) /\ p \notin Ancestors[x] /\ x \in ScenePaths
        BY <1>1, <1>7, <3>1 DEF IndexInv, PlacesFit, TodoApart
      <4>. QED  BY <1>14, <4>1
    <3>2. CASE x \in C
      <4>1. goesOn /\ x \in ChildrenOf(p, k)
        BY <3>2 DEF C
      <4>2. k \in PrimKinds
        BY <4>1, ChildrenAre
      <4>. QED  BY <1>4, <2>1, <4>1, <4>2
    <3>. QED  BY <1>1, <3>1, <3>2
  <2>3. ASSUME NEW x \in ScenePaths \ Open', index'[x] # Nothing  PROVE WellPlaced(x)'
    <3>1. CASE x = p
      BY <1>14, <1>15, <3>1, AncestorsOrder
    <3>2. CASE x \in Open /\ x # p
      BY <1>3, <1>16, <2>1, <2>3, <3>2
    <3>3. CASE x \notin Open
      <4>1. WellPlaced(x)
        BY <1>1, <1>3, <2>3, <3>3 DEF IndexInv, PlacesFit
      <4>2. p \notin Ancestors[x]
        BY <1>1, <3>3, UnderMeans DEF Open
      <4>. QED  BY <1>14, <4>1, <4>2
    <3>. QED  BY <3>1, <3>2, <3>3
  <2>. QED  BY <2>2, <2>3 DEF PlacesFit
<1>22. ChangesFit'
  BY <1>1 DEF IndexInv, PhasesFit, ChangesFit
<1>23. KindsFit'
  BY <1>1, <1>k, <1>3, <1>8 DEF IndexInv, KindsFit
<1>24. LeftoversFit'
  <2>1. ASSUME NEW x \in Open', index'[x] # Nothing, NEW q \in Ancestors[x] \cap Open'
        PROVE  /\ KindAt(q) \in PrimKinds
               /\ KindAt(q) \in Instanceable =>
                      prototype[KindAt(q)] # 0 /\ source[KindAt(q)] = q
    <3>1. x \in Open /\ q \in Open /\ index[x] # Nothing
      BY <1>3, <1>6, <1>7, <2>1
    <3>. QED  BY <2>1, <3>1 DEF IndexInv, LeftoversFit
  <2>2. \A q \in Open' : KindAt(q)' = KindAt(q)
    BY <1>6, <1>7, <1>8
  <2>. QED  BY <1>1, <2>1, <2>2 DEF LeftoversFit
<1>25. ChildrenFit'
  <2>1. \A x \in ScenePaths : ChildrenOf(x, index[x])' = ChildrenOf(x, index'[x])
    BY <1>1 DEF ChildrenOf, Has
  <2>2. ASSUME NEW x \in ScenePaths \ Open', index'[x] \in PrimKinds,
               index'[x] \in Instanceable => SourceOf(index[x])' = x,
               NEW c \in ChildrenOf(x, index'[x])
        PROVE  c \in todo' \/ index'[c] # Nothing
    <3>1. CASE x = p
      <4>1. goesOn
        BY <1>3, <1>13, <2>2, <3>1
      <4>2. c \in C
        BY <1>3, <2>2, <3>1, <4>1 DEF C
      <4>. QED  BY <1>1, <4>2
    <3>2. CASE x # p
      <4>1. index'[x] = index[x] /\ index[x] # Nothing
        BY <1>3, <2>2, <3>2, KindsAre
      <4>2. x \notin Open
        BY <1>16, <2>2, <3>2, <4>1, KindsAre
      <4>3. index[x] \in Instanceable => SourceOf(index[x]) = x
        BY <1>11, <2>2, <3>2, <4>1
      <4>4. c \in todo \/ index[c] # Nothing
        BY <1>1, <2>2, <4>1, <4>2, <4>3 DEF IndexInv, ChildrenFit, PhasesFit
      <4>5. c \in ScenePaths
        BY <2>2 DEF ChildrenOf
      <4>. QED  BY <1>1, <1>2, <1>3, <4>4, <4>5
    <3>. QED  BY <3>1, <3>2
  <2>. QED  BY <2>1, <2>2 DEF ChildrenFit
<1>. QED  BY <1>6, <1>17, <1>18, <1>19, <1>20, <1>21, <1>22, <1>23, <1>24, <1>25 DEF IndexInv

-----------------------------------------------------------------------------
(* The order of paths: of some paths one comes first                       *)

PrecedesAt(p, q, i) ==
    /\ i \in 1 .. Len(p) /\ i \in 1 .. Len(q)
    /\ p[i] < q[i] /\ \A j \in 1 .. i - 1 : p[j] = q[j]

LEMMA PrecedesMeans ==
    ASSUME NEW p \in ScenePaths, NEW q \in ScenePaths
    PROVE  Precedes(p, q) <=>
               \/ Len(p) <= Len(q) /\ \A i \in 1 .. Len(p) : p[i] = q[i]
               \/ \E i \in Nat : PrecedesAt(p, q, i)
<1>1. /\ p \in Seq(Names) /\ q \in Seq(Names) /\ Len(p) \in Nat /\ Len(q) \in Nat
      /\ DOMAIN p = 1 .. Len(p) /\ DOMAIN q = 1 .. Len(q)
  BY PathsAreSeqs
<1>2. IsPrefix(p, q) <=> Len(p) <= Len(q) /\ \A i \in 1 .. Len(p) : p[i] = q[i]
  BY <1>1, SeqPrefixMeans
<1>3. (\E i \in DOMAIN p \cap DOMAIN q : p[i] < q[i] /\ \A j \in 1 .. i - 1 : p[j] = q[j])
          <=> \E i \in Nat : PrecedesAt(p, q, i)
  BY <1>1 DEF PrecedesAt
<1>. QED  BY <1>2, <1>3 DEF Precedes

LEMMA NamesAreNumbers ==
    ASSUME NEW p \in ScenePaths, NEW i \in 1 .. Len(p)
    PROVE  p[i] \in Nat
<1>1. p[i] \in Names
  BY PathsAreSeqs, ElementOfSeq
<1>. QED  BY <1>1, ContentAssumption

LEMMA PrecedesIsTotal ==
    ASSUME NEW p \in ScenePaths, NEW q \in ScenePaths
    PROVE  Precedes(p, p) /\ (Precedes(p, q) \/ Precedes(q, p))
<1>. DEFINE T == {i \in Nat : i \in 1 .. Len(p) /\ i \in 1 .. Len(q) /\ p[i] # q[i]}
<1>1. Len(p) \in Nat /\ Len(q) \in Nat
  BY PathsAreSeqs
<1>2. Precedes(p, p)
  BY <1>1, PrecedesMeans
<1>3. CASE T = {}
  <2>1. \A i \in 1 .. Len(p) : i \in 1 .. Len(q) => p[i] = q[i]
    BY <1>1, <1>3
  <2>2. CASE Len(p) <= Len(q)
    BY <1>1, <2>1, <2>2, PrecedesMeans
  <2>3. CASE Len(q) <= Len(p)
    BY <1>1, <2>1, <2>3, PrecedesMeans
  <2>. QED  BY <1>1, <2>2, <2>3
<1>4. CASE T # {}
  <2>1. T \subseteq Nat
    OBVIOUS
  <2>2. PICK i \in T : \A j \in T : i <= j
    <3>. HIDE DEF T
    <3>. QED  BY <1>4, <2>1, Least
  <2>3. i \in Nat /\ i \in 1 .. Len(p) /\ i \in 1 .. Len(q) /\ p[i] # q[i]
    OBVIOUS
  <2>4. \A j \in 1 .. i - 1 : p[j] = q[j]
    <3>. SUFFICES ASSUME NEW j \in 1 .. i - 1, p[j] # q[j] PROVE FALSE
      OBVIOUS
    <3>1. j \in T /\ ~(i <= j)
      BY <1>1, <2>3
    <3>. QED  BY <2>2, <3>1
  <2>5. p[i] < q[i] \/ q[i] < p[i]
    BY <2>3, NamesAreNumbers
  <2>6. PrecedesAt(p, q, i) \/ PrecedesAt(q, p, i)
    BY <2>3, <2>4, <2>5 DEF PrecedesAt
  <2>. QED  BY <2>3, <2>6, PrecedesMeans
<1>. QED  BY <1>2, <1>3, <1>4

LEMMA PrecedesIsTransitive ==
    ASSUME NEW a \in ScenePaths, NEW b \in ScenePaths, NEW c \in ScenePaths,
           Precedes(a, b), Precedes(b, c)
    PROVE  Precedes(a, c)
<1>. DEFINE Within(p, q) == Len(p) <= Len(q) /\ \A i \in 1 .. Len(p) : p[i] = q[i]
<1>1. Len(a) \in Nat /\ Len(b) \in Nat /\ Len(c) \in Nat
  BY PathsAreSeqs
<1>2. /\ \A i \in 1 .. Len(a) : a[i] \in Nat
      /\ \A i \in 1 .. Len(b) : b[i] \in Nat
      /\ \A i \in 1 .. Len(c) : c[i] \in Nat
  BY NamesAreNumbers
<1>3. Within(a, c) \/ (\E i \in Nat : PrecedesAt(a, c, i)) => Precedes(a, c)
  BY PrecedesMeans
<1>4. CASE Within(a, b) /\ Within(b, c)
  <2>1. Within(a, c)
    BY <1>1, <1>4
  <2>. QED  BY <1>3, <2>1
<1>5. ASSUME Within(a, b), NEW i \in Nat, PrecedesAt(b, c, i)  PROVE Precedes(a, c)
  <2>1. CASE i <= Len(a)
    <3>1. PrecedesAt(a, c, i)
      BY <1>1, <1>5, <2>1 DEF PrecedesAt
    <3>. QED  BY <1>3, <3>1
  <2>2. CASE Len(a) < i
    <3>1. Within(a, c)
      BY <1>1, <1>5, <2>2 DEF PrecedesAt
    <3>. QED  BY <1>3, <3>1
  <2>. QED  BY <1>1, <2>1, <2>2
<1>6. ASSUME NEW i \in Nat, PrecedesAt(a, b, i), Within(b, c)  PROVE Precedes(a, c)
  <2>1. PrecedesAt(a, c, i)
    BY <1>1, <1>6 DEF PrecedesAt
  <2>. QED  BY <1>3, <2>1
<1>7. ASSUME NEW i \in Nat, PrecedesAt(a, b, i), NEW m \in Nat, PrecedesAt(b, c, m)
      PROVE  Precedes(a, c)
  <2>1. CASE i < m
    <3>1. PrecedesAt(a, c, i)
      BY <1>1, <1>7, <2>1 DEF PrecedesAt
    <3>. QED  BY <1>3, <3>1
  <2>2. CASE i = m
    <3>1. a[i] < c[i]
      BY <1>2, <1>7, <2>2 DEF PrecedesAt
    <3>2. PrecedesAt(a, c, i)
      BY <1>1, <1>7, <2>2, <3>1 DEF PrecedesAt
    <3>. QED  BY <1>3, <3>2
  <2>3. CASE m < i
    <3>1. PrecedesAt(a, c, m)
      BY <1>1, <1>7, <2>3 DEF PrecedesAt
    <3>. QED  BY <1>3, <3>1
  <2>. QED  BY <2>1, <2>2, <2>3
<1>8. /\ Within(a, b) \/ \E i \in Nat : PrecedesAt(a, b, i)
      /\ Within(b, c) \/ \E i \in Nat : PrecedesAt(b, c, i)
  BY PrecedesMeans
<1>. HIDE DEF Within
<1>. QED  BY <1>4, <1>5, <1>6, <1>7, <1>8

LEMMA FirstMeans ==
    ASSUME NEW P \in SUBSET ScenePaths, P # {}
    PROVE  First(P) \in P
<1>. DEFINE D(p) == {r \in P : Precedes(r, p)}
            T == {Cardinality(D(p)) : p \in P}
<1>1. IsFiniteSet(P)
  BY ContentAssumption, FS_Subset
<1>2. \A p \in P : IsFiniteSet(D(p)) /\ Cardinality(D(p)) \in Nat
  <2>. TAKE p \in P
  <2>1. D(p) \in SUBSET P
    OBVIOUS
  <2>2. IsFiniteSet(D(p))
    BY <1>1, <2>1, FS_Subset
  <2>. QED  BY <2>2, FS_CardinalityType
<1>3. T \subseteq Nat /\ T # {}
  BY <1>2
<1>4. PICK i \in T : \A j \in T : i <= j
  <2>. HIDE DEF T
  <2>. QED  BY <1>3, Least
<1>5. PICK p \in P : \A q \in P : Cardinality(D(p)) <= Cardinality(D(q))
  BY <1>4
<1>6. ASSUME NEW q \in P  PROVE Precedes(p, q)
  <2>. SUFFICES ASSUME ~Precedes(p, q) PROVE FALSE
    OBVIOUS
  <2>1. p \in ScenePaths /\ q \in ScenePaths
    OBVIOUS
  <2>2. Precedes(q, p) /\ Precedes(p, p)
    BY <2>1, PrecedesIsTotal
  <2>3. D(q) \in SUBSET D(p)
    BY <2>1, <2>2, PrecedesIsTransitive
  <2>4. p \in D(p) /\ p \notin D(q)
    BY <2>2
  <2>5. /\ Cardinality(D(q)) <= Cardinality(D(p))
        /\ Cardinality(D(q)) = Cardinality(D(p)) => D(q) = D(p)
    BY <1>2, <2>3, FS_Subset
  <2>6. D(q) # D(p)
    BY <2>4
  <2>7. Cardinality(D(p)) <= Cardinality(D(q))
    BY <1>5
  <2>8. Cardinality(D(p)) \in Nat /\ Cardinality(D(q)) \in Nat
    BY <1>2
  <2>. HIDE DEF D
  <2>. QED  BY <2>5, <2>6, <2>7, <2>8
<1>. QED  BY <1>6 DEF First

-----------------------------------------------------------------------------
(* All have been computed: what the round changed is taken over            *)

(* Before that, the instances are those of the indexes, and only the source*)
(* of a key has anything below it.  Sources that go are no longer there.   *)
LEMMA AllComputed ==
    ASSUME IndexInv, phase = "compose", todo = {}
    PROVE  /\ Open = {}
           /\ \A p \in ScenePaths, k \in Instanceable : IsRegistered(p, k) <=> index[p] = k
           /\ \A p \in ScenePaths : index[p] # Nothing => WellPlaced(p)
           /\ \A k \in Instanceable :
                  /\ Added(k) \subseteq ScenePaths /\ Kept(k) \subseteq ScenePaths
                  /\ \A p \in Added(k) \cup Kept(k) : index[p] = k
                  /\ \A p \in Removed(k) : index[p] # k
                  /\ pendingAdded[k] # <<>> => Head(pendingAdded[k]) \in Added(k)
                  /\ pendingAdded[k] = <<>> <=> Added(k) = {}
                  /\ LosesSource(k) => source[k] \in ScenePaths /\ index[source[k]] # k
<1>1. Open = {}
  BY DEF Open, AtOrBelow
<1>2. \A p \in ScenePaths, k \in Instanceable : IsRegistered(p, k) <=> index[p] = k
  BY <1>1 DEF IndexInv, RegistrationFits
<1>3. \A p \in ScenePaths : index[p] # Nothing => WellPlaced(p)
  BY <1>1 DEF IndexInv, PlacesFit
<1>4. ASSUME NEW k \in Instanceable
      PROVE  /\ Added(k) \subseteq ScenePaths /\ Kept(k) \subseteq ScenePaths
             /\ \A p \in Added(k) \cup Kept(k) : index[p] = k
             /\ \A p \in Removed(k) : index[p] # k
             /\ pendingAdded[k] # <<>> => Head(pendingAdded[k]) \in Added(k)
             /\ pendingAdded[k] = <<>> <=> Added(k) = {}
             /\ LosesSource(k) => source[k] \in ScenePaths /\ index[source[k]] # k
  <2>. DEFINE s == pendingAdded[k]
  <2>1. s \in Seq(ScenePaths) /\ Len(s) \in Nat /\ DOMAIN s = 1 .. Len(s)
    BY DEF IndexInv, InstanceTyped
  <2>2. Added(k) = {s[i] : i \in 1 .. Len(s)}
    BY <2>1 DEF Added, ToSet
  <2>. HIDE DEF s
  <2>3. \A i \in 1 .. Len(s) : s[i] \in ScenePaths
    BY <2>1, ElementOfSeq
  <2>4. s # <<>> => 1 \in 1 .. Len(s) /\ Head(s) = s[1]
    BY <2>1, EmptySeq
  <2>5. s = <<>> => Len(s) = 0
    BY <2>1
  <2>6. Added(k) \subseteq ScenePaths
    BY <2>2, <2>3
  <2>7. (s # <<>> => Head(s) \in Added(k)) /\ (s = <<>> <=> Added(k) = {})
    <3>1. s # <<>> => Head(s) \in Added(k)
      BY <2>2, <2>4
    <3>2. s = <<>> => Added(k) = {}
      BY <2>1, <2>2, <2>5
    <3>. QED  BY <3>1, <3>2
  <2>8. /\ instances[k] = {p \in ScenePaths : instanceOf[p] = k}
        /\ pendingRemoved[k] \subseteq instances[k]
    BY DEF IndexInv, MapsFit
  <2>9. Kept(k) \subseteq ScenePaths /\ Removed(k) \subseteq ScenePaths
    BY <2>8 DEF Kept, Removed
  <2>10. \A p \in Added(k) \cup Kept(k) : IsRegistered(p, k)
    BY <2>8 DEF IsRegistered, Kept, Removed
  <2>11. \A p \in Removed(k) : ~IsRegistered(p, k)
    BY DEF IsRegistered, Removed
  <2>12. \A p \in Removed(k) : index[p] # k
    BY <1>2, <2>9, <2>11
  <2>13. LosesSource(k) => source[k] \in Removed(k)
    BY DEF LosesSource
  <2>. QED  BY <1>2, <2>6, <2>7, <2>9, <2>10, <2>12, <2>13 DEF s
<1>. QED  BY <1>1, <1>2, <1>3, <1>4

Started == Moved \cup Revived

LEMMA ProcessMeans ==
    ASSUME IndexInv, ProcessChanges
    PROVE  /\ phase = "compose" /\ todo = {}
           /\ UNCHANGED <<kids, didChangeSignificantly, didChangePrims>>
           /\ prototype' = [k \in Instanceable |->
                  IF k \in Created THEN last + 1 ELSE IF k \in Emptied THEN 0 ELSE prototype[k]]
           /\ last' = IF Created = {} THEN last ELSE last + 1
           /\ source' = [k \in Instanceable |->
                  IF k \in Created \cup Revived THEN Head(pendingAdded[k])
                  ELSE IF k \in Moved THEN First(Kept(k))
                  ELSE IF LosesSource(k) THEN Nothing ELSE source[k]]
           /\ instances' = [k \in Instanceable |-> Kept(k) \cup Added(k)]
           /\ instanceOf' = [p \in ScenePaths |->
                  IF \E k \in Instanceable : p \in Added(k)
                  THEN CHOOSE k \in Instanceable : p \in Added(k)
                  ELSE IF \E k \in Instanceable : p \in Removed(k) \cap instances[k]
                  THEN Nothing ELSE instanceOf[p]]
           /\ pendingAdded' = [k \in Instanceable |-> <<>>]
           /\ pendingRemoved' = [k \in Instanceable |-> {}]
           /\ roots' = {source'[k] : k \in Started} /\ todo' = roots'
           /\ index' = WithAncestors(roots', index)
           /\ phase' = IF Started = {} THEN "stage" ELSE "compose"
BY DEF ProcessChanges, Started, sceneVars

(* The new sources.                                                        *)
LEMMA NewSources ==
    ASSUME IndexInv, ProcessChanges
    PROVE  /\ source' \in [Instanceable -> ScenePaths \cup {Nothing}]
           /\ \A k \in Instanceable :
                  /\ instances'[k] = Kept(k) \cup Added(k)
                  /\ prototype'[k] \in Nat
                  /\ IF prototype'[k] = 0
                     THEN instances'[k] = {} /\ source'[k] = Nothing
                     ELSE source'[k] \in instances'[k]
           /\ \A k \in Started :
                  /\ k \in Instanceable /\ prototype'[k] # 0
                  /\ source'[k] \in ScenePaths /\ index[source'[k]] = k
                  /\ prototype[k] # 0
                  /\ source[k] = Nothing \/ index[source[k]] # k
           /\ \A p \in ScenePaths, k \in Instanceable :
                  index[p] = k /\ SourceOf(k) = p =>
                      k \notin Started /\ prototype'[k] # 0 /\ source'[k] = p
<1>1. /\ phase = "compose" /\ todo = {}
      /\ \A k \in Instanceable :
             /\ instances'[k] = Kept(k) \cup Added(k)
             /\ prototype'[k] = IF k \in Created THEN last + 1
                                ELSE IF k \in Emptied THEN 0 ELSE prototype[k]
             /\ source'[k] = IF k \in Created \cup Revived THEN Head(pendingAdded[k])
                             ELSE IF k \in Moved THEN First(Kept(k))
                             ELSE IF LosesSource(k) THEN Nothing ELSE source[k]
  BY ProcessMeans
<1>2. \A k \in Instanceable :
          /\ Added(k) \subseteq ScenePaths /\ Kept(k) \subseteq ScenePaths
          /\ \A p \in Added(k) \cup Kept(k) : index[p] = k
          /\ pendingAdded[k] # <<>> => Head(pendingAdded[k]) \in Added(k)
          /\ pendingAdded[k] = <<>> <=> Added(k) = {}
          /\ LosesSource(k) => source[k] \in ScenePaths /\ index[source[k]] # k
  BY <1>1, AllComputed
<1>3. /\ last \in Nat
      /\ \A k \in Instanceable :
             /\ prototype[k] \in Nat /\ source[k] \in ScenePaths \cup {Nothing}
             /\ instances[k] \subseteq ScenePaths
             /\ IF prototype[k] = 0 THEN instances[k] = {} /\ source[k] = Nothing
                                    ELSE source[k] \in instances[k]
  BY DEF IndexInv, InstanceTyped, MapsFit
<1>4. \A k \in Instanceable : Kept(k) # {} => First(Kept(k)) \in Kept(k)
  BY <1>2, FirstMeans
<1>5. ASSUME NEW k \in Instanceable
      PROVE  /\ prototype'[k] \in Nat
             /\ IF prototype'[k] = 0
                THEN instances'[k] = {} /\ source'[k] = Nothing
                ELSE source'[k] \in instances'[k]
  <2>1. CASE k \in Created
    <3>1. Added(k) # {} /\ prototype'[k] = last + 1 /\ source'[k] = Head(pendingAdded[k])
      BY <1>1, <2>1 DEF Created
    <3>2. source'[k] \in Added(k)
      BY <1>2, <3>1
    <3>. QED  BY <1>1, <1>3, <3>1, <3>2
  <2>2. CASE k \in Revived
    <3>1. Added(k) # {} /\ prototype[k] # 0 /\ source'[k] = Head(pendingAdded[k])
      BY <1>1, <2>2 DEF Revived
    <3>2. prototype'[k] = prototype[k]
      BY <1>1, <3>1 DEF Created, Emptied
    <3>3. source'[k] \in Added(k)
      BY <1>2, <3>1
    <3>. QED  BY <1>1, <1>3, <3>1, <3>2, <3>3
  <2>3. CASE k \in Moved /\ k \notin Created \cup Revived
    <3>1. Kept(k) # {} /\ prototype[k] # 0 /\ source'[k] = First(Kept(k))
      BY <1>1, <2>3 DEF Moved, LosesSource
    <3>2. prototype'[k] = prototype[k]
      BY <1>1, <3>1 DEF Created, Emptied
    <3>. QED  BY <1>1, <1>3, <1>4, <3>1, <3>2
  <2>4. CASE k \notin Created \cup Revived \cup Moved
    <3>1. source'[k] = IF LosesSource(k) THEN Nothing ELSE source[k]
      BY <1>1, <2>4
    <3>2. CASE prototype[k] = 0
      <4>1. Added(k) = {} /\ Kept(k) = {} /\ ~LosesSource(k) /\ prototype'[k] = 0
        BY <1>1, <1>3, <2>4, <3>2 DEF Created, Kept, LosesSource, Emptied
      <4>. QED  BY <1>1, <1>3, <3>1, <3>2, <4>1
    <3>3. CASE prototype[k] # 0 /\ LosesSource(k)
      <4>1. Kept(k) = {} /\ Added(k) = {} /\ pendingRemoved[k] # {}
        BY <2>4, <3>3 DEF Moved, Revived, LosesSource, Removed
      <4>2. k \in Emptied
        BY <3>3, <4>1 DEF Emptied
      <4>. QED  BY <1>1, <2>4, <3>1, <3>3, <4>1, <4>2
    <3>4. CASE prototype[k] # 0 /\ ~LosesSource(k)
      <4>1. source[k] \in Kept(k)
        BY <1>3, <3>4 DEF LosesSource, Kept
      <4>2. k \notin Emptied
        BY <4>1 DEF Emptied
      <4>. QED  BY <1>1, <1>3, <2>4, <3>1, <3>4, <4>1, <4>2
    <3>. QED  BY <3>2, <3>3, <3>4
  <2>. QED  BY <2>1, <2>2, <2>3, <2>4
<1>6. source' \in [Instanceable -> ScenePaths \cup {Nothing}]
  <2>1. source' = [k \in Instanceable |-> source'[k]]
    BY ProcessMeans
  <2>2. \A k \in Instanceable : source'[k] \in ScenePaths \cup {Nothing}
    BY <1>1, <1>2, <1>5
  <2>. QED  BY <2>1, <2>2
<1>7. ASSUME NEW k \in Started
      PROVE  /\ k \in Instanceable /\ prototype'[k] # 0
             /\ source'[k] \in ScenePaths /\ index[source'[k]] = k
             /\ prototype[k] # 0
             /\ source[k] = Nothing \/ index[source[k]] # k
  <2>1. k \in Instanceable /\ prototype[k] # 0 /\ Kept(k) \cup Added(k) # {}
    BY DEF Started, Moved, Revived, LosesSource
  <2>2. prototype'[k] # 0
    BY <1>1, <2>1 DEF Created, Emptied
  <2>3. source'[k] \in Kept(k) \cup Added(k)
    BY <1>1, <1>5, <2>1, <2>2
  <2>4. source[k] = Nothing \/ LosesSource(k)
    BY DEF Started, Moved, Revived
  <2>. QED  BY <1>2, <2>1, <2>2, <2>3, <2>4
<1>8. ASSUME NEW p \in ScenePaths, NEW k \in Instanceable, index[p] = k, SourceOf(k) = p
      PROVE  k \notin Started /\ prototype'[k] # 0 /\ source'[k] = p
  <2>1. p # Nothing
    BY KindsAre
  <2>2. CASE prototype[k] = 0
    <3>1. Added(k) # {} /\ p = Head(pendingAdded[k])
      BY <1>2, <1>8, <2>1, <2>2 DEF SourceOf
    <3>2. k \in Created
      BY <2>2, <3>1 DEF Created
    <3>. QED  BY <1>1, <1>3, <1>7, <2>2, <3>1, <3>2
  <2>3. CASE prototype[k] # 0
    <3>1. source[k] = p
      BY <1>8, <2>3 DEF SourceOf
    <3>2. ~LosesSource(k) /\ k \notin Started
      BY <1>2, <1>7, <1>8, <2>1, <3>1
    <3>3. source'[k] = p
      BY <1>1, <2>3, <3>1, <3>2 DEF Created, Started
    <3>. QED  BY <1>5, <2>1, <3>2, <3>3
  <2>. QED  BY <2>2, <2>3
<1>. QED  BY <1>1, <1>5, <1>6, <1>7, <1>8

(* The maps from instances to prototypes and back agree again.             *)
LEMMA NewInstances ==
    ASSUME IndexInv, ProcessChanges
    PROVE  /\ instanceOf' \in [ScenePaths -> Instanceable \cup {Nothing}]
           /\ \A p \in ScenePaths, k \in Instanceable :
                  /\ instanceOf'[p] = k <=> index[p] = k
                  /\ p \in instances'[k] <=> index[p] = k
<1>1. /\ phase = "compose" /\ todo = {}
      /\ instanceOf' = [p \in ScenePaths |->
             IF \E k \in Instanceable : p \in Added(k)
             THEN CHOOSE k \in Instanceable : p \in Added(k)
             ELSE IF \E k \in Instanceable : p \in Removed(k) \cap instances[k]
             THEN Nothing ELSE instanceOf[p]]
      /\ \A k \in Instanceable : instances'[k] = Kept(k) \cup Added(k)
  BY ProcessMeans
<1>2. \A p \in ScenePaths, k \in Instanceable : IsRegistered(p, k) <=> index[p] = k
  BY <1>1, AllComputed
<1>3. \A k \in Instanceable :
          /\ Added(k) \subseteq ScenePaths /\ Kept(k) \subseteq ScenePaths
          /\ \A p \in Added(k) \cup Kept(k) : index[p] = k
          /\ \A p \in Removed(k) : index[p] # k
  BY <1>1, AllComputed
<1>4. /\ instanceOf \in [ScenePaths -> Instanceable \cup {Nothing}]
      /\ \A k \in Instanceable :
             /\ instances[k] = {p \in ScenePaths : instanceOf[p] = k}
             /\ pendingRemoved[k] \subseteq instances[k]
  BY DEF IndexInv, InstanceTyped, MapsFit
<1>5. ASSUME NEW p \in ScenePaths, NEW k \in Instanceable
      PROVE  p \in instances'[k] <=> index[p] = k
  <2>1. p \in Kept(k) \cup Added(k) => index[p] = k
    BY <1>3
  <2>2. IsRegistered(p, k) => p \in Kept(k) \cup Added(k)
    BY <1>4 DEF IsRegistered, Kept, Removed
  <2>. QED  BY <1>1, <1>2, <2>1, <2>2
<1>6. ASSUME NEW p \in ScenePaths
      PROVE  /\ instanceOf'[p] \in Instanceable \cup {Nothing}
             /\ \A k \in Instanceable : instanceOf'[p] = k <=> index[p] = k
  <2>1. CASE \E k \in Instanceable : p \in Added(k)
    <3>1. PICK k \in Instanceable : instanceOf'[p] = k /\ p \in Added(k)
      BY <1>1, <2>1
    <3>2. index[p] = k
      BY <1>3, <3>1
    <3>. QED  BY <3>1, <3>2
  <2>2. CASE (~\E k \in Instanceable : p \in Added(k))
                 /\ \E k \in Instanceable : p \in Removed(k) \cap instances[k]
    <3>1. instanceOf'[p] = Nothing
      BY <1>1, <2>2
    <3>2. PICK j \in Instanceable : p \in Removed(j) \cap instances[j]
      BY <2>2
    <3>3. instanceOf[p] = j /\ index[p] # j
      BY <1>3, <1>4, <3>2
    <3>4. \A k \in Instanceable : ~IsRegistered(p, k) \/ k = j
      BY <2>2, <3>3 DEF IsRegistered
    <3>. QED  BY <1>2, <3>1, <3>3, <3>4, KindsAre
  <2>3. CASE (~\E k \in Instanceable : p \in Added(k))
                 /\ ~\E k \in Instanceable : p \in Removed(k) \cap instances[k]
    <3>1. instanceOf'[p] = instanceOf[p]
      BY <1>1, <2>3
    <3>2. ASSUME NEW k \in Instanceable  PROVE IsRegistered(p, k) <=> instanceOf[p] = k
      <4>1. p \notin Added(k) /\ p \notin Removed(k) \cap instances[k]
        BY <2>3
      <4>. QED  BY <1>4, <4>1 DEF IsRegistered, Removed
    <3>. QED  BY <1>2, <1>4, <3>1, <3>2
  <2>. QED  BY <2>1, <2>2, <2>3
<1>7. instanceOf' = [p \in ScenePaths |-> instanceOf'[p]]
  BY <1>1
<1>. QED  BY <1>5, <1>6, <1>7

(* No new source is below another one: what is above it are the sources of *)
(* keys that keep theirs.                                                  *)
LEMMA ProcessChangesKeeps ==
    ASSUME IndexInv, ProcessChanges
    PROVE  IndexInv'
<1>1. /\ phase = "compose" /\ todo = {}
      /\ UNCHANGED <<kids, didChangeSignificantly, didChangePrims>>
      /\ pendingAdded' = [k \in Instanceable |-> <<>>]
      /\ pendingRemoved' = [k \in Instanceable |-> {}]
      /\ roots' = {source'[k] : k \in Started} /\ todo' = roots'
      /\ index' = WithAncestors(roots', index)
      /\ phase' = IF Started = {} THEN "stage" ELSE "compose"
  BY ProcessMeans
<1>2. /\ \A p \in ScenePaths, k \in Instanceable : IsRegistered(p, k) <=> index[p] = k
      /\ \A p \in ScenePaths : index[p] # Nothing => WellPlaced(p)
      /\ Open = {}
  BY <1>1, AllComputed
<1>3. /\ source' \in [Instanceable -> ScenePaths \cup {Nothing}]
      /\ \A k \in Instanceable :
             /\ prototype'[k] \in Nat
             /\ IF prototype'[k] = 0
                THEN instances'[k] = {} /\ source'[k] = Nothing
                ELSE source'[k] \in instances'[k]
      /\ \A k \in Started :
             /\ k \in Instanceable /\ prototype'[k] # 0
             /\ source'[k] \in ScenePaths /\ index[source'[k]] = k
      /\ \A p \in ScenePaths, k \in Instanceable :
             index[p] = k /\ SourceOf(k) = p =>
                 k \notin Started /\ prototype'[k] # 0 /\ source'[k] = p
  BY NewSources
<1>4. /\ instanceOf' \in [ScenePaths -> Instanceable \cup {Nothing}]
      /\ \A p \in ScenePaths, k \in Instanceable :
             /\ instanceOf'[p] = k <=> index[p] = k
             /\ p \in instances'[k] <=> index[p] = k
  BY NewInstances
<1>5. \A r \in roots' : \E k \in Started : r = source'[k] /\ r \in ScenePaths /\ index[r] = k
  BY <1>1, <1>3
<1>6. ASSUME NEW p \in ScenePaths, index[p] # Nothing, NEW q \in Ancestors[p], q \in roots'
      PROVE  FALSE
  <2>1. PICK k \in Started : q = source'[k] /\ q \in ScenePaths /\ index[q] = k
    BY <1>5, <1>6
  <2>2. SourceOf(k) = q
    BY <1>2, <1>3, <1>6, <2>1 DEF WellPlaced
  <2>. QED  BY <1>3, <2>1, <2>2
<1>7. index' = index
  <2>1. ASSUME NEW p \in ScenePaths, index[p] = Nothing, NEW q \in roots', p \in Ancestors[q]
        PROVE  FALSE
    <3>1. q \in ScenePaths /\ index[q] # Nothing
      BY <1>3, <1>5, KindsAre
    <3>2. index[p] \in PrimKinds
      BY <1>2, <2>1, <3>1 DEF WellPlaced
    <3>. QED  BY <2>1, <3>2, KindsAre
  <2>2. index' = [p \in ScenePaths |-> index[p]]
    BY <1>1, <2>1 DEF WithAncestors
  <2>. QED  BY <2>2 DEF IndexInv, InstanceTyped
<1>8. /\ Open' \subseteq ScenePaths
      /\ \A x \in ScenePaths : x \in Open' <=> \E r \in roots' : r = x \/ r \in Ancestors[x]
  <2>1. Open' = AtOrBelow(roots')
    BY <1>1 DEF Open, AtOrBelow
  <2>2. Open' \subseteq ScenePaths
    BY <2>1 DEF AtOrBelow
  <2>. QED  BY <2>1, <2>2, UnderMeans
<1>9. \A x \in Open' : index[x] # Nothing => x \in roots'
  BY <1>6, <1>8
<1>10. \A k \in Instanceable :
           /\ pendingAdded'[k] = <<>> /\ pendingRemoved'[k] = {} /\ Added(k)' = {}
           /\ SourceOf(k)' = source'[k]
  <2>1. \A k \in Instanceable :
            pendingAdded'[k] = <<>> /\ pendingRemoved'[k] = {} /\ Added(k)' = {}
    BY <1>1 DEF Added, ToSet
  <2>. QED  BY <1>3, <2>1 DEF SourceOf
<1>11. \A p \in ScenePaths, k \in Instanceable : IsRegistered(p, k)' <=> index[p] = k
  BY <1>4, <1>10 DEF IsRegistered
<1>12. ASSUME NEW x \in ScenePaths, WellPlaced(x)  PROVE WellPlaced(x)'
  <2>1. ASSUME NEW q \in Ancestors[x], index[q] \in Instanceable
        PROVE  SourceOf(index[q])' = q
    <3>1. q \in ScenePaths /\ SourceOf(index[q]) = q
      BY <1>12, <2>1, AncestorsOrder DEF WellPlaced
    <3>2. SourceOf(index[q])' = source'[index[q]]
      BY <1>7, <1>10, <2>1
    <3>. QED  BY <1>3, <2>1, <3>1, <3>2
  <2>. QED  BY <1>7, <1>12, <2>1 DEF WellPlaced
<1>13. InstanceTyped'
  <2>1. /\ prototype' \in [Instanceable -> Nat] /\ last' \in Nat
    <3>1. prototype' = [k \in Instanceable |-> prototype'[k]]
      BY ProcessMeans
    <3>2. last' \in Nat
      BY ProcessMeans DEF IndexInv, InstanceTyped
    <3>. QED  BY <1>3, <3>1, <3>2
  <2>2. instances' \in [Instanceable -> SUBSET ScenePaths]
    <3>1. instances' = [k \in Instanceable |-> Kept(k) \cup Added(k)]
      BY ProcessMeans
    <3>2. \A k \in Instanceable : Kept(k) \cup Added(k) \in SUBSET ScenePaths
      BY <1>1, AllComputed
    <3>. QED  BY <3>1, <3>2
  <2>3. /\ pendingAdded' \in [Instanceable -> Seq(ScenePaths)]
        /\ pendingRemoved' \in [Instanceable -> SUBSET ScenePaths]
    BY <1>1, EmptySeq
  <2>4. roots' \subseteq ScenePaths /\ todo' \subseteq ScenePaths
    BY <1>1, <1>5
  <2>. QED  BY <1>1, <1>3, <1>4, <1>7, <2>1, <2>2, <2>3, <2>4 DEF IndexInv, InstanceTyped
<1>14. PhasesFit'
  <2>1. Started = {} => todo' = {}
    BY <1>1
  <2>. QED  BY <1>1, <1>10, <2>1 DEF IndexInv, PhasesFit
<1>15. MapsFit'
  <2>1. \A k \in Instanceable : instances'[k] = {p \in ScenePaths : instanceOf'[p] = k}
    <3>1. \A k \in Instanceable : instances'[k] \subseteq ScenePaths
      BY <1>13 DEF InstanceTyped
    <3>. QED  BY <1>4, <3>1
  <2>. QED  BY <1>3, <1>10, <2>1 DEF MapsFit
<1>16. RegistrationFits'
  <2>1. ASSUME NEW p \in Open', NEW k \in Instanceable, index[p] = k
        PROVE  p \in todo' /\ prototype'[k] # 0 /\ source'[k] = p
    <3>1. p \in roots'
      BY <1>9, <2>1, KindsAre
    <3>. QED  BY <1>1, <1>3, <1>5, <2>1, <3>1
  <2>. QED  BY <1>7, <1>8, <1>11, <2>1 DEF RegistrationFits
<1>17. PlacesFit'
  <2>1. \A p \in todo' : p \in ScenePaths /\ index[p] # Nothing
    BY <1>1, <1>3, <1>5, KindsAre
  <2>. QED  BY <1>2, <1>7, <1>12, <2>1 DEF PlacesFit
<1>18. TodoApart'
  <2>1. \A p \in todo' : p \in ScenePaths /\ index[p] # Nothing
    BY <1>1, <1>3, <1>5, KindsAre
  <2>. QED  BY <1>1, <1>6, <2>1 DEF TodoApart
<1>19. ChangesFit'
  BY <1>1 DEF IndexInv, PhasesFit, ChangesFit
<1>20. KindsFit'
  <2>1. \A x \in ScenePaths : KindAt(x)' = KindAt(x)
    BY <1>1 DEF KindAt, ChildKind, Has
  <2>. QED  BY <1>1, <1>7, <2>1 DEF IndexInv, KindsFit
<1>21. LeftoversFit'
  <2>1. ASSUME NEW p \in Open', index[p] # Nothing, NEW q \in Ancestors[p] \cap Open'
        PROVE  FALSE
    <3>1. p \in ScenePaths /\ q \in ScenePaths
      BY <1>8
    <3>2. PICK r \in roots' : r = q \/ r \in Ancestors[q]
      BY <1>8, <3>1
    <3>3. r \in Ancestors[p]
      BY <2>1, <3>1, <3>2, AncestorsOrder
    <3>. QED  BY <1>6, <2>1, <3>1, <3>3
  <2>. QED  BY <1>7, <2>1 DEF LeftoversFit
<1>22. ChildrenFit'
  <2>1. \A x \in ScenePaths : ChildrenOf(x, index[x])' = ChildrenOf(x, index[x])
    BY <1>1, <1>7 DEF ChildrenOf, Has
  <2>2. ASSUME NEW x \in ScenePaths \ Open', index[x] \in PrimKinds,
               index[x] \in Instanceable => source'[index[x]] = x
        PROVE  index[x] \in Instanceable => SourceOf(index[x]) = x
    <3>. SUFFICES ASSUME index[x] \in Instanceable, SourceOf(index[x]) # x PROVE FALSE
      OBVIOUS
    <3>1. index[x] \notin Started
      BY <1>1, <1>8, <2>2
    <3>2. source'[index[x]] = IF index[x] \in Created THEN Head(pendingAdded[index[x]])
                              ELSE IF LosesSource(index[x]) THEN Nothing
                              ELSE source[index[x]]
      BY <3>1, ProcessMeans DEF Started
    <3>3. x # Nothing
      BY KindsAre
    <3>4. index[x] \in Created =>
              prototype[index[x]] = 0 /\ pendingAdded[index[x]] # <<>>
      BY <1>1, AllComputed DEF Created
    <3>5. prototype[index[x]] = 0 => source[index[x]] = Nothing
      BY DEF IndexInv, MapsFit
    <3>. QED  BY <2>2, <3>2, <3>3, <3>4, <3>5 DEF SourceOf
  <2>3. ASSUME NEW x \in ScenePaths \ Open', index[x] \in PrimKinds,
               index[x] \in Instanceable => source'[index[x]] = x,
               NEW c \in ChildrenOf(x, index[x]) \ didChangeSignificantly
        PROVE  index[c] # Nothing
    BY <1>1, <1>2, <2>2, <2>3 DEF IndexInv, ChildrenFit
  <2>4. \A x \in ScenePaths : index[x] \in Instanceable => SourceOf(index[x])' = source'[index[x]]
    BY <1>7, <1>10
  <2>. QED  BY <1>1, <1>7, <2>1, <2>3, <2>4 DEF ChildrenFit
<1>. QED  BY <1>13, <1>14, <1>15, <1>16, <1>17, <1>18, <1>19, <1>20, <1>21, <1>22 DEF IndexInv

-----------------------------------------------------------------------------
(* The other steps, and the theorems                                       *)

RoundInv == IndexInv /\ RootsDisjoint

LEMMA RecomposePrimsKeeps ==
    ASSUME IndexInv, RecomposePrims
    PROVE  IndexInv'
<1>1. /\ phase = "stage" /\ phase' = "idle" /\ roots' = {}
      /\ UNCHANGED <<kids, didChangeSignificantly, didChangePrims, index, prototype, last,
                     source, instances, instanceOf, pendingAdded, pendingRemoved, todo>>
  BY DEF RecomposePrims, sceneVars, mapVars, pendingVars
<1>2. \A p \in ScenePaths : index[p] # Nothing => WellPlaced(p) /\ index[p] = KindAt(p)
  BY <1>1, AtRest DEF IndexInv, KindsFit
<1>3. InstanceTyped'
  BY <1>1 DEF IndexInv, InstanceTyped
<1>4. PhasesFit' /\ ChangesFit'
  BY <1>1 DEF IndexInv, PhasesFit, ChangesFit
<1>5. MapsFit'
  BY <1>1 DEF IndexInv, MapsFit
<1>6. RegistrationFits'
  BY <1>1 DEF IndexInv, RegistrationFits, Open, AtOrBelow, IsRegistered, Added
<1>7. PlacesFit' /\ TodoApart'
  BY <1>1 DEF IndexInv, PlacesFit, TodoApart, Open, AtOrBelow, WellPlaced, SourceOf
<1>8. KindsFit'
  <2>1. index[PseudoRoot] \in {StageKind, Nothing}
    BY <1>2, KindStep, KindsAre
  <2>2. ASSUME NEW p \in ScenePaths, NEW n \in Names, Append(p, n) \in ScenePaths,
               index[Append(p, n)] # Nothing
        PROVE  index[Append(p, n)] = ChildKind(index[p], n)
    <3>. DEFINE c == Append(p, n)
    <3>1. c \in ScenePaths \ {PseudoRoot} /\ Parent(c) = p /\ c[Len(c)] = n
      BY <2>2, ChildMeans
    <3>2. KindAt(c) = ChildKind(KindAt(p), n) /\ p \in Ancestors[c]
      BY <3>1, KindStep, ParentMeans
    <3>. HIDE DEF c
    <3>3. WellPlaced(c) /\ index[c] = KindAt(c)
      BY <1>2, <2>2, <3>1 DEF c
    <3>4. index[p] = KindAt(p)
      BY <1>2, <3>2, <3>3, KindsAre DEF WellPlaced
    <3>. QED  BY <3>2, <3>3, <3>4 DEF c
  <2>3. ASSUME NEW p \in ScenePaths, NEW q \in Ancestors[p], index[p] \in Instanceable
        PROVE  index[q] # index[p]
    <3>1. q \in ScenePaths /\ WellPlaced(p) /\ index[p] = KindAt(p) /\ KindAt(p) \in PrimKinds
      BY <1>2, <2>3, AncestorsOrder, KindsAre
    <3>2. index[q] = KindAt(q)
      BY <1>2, <2>3, <3>1, KindsAre DEF WellPlaced
    <3>. QED  BY <3>1, <3>2, KindsApart DEF IndexInv
  <2>4. \A p \in ScenePaths, n \in Names : ChildKind(index[p], n)' = ChildKind(index[p], n)
    BY <1>1 DEF ChildKind, Has
  <2>. QED  BY <1>1, <2>1, <2>2, <2>3, <2>4 DEF KindsFit
<1>9. LeftoversFit'
  BY <1>1, AtRest DEF LeftoversFit, Open, AtOrBelow
<1>10. ChildrenFit'
  BY <1>1 DEF IndexInv, ChildrenFit, Open, AtOrBelow, SourceOf, ChildrenOf, Has
<1>. QED  BY <1>3, <1>4, <1>5, <1>6, <1>7, <1>8, <1>9, <1>10 DEF IndexInv

LEMMA EditKeeps ==
    ASSUME IndexInv, NEW k \in PrimKinds, NEW n \in Names,
           NEW to \in PrimKinds \cup {Absent}, Edit(k, n, to)
    PROVE  IndexInv'
<1>1. /\ phase = "idle"
      /\ kids' = [kids EXCEPT ![k] = [kids[k] EXCEPT ![n] = to]]
      /\ [kids[k] EXCEPT ![n] = to] \in Contents[k]
      /\ didChangeSignificantly' = didChangeSignificantly \cup Sites(k, n)
      /\ UNCHANGED <<didChangePrims, index, prototype, last, source, instances, instanceOf,
                     pendingAdded, pendingRemoved, roots, todo, phase>>
  BY DEF Edit, MayEdit, mapVars, pendingVars, composeVars
<1>2. /\ kids' \in [PrimKinds -> [Names -> PrimKinds \cup {Absent}]]
      /\ \A j \in PrimKinds : kids'[j] \in Contents[j]
      /\ \A j \in PrimKinds, m \in Names : j # k \/ m # n => kids'[j][m] = kids[j][m]
  BY <1>1 DEF IndexInv, InstanceTyped
<1>3. \A c \in Sites(k, n) : c \in ScenePaths /\ \E p \in ScenePaths : index[p] = k /\ c = Append(p, n)
  BY DEF Sites
<1>4. \A p \in ScenePaths : index[p] = k /\ Append(p, n) \in ScenePaths => Append(p, n) \in Sites(k, n)
  BY DEF Sites
<1>5. Open = {} /\ todo = {}
  BY <1>1, AtRest
<1>6. InstanceTyped'
  BY <1>1, <1>2, <1>3 DEF IndexInv, InstanceTyped
<1>7. PhasesFit'
  BY <1>1 DEF IndexInv, PhasesFit
<1>8. MapsFit'
  BY <1>1 DEF IndexInv, MapsFit
<1>9. RegistrationFits'
  BY <1>1 DEF IndexInv, RegistrationFits, Open, AtOrBelow, IsRegistered, Added
<1>10. PlacesFit' /\ TodoApart'
  BY <1>1 DEF IndexInv, PlacesFit, TodoApart, Open, AtOrBelow, WellPlaced, SourceOf
<1>11. ChangesFit'
  <2>1. ASSUME NEW c \in Sites(k, n)  PROVE index[Parent(c)] \in PrimKinds
    <3>1. PICK p \in ScenePaths : index[p] = k /\ c = Append(p, n) /\ c \in ScenePaths
      BY <1>3
    <3>2. Parent(c) = p
      BY <3>1, ChildMeans
    <3>. QED  BY <3>1, <3>2
  <2>. QED  BY <1>1, <2>1 DEF IndexInv, ChangesFit
<1>12. ASSUME NEW p \in ScenePaths, NEW m \in Names,
              Append(p, m) \in ScenePaths \ didChangeSignificantly'
       PROVE  /\ ChildKind(index[p], m)' = ChildKind(index[p], m)
              /\ Has(index[p], m)' <=> Has(index[p], m)
  <2>1. index[p] # k \/ m # n
    BY <1>1, <1>4, <1>12
  <2>2. index' = index /\ (index[p] \in PrimKinds => kids'[index[p]][m] = kids[index[p]][m])
    BY <1>1, <1>2, <2>1
  <2>. QED  BY <2>2 DEF ChildKind, Has
<1>13. KindsFit'
  <2>1. ASSUME NEW p \in ScenePaths, NEW m \in Names,
               Append(p, m) \in ScenePaths \ didChangeSignificantly', index[Append(p, m)] # Nothing
        PROVE  index[Append(p, m)] = ChildKind(index[p], m)'
    BY <1>1, <1>12, <2>1 DEF IndexInv, KindsFit
  <2>. QED  BY <1>1, <2>1 DEF IndexInv, KindsFit
<1>14. LeftoversFit'
  BY <1>1, <1>5 DEF LeftoversFit, Open, AtOrBelow
<1>15. ChildrenFit'
  <2>1. ASSUME NEW p \in ScenePaths,
               NEW c \in ChildrenOf(p, index[p])' \ didChangeSignificantly'
        PROVE  c \in ChildrenOf(p, index[p]) \ didChangeSignificantly
    <3>1. PICK m \in Names : c = Append(p, m) /\ Has(index[p], m)' /\ c \in ScenePaths
      BY <2>1 DEF ChildrenOf
    <3>2. Has(index[p], m)
      BY <1>12, <2>1, <3>1
    <3>. QED  BY <1>1, <2>1, <3>1, <3>2 DEF ChildrenOf
  <2>2. \A p \in ScenePaths : index[p] \in Instanceable => SourceOf(index[p])' = SourceOf(index[p])
    BY <1>1 DEF SourceOf
  <2>3. Open' = {}
    BY <1>1, <1>5 DEF Open, AtOrBelow
  <2>. QED  BY <1>1, <1>5, <2>1, <2>2, <2>3 DEF IndexInv, ChildrenFit
<1>. QED  BY <1>6, <1>7, <1>8, <1>9, <1>10, <1>11, <1>13, <1>14, <1>15 DEF IndexInv

LEMMA TouchKeeps ==
    ASSUME IndexInv, NEW k \in PrimKinds, NEW n \in Names, Touch(k, n)
    PROVE  IndexInv'
<1>1. /\ phase = "idle"
      /\ didChangePrims' = didChangePrims \cup {p \in Sites(k, n) : index[p] # Nothing}
      /\ UNCHANGED <<kids, didChangeSignificantly, index, prototype, last, source, instances,
                     instanceOf, pendingAdded, pendingRemoved, roots, todo, phase>>
  BY DEF Touch, MayEdit, mapVars, pendingVars, composeVars
<1>2. Sites(k, n) \subseteq ScenePaths
  BY DEF Sites
<1>3. InstanceTyped'
  BY <1>1, <1>2 DEF IndexInv, InstanceTyped
<1>4. PhasesFit' /\ MapsFit' /\ ChangesFit'
  BY <1>1 DEF IndexInv, PhasesFit, MapsFit, ChangesFit
<1>5. RegistrationFits'
  BY <1>1 DEF IndexInv, RegistrationFits, Open, AtOrBelow, IsRegistered, Added
<1>6. PlacesFit' /\ TodoApart'
  BY <1>1 DEF IndexInv, PlacesFit, TodoApart, Open, AtOrBelow, WellPlaced, SourceOf
<1>7. KindsFit'
  BY <1>1 DEF IndexInv, KindsFit, ChildKind, Has
<1>8. LeftoversFit'
  BY <1>1, AtRest DEF LeftoversFit, Open, AtOrBelow
<1>9. ChildrenFit'
  BY <1>1 DEF IndexInv, ChildrenFit, Open, AtOrBelow, SourceOf, ChildrenOf, Has
<1>. QED  BY <1>3, <1>4, <1>5, <1>6, <1>7, <1>8, <1>9 DEF IndexInv

LEMMA InstanceStarts == InstanceInit => RoundInv
<1>. SUFFICES ASSUME InstanceInit PROVE RoundInv
  OBVIOUS
<1>1. /\ phase = "idle" /\ todo = {} /\ roots = {} /\ Open = {}
      /\ \A k \in Instanceable : pendingAdded[k] = <<>> /\ pendingRemoved[k] = {} /\ Added(k) = {}
      /\ \A p \in ScenePaths : index[p] = Nothing /\ instanceOf[p] = Nothing
  BY DEF InstanceInit, Open, AtOrBelow, Added, ToSet
<1>2. InstanceTyped
  <2>1. /\ kids \in [PrimKinds -> [Names -> PrimKinds \cup {Absent}]]
        /\ \A k \in PrimKinds : kids[k] \in Contents[k]
    BY ContentAssumption DEF InstanceInit
  <2>2. pendingAdded \in [Instanceable -> Seq(ScenePaths)]
    BY EmptySeq DEF InstanceInit
  <2>. QED  BY <2>1, <2>2, KindsAre DEF InstanceInit, InstanceTyped
<1>3. PhasesFit
  BY <1>1 DEF PhasesFit
<1>4. MapsFit
  <2>1. \A k \in Instanceable : instances[k] = {} /\ prototype[k] = 0 /\ source[k] = Nothing
    BY DEF InstanceInit
  <2>. QED  BY <1>1, <2>1, KindsAre DEF MapsFit
<1>5. RegistrationFits
  BY <1>1, KindsAre DEF RegistrationFits, IsRegistered
<1>6. PlacesFit /\ TodoApart
  BY <1>1 DEF PlacesFit, TodoApart
<1>7. ChangesFit
  BY DEF InstanceInit, ChangesFit
<1>8. KindsFit
  BY <1>1, KindsAre DEF KindsFit
<1>9. LeftoversFit /\ ChildrenFit
  BY <1>1, KindsAre DEF LeftoversFit, ChildrenFit
<1>10. RootsDisjoint
  BY <1>1 DEF RootsDisjoint
<1>. QED  BY <1>2, <1>3, <1>4, <1>5, <1>6, <1>7, <1>8, <1>9, <1>10 DEF IndexInv, RoundInv

LEMMA InstanceSteps == RoundInv /\ [InstanceNext]_instanceVars => RoundInv'
<1>. SUFFICES ASSUME RoundInv, [InstanceNext]_instanceVars PROVE RoundInv'
  OBVIOUS
<1>1. ASSUME NEW k \in PrimKinds, NEW n \in Names, NEW to \in PrimKinds \cup {Absent},
             Edit(k, n, to)
      PROVE  RoundInv'
  <2>1. phase' # "compose"
    BY <1>1 DEF Edit, MayEdit
  <2>. QED  BY <1>1, <2>1, EditKeeps DEF RoundInv, RootsDisjoint
<1>2. ASSUME NEW k \in PrimKinds, NEW n \in Names, Touch(k, n)  PROVE RoundInv'
  <2>1. phase' # "compose"
    BY <1>2 DEF Touch, MayEdit
  <2>. QED  BY <1>2, <2>1, TouchKeeps DEF RoundInv, RootsDisjoint
<1>3. CASE Recompose
  <2>1. IndexInv' /\ roots' = todo'
    BY <1>3, RecomposeKeeps, RecomposeMeans DEF RoundInv
  <2>. QED  BY <2>1 DEF RoundInv, IndexInv, TodoApart, RootsDisjoint
<1>4. ASSUME NEW p \in ScenePaths, Compute(p)  PROVE RoundInv'
  <2>1. IndexInv' /\ roots' = roots /\ phase' = phase
    BY <1>4, ComputeKeeps, ComputeMeans DEF RoundInv
  <2>. QED  BY <2>1 DEF RoundInv, RootsDisjoint
<1>5. CASE ProcessChanges
  <2>1. IndexInv' /\ roots' = todo'
    BY <1>5, ProcessChangesKeeps, ProcessMeans DEF RoundInv
  <2>. QED  BY <2>1 DEF RoundInv, IndexInv, TodoApart, RootsDisjoint
<1>6. CASE RecomposePrims
  <2>1. phase' # "compose"
    BY <1>6 DEF RecomposePrims
  <2>. QED  BY <1>6, <2>1, RecomposePrimsKeeps DEF RoundInv, RootsDisjoint
<1>7. CASE UNCHANGED instanceVars
  <2>1. UNCHANGED <<kids, didChangeSignificantly, didChangePrims, index, prototype, last,
                    source, instances, instanceOf, pendingAdded, pendingRemoved, roots,
                    todo, phase>>
    BY <1>7 DEF instanceVars, sceneVars, mapVars, pendingVars, composeVars
  <2>2. InstanceTyped' /\ PhasesFit' /\ MapsFit' /\ ChangesFit'
    BY <2>1 DEF RoundInv, IndexInv, InstanceTyped, PhasesFit, MapsFit, ChangesFit
  <2>3. RegistrationFits'
    BY <2>1 DEF RoundInv, IndexInv, RegistrationFits, Open, AtOrBelow, IsRegistered, Added
  <2>4. PlacesFit' /\ TodoApart'
    BY <2>1 DEF RoundInv, IndexInv, PlacesFit, TodoApart, Open, AtOrBelow, WellPlaced, SourceOf
  <2>5. KindsFit' /\ LeftoversFit'
    BY <2>1 DEF RoundInv, IndexInv, KindsFit, LeftoversFit, Open, AtOrBelow, KindAt, ChildKind, Has
  <2>6. ChildrenFit'
    BY <2>1 DEF RoundInv, IndexInv, ChildrenFit, Open, AtOrBelow, SourceOf, ChildrenOf, Has
  <2>7. RootsDisjoint'
    BY <2>1 DEF RoundInv, RootsDisjoint
  <2>. QED  BY <2>2, <2>3, <2>4, <2>5, <2>6, <2>7 DEF RoundInv, IndexInv
<1>. QED  BY <1>1, <1>2, <1>3, <1>4, <1>5, <1>6, <1>7 DEF InstanceNext

(* RoundInv is an invariant: what is registered, indexed and still to be   *)
(* composed fit together, through all steps of a round.                    *)
THEOREM InstanceInvariant == InstanceSpec => []RoundInv
<1>1. InstanceInit => RoundInv
  BY InstanceStarts
<1>2. RoundInv /\ [InstanceNext]_instanceVars => RoundInv'
  BY InstanceSteps
<1>. QED  BY <1>1, <1>2, PTL DEF InstanceSpec

(* _ComposePrimIndexesInParallel is never asked for a path below another   *)
(* one: neither by the changes, where topmost ones are taken, nor by       *)
(* ProcessChanges, although it takes the new sources as they come.         *)
THEOREM InstanceRootsDisjoint == InstanceSpec => []RootsDisjoint
<1>1. RoundInv => RootsDisjoint
  BY DEF RoundInv
<1>. QED  BY <1>1, InstanceInvariant, PTL

(* After each round every prototype has a source, which is one of its      *)
(* instances, and the maps of Usd_InstanceCache are inverse.               *)
THEOREM InstanceMapsAgree == InstanceSpec => []MapsAgree
<1>1. RoundInv => MapsAgree
  BY DEF RoundInv, IndexInv, MapsFit, MapsAgree
<1>. QED  BY <1>1, InstanceInvariant, PTL

-----------------------------------------------------------------------------
(* Instances: the path of what is below another                            *)

(* The path of x from b on.                                                *)
Rel(b, x) == SubSeq(x, Len(b) + 1, Len(x))

LEMMA Joined ==
    ASSUME NEW b \in Seq(Names), NEW y \in Seq(Names)
    PROVE  /\ b \o y \in Seq(Names) /\ Len(b \o y) = Len(b) + Len(y)
           /\ IsPrefix(b, b \o y) /\ Rel(b, b \o y) = y
           /\ b \o y = b <=> y = <<>>
           /\ b \o <<>> = b /\ <<>> \o y = y
<1>. DEFINE x == b \o y
            m == Len(b)
            n == Len(y)
<1>1. /\ x \in Seq(Names) /\ Len(x) = m + n /\ m \in Nat /\ n \in Nat
      /\ \A i \in 1 .. m + n : x[i] = IF i <= m THEN b[i] ELSE y[i - m]
  BY ConcatProperties
<1>2. (x = b <=> y = <<>>) /\ b \o <<>> = b /\ <<>> \o y = y
  BY ConcatEqualIffEmpty, ConcatEmptySeq
<1>e. \A i \in 1 .. n : y[i] \in Names
  BY ElementOfSeq
<1>. HIDE DEF x, m, n
<1>3. IsPrefix(b, x)
  BY <1>1, SeqPrefixMeans DEF m
<1>4. Rel(b, x) = y
  <2>. DEFINE l == Len(x)
              z == SubSeq(x, m + 1, l)
  <2>1. Rel(b, x) = z
    BY DEF Rel, m
  <2>2. l = m + n /\ l \in Nat
    BY <1>1
  <2>3. \A i \in 1 .. l : x[i] \in Names
    BY <1>1, ElementOfSeq
  <2>. HIDE DEF l
  <2>4. /\ z \in Seq(Names)
        /\ Len(z) = IF m + 1 <= l THEN l - (m + 1) + 1 ELSE 0
        /\ \A i \in 1 .. l - (m + 1) + 1 : z[i] = x[m + 1 + i - 1]
    <3>1. m + 1 \in Int /\ l \in Int /\ \A i \in m + 1 .. l : x[i] \in Names
      BY <1>1, <2>2, <2>3
    <3>. QED  BY <3>1, SubSeqProperties
  <2>. HIDE DEF z
  <2>5. Len(z) = n
    BY <1>1, <2>2, <2>4
  <2>6. ASSUME NEW i \in 1 .. n  PROVE z[i] = y[i]
    <3>1. i \in 1 .. l - (m + 1) + 1 /\ m + 1 + i - 1 = m + i
      BY <1>1, <2>2
    <3>2. z[i] = x[m + i]
      BY <2>4, <3>1
    <3>3. m + i \in 1 .. m + n /\ ~(m + i <= m) /\ m + i - m = i
      BY <1>1
    <3>4. x[m + i] = y[m + i - m]
      BY <1>1, <3>3
    <3>. QED  BY <3>2, <3>3, <3>4
  <2>7. z = y
    BY <2>4, <2>5, <2>6, SeqEqual DEF n
  <2>. QED  BY <2>1, <2>7
<1>. QED  BY <1>1, <1>2, <1>3, <1>4 DEF x, m, n

LEMMA RelMeans ==
    ASSUME NEW b \in Seq(Names), NEW x \in Seq(Names), IsPrefix(b, x)
    PROVE  Rel(b, x) \in Seq(Names) /\ b \o Rel(b, x) = x
<1>. DEFINE m == Len(b)
            n == Len(x)
            z == SubSeq(x, m + 1, n)
<1>1. m \in Nat /\ n \in Nat /\ m <= n /\ \A i \in 1 .. m : b[i] = x[i]
  BY SeqPrefixMeans
<1>2. \A i \in 1 .. n : x[i] \in Names
  BY ElementOfSeq
<1>. HIDE DEF m, n
<1>3. /\ z \in Seq(Names)
      /\ Len(z) = IF m + 1 <= n THEN n - (m + 1) + 1 ELSE 0
      /\ \A i \in 1 .. n - (m + 1) + 1 : z[i] = x[m + 1 + i - 1]
  <2>1. m + 1 \in Int /\ n \in Int /\ \A i \in m + 1 .. n : x[i] \in Names
    BY <1>1, <1>2
  <2>. QED  BY <2>1, SubSeqProperties
<1>. HIDE DEF z
<1>4. Len(z) = n - m
  BY <1>1, <1>3
<1>5. /\ b \o z \in Seq(Names) /\ Len(b \o z) = n
      /\ \A i \in 1 .. n : (b \o z)[i] = IF i <= m THEN b[i] ELSE z[i - m]
  <2>1. m + (n - m) = n
    BY <1>1
  <2>. QED  BY <1>3, <1>4, <2>1, ConcatProperties DEF m
<1>6. \A i \in 1 .. n : (b \o z)[i] = x[i]
  <2>1. ASSUME NEW i \in 1 .. n  PROVE (b \o z)[i] = x[i]
    <3>1. CASE i <= m
      BY <1>1, <1>5, <3>1
    <3>2. CASE ~(i <= m)
      <4>1. i - m \in 1 .. n - (m + 1) + 1 /\ m + 1 + (i - m) - 1 = i
        BY <1>1, <3>2
      <4>2. z[i - m] = x[m + 1 + (i - m) - 1]
        BY <1>3, <4>1
      <4>. QED  BY <1>5, <3>2, <4>1, <4>2
    <3>. QED  BY <3>1, <3>2
  <2>. QED  BY <2>1
<1>7. b \o z = x
  BY <1>5, <1>6, SeqEqual DEF n
<1>8. Rel(b, x) = z
  BY DEF Rel, z, m, n
<1>. QED  BY <1>3, <1>7, <1>8

(* The order of paths is that of what is below b.                          *)
LEMMA JoinedOrder ==
    ASSUME NEW b \in Seq(Names), NEW y \in Seq(Names), NEW z \in Seq(Names)
    PROVE  /\ IsPrefix(b \o y, b \o z) <=> IsPrefix(y, z)
           /\ b \o y = b \o z <=> y = z
<1>1. b \o y = b \o z <=> y = z
  <2>1. Rel(b, b \o y) = y
    BY Joined
  <2>2. Rel(b, b \o z) = z
    BY Joined
  <2>. QED  BY <2>1, <2>2
<1>2. ASSUME IsPrefix(y, z)  PROVE IsPrefix(b \o y, b \o z)
  <2>1. PICK w \in Seq(Names) : y \o w = z
    BY <1>2, RelMeans
  <2>2. (b \o y) \o w = b \o (y \o w)
    BY ConcatAssociative
  <2>3. b \o y \in Seq(Names)
    BY ConcatProperties
  <2>4. IsPrefix(b \o y, (b \o y) \o w)
    <3>. DEFINE v == b \o y
    <3>. HIDE DEF v
    <3>1. v \in Seq(Names) => IsPrefix(v, v \o w)
      BY Joined
    <3>. QED  BY <2>3, <3>1 DEF v
  <2>. QED  BY <2>1, <2>2, <2>4
<1>3. ASSUME IsPrefix(b \o y, b \o z)  PROVE IsPrefix(y, z)
  <2>. DEFINE v == b \o y
  <2>1. v \in Seq(Names) /\ b \o z \in Seq(Names)
    BY ConcatProperties
  <2>2. IsPrefix(v, b \o z)
    BY <1>3
  <2>. HIDE DEF v
  <2>3. PICK w \in Seq(Names) : v \o w = b \o z
    BY <2>1, <2>2, RelMeans
  <2>4. v \o w = b \o (y \o w)
    BY ConcatAssociative DEF v
  <2>5. y \o w \in Seq(Names)
    BY ConcatProperties
  <2>6. Rel(b, b \o (y \o w)) = y \o w
    <3>. DEFINE u == y \o w
    <3>. HIDE DEF u
    <3>1. u \in Seq(Names) => Rel(b, b \o u) = u
      BY Joined
    <3>. QED  BY <2>5, <3>1 DEF u
  <2>7. Rel(b, b \o z) = z
    BY Joined
  <2>8. y \o w = z
    BY <2>3, <2>4, <2>6, <2>7
  <2>9. IsPrefix(y, y \o w)
    BY Joined
  <2>. QED  BY <2>8, <2>9
<1>. QED  BY <1>1, <1>2, <1>3

LEMMA JoinedParent ==
    ASSUME NEW b \in ScenePaths, NEW y \in Seq(Names), y # <<>>, b \o y \in ScenePaths
    PROVE  /\ Front(y) \in Seq(Names) /\ b \o Front(y) = Parent(b \o y)
           /\ b \o y # PseudoRoot /\ IsPrefix(b, Parent(b \o y))
           /\ y[Len(y)] = (b \o y)[Len(b \o y)]
<1>. DEFINE x == b \o y
<1>1. /\ b \in Seq(Names) /\ x \in Seq(Names) /\ Len(x) = Len(b) + Len(y)
      /\ x # <<>>
  BY PathsAreSeqs, ConcatProperties, ConcatEqualIffEmpty
<1>2. /\ Front(y) \in Seq(Names) /\ Len(y) \in Nat \ {0} /\ Len(Front(y)) = Len(y) - 1
      /\ IsPrefix(Front(y), y)
  BY SeqFrontMeans
<1>3. /\ Front(x) \in Seq(Names) /\ Len(Front(x)) = Len(x) - 1 /\ IsPrefix(Front(x), x)
  BY <1>1, SeqFrontMeans
<1>4. IsPrefix(b \o Front(y), x) /\ b \o Front(y) \in Seq(Names)
      /\ Len(b \o Front(y)) = Len(b) + Len(Front(y)) /\ IsPrefix(b, b \o Front(y))
  BY <1>1, <1>2, JoinedOrder, Joined
<1>5. Len(b) \in Nat
  BY <1>1
<1>6. b \o Front(y) = Front(x)
  <2>1. Len(b \o Front(y)) = Len(Front(x))
    BY <1>1, <1>2, <1>3, <1>4, <1>5
  <2>2. Len(b \o Front(y)) \in Nat
    BY <1>4
  <2>3. IsPrefix(b \o Front(y), Front(x)) /\ IsPrefix(Front(x), b \o Front(y))
    BY <1>1, <1>3, <1>4, <2>1, <2>2, SeqPrefixOrder
  <2>. QED  BY <1>3, <1>4, <2>3, SeqPrefixOrder
<1>7. y[Len(y)] = x[Len(x)]
  <2>1. \A i \in 1 .. Len(b) + Len(y) : x[i] = IF i <= Len(b) THEN b[i] ELSE y[i - Len(b)]
    BY <1>1, ConcatProperties
  <2>2. Len(x) \in 1 .. Len(b) + Len(y) /\ ~(Len(x) <= Len(b)) /\ Len(x) - Len(b) = Len(y)
    BY <1>1, <1>2, <1>5
  <2>. QED  BY <2>1, <2>2
<1>. QED  BY <1>1, <1>2, <1>4, <1>6, <1>7 DEF Parent, PseudoRoot

-----------------------------------------------------------------------------
(* The prims of the stage and of its prototypes                            *)

(* The stage and the live prototypes, and the path that the index of the   *)
(* topmost prim of each has.                                               *)
Trees == {Stage} \cup {Proto(k) : k \in {k \in Instanceable : prototype[k] # 0}}
TopOf(r) == IF r = Stage THEN PseudoRoot ELSE source[r[1]]

(* Where in tree r an instance has no children.                            *)
Inside(r, q) == IsPrefix(TopOf(r), q) /\ (r = Stage \/ q # TopOf(r))

(* A prim of tree r is to have the index of path x.                        *)
Visible(r, x) ==
    /\ IsPrefix(TopOf(r), x) /\ index[x] \in PrimKinds
    /\ \A q \in Ancestors[x] : Inside(r, q) => index[q] \notin Instanceable

(* Trees that a round has not given a source so far.                       *)
Untold == Trees \ DOMAIN told

(* What is recomposed, and the sources that composition goes on from.      *)
Changing == AtOrBelow(pathsToRecompose)
Reached == AtOrBelow(pathsToRecompose \cup {told[r] : r \in DOMAIN told})

RecomposedFit ==
    /\ pathsToRecompose \subseteq ScenePaths
    /\ \A p \in pathsToRecompose : Ancestors[p] \cap pathsToRecompose = {}
    /\ phase = "idle" => pathsToRecompose = {} /\ told = <<>> /\ dead = {}

TasksFit ==
    /\ \A p \in todo : p \in Reached
    /\ \A k \in Instanceable : \A p \in Added(k) : p \in Reached

(* A round tells of a tree once; the source of one that it does not tell   *)
(* of is not below a source that it does tell of.                          *)
ToldFit ==
    /\ \A r \in DOMAIN told :
           r[1] \in Instanceable /\ r = Proto(r[1]) /\ r[2] # 0 /\ told[r] = source[r[1]]
    /\ phase = "compose" /\ (DOMAIN told # {} \/ dead # {}) =>
           \A k \in Instanceable : pendingRemoved[k] = {}
    /\ \A k \in Instanceable :
           prototype[k] # 0 /\ Proto(k) \notin DOMAIN told /\ source[k] \in Reached =>
               source[k] \in Changing

NumbersFit ==
    /\ \A r \in dead : r[1] \in Instanceable /\ r[2] \in 1 .. last /\ r # Proto(r[1])
    /\ \A k \in Instanceable : prototype[k] <= last

RootFits ==
    \/ index[PseudoRoot] # Nothing
    \/ PseudoRoot \in todo
    \/ phase = "idle" /\ didChangeSignificantly = {PseudoRoot}

(* A prim is one of a tree, until the second half of the round removes it. *)
TreesFit ==
    /\ \A t \in DOMAIN primIndex :
           /\ t = <<t[1], t[2]>> /\ t[2] \in Seq(Names)
           /\ t[1] \in dead \/ t[1] \in Trees
    /\ \A r \in Untold, y \in Seq(Names) : <<r, y>> \in DOMAIN primIndex =>
           /\ TopOf(r) \o y \in ScenePaths
           /\ primIndex[<<r, y>>] = TopOf(r) \o y
           /\ \A q \in Ancestors[TopOf(r) \o y] :
                  Inside(r, q) /\ q \notin Changing => index[q] \in PrimKinds \ Instanceable

(* Where nothing is recomposed, the prims are those that are to be there.  *)
PrimsFit ==
    \A r \in Untold, y \in Seq(Names) :
        TopOf(r) \o y \in ScenePaths \ Changing =>
            (<<r, y>> \in DOMAIN primIndex <=> Visible(r, TopOf(r) \o y))

StaleFit == \A s \in stale : s \in DOMAIN primIndex /\ primIndex[s] \in Changing

PrimsInv ==
    /\ RecomposedFit /\ TasksFit /\ ToldFit /\ NumbersFit /\ RootFits
    /\ TreesFit /\ PrimsFit /\ StaleFit

LEMMA TreesAre ==
    ASSUME IndexInv, NEW r \in Trees
    PROVE  /\ TopOf(r) \in ScenePaths /\ TopOf(r) \in Seq(Names)
           /\ r # Stage => /\ r[1] \in Instanceable /\ r = Proto(r[1]) /\ prototype[r[1]] # 0
                           /\ source[r[1]] = TopOf(r) /\ instanceOf[TopOf(r)] = r[1]
           /\ r = Stage => TopOf(r) = PseudoRoot
<1>1. CASE r = Stage
  BY <1>1, KindsAre, PathsAreSeqs DEF TopOf
<1>2. ASSUME r # Stage
      PROVE  /\ r[1] \in Instanceable /\ r = Proto(r[1]) /\ prototype[r[1]] # 0
             /\ source[r[1]] = TopOf(r) /\ instanceOf[TopOf(r)] = r[1]
             /\ TopOf(r) \in ScenePaths
  <2>1. PICK k \in Instanceable : r = Proto(k) /\ prototype[k] # 0
    BY <1>2 DEF Trees
  <2>2. r[1] = k
    BY <2>1 DEF Proto
  <2>3. source[k] \in ScenePaths /\ instanceOf[source[k]] = k
    BY <2>1 DEF IndexInv, MapsFit
  <2>. QED  BY <1>2, <2>1, <2>2, <2>3 DEF TopOf
<1>. QED  BY <1>1, <1>2, PathsAreSeqs

LEMMA ProtoTree ==
    ASSUME NEW k \in Instanceable
    PROVE  /\ Proto(k)[1] = k /\ Proto(k)[2] = prototype[k] /\ Proto(k) # Stage
           /\ prototype[k] # 0 => Proto(k) \in Trees
           /\ TopOf(Proto(k)) = source[k]
<1>1. Proto(k)[1] = k /\ Proto(k)[2] = prototype[k]
  BY DEF Proto
<1>2. Proto(k) # Stage
  <2>1. k # StageKind /\ Stage[1] = StageKind
    BY KindsAre DEF Stage
  <2>. QED  BY <1>1, <2>1
<1>. QED  BY <1>1, <1>2 DEF TopOf, Trees

(* The initial state.                                                      *)
LEMMA PrimsStart ==
    ASSUME InstanceInit
    PROVE  PrimsInv
<1>1. /\ phase = "idle" /\ todo = {} /\ pathsToRecompose = {} /\ told = <<>> /\ dead = {}
      /\ primIndex = <<>> /\ stale = {} /\ didChangeSignificantly = {PseudoRoot}
      /\ last = 0 /\ \A k \in Instanceable : prototype[k] = 0 /\ pendingAdded[k] = <<>>
      /\ \A p \in ScenePaths : index[p] = Nothing
  BY DEF InstanceInit
<1>2. DOMAIN told = {} /\ DOMAIN primIndex = {}
  <2>1. DOMAIN <<>> = {}
    OBVIOUS
  <2>. QED  BY <1>1, <2>1
<1>3. \A k \in Instanceable : Added(k) = {}
  BY <1>1 DEF Added, ToSet
<1>4. RecomposedFit /\ TasksFit /\ ToldFit
  BY <1>1, <1>2, <1>3 DEF RecomposedFit, TasksFit, ToldFit
<1>5. NumbersFit /\ RootFits
  BY <1>1 DEF NumbersFit, RootFits
<1>6. Trees = {Stage} /\ TopOf(Stage) = PseudoRoot
  BY <1>1 DEF Trees, TopOf
<1>7. TreesFit
  BY <1>2 DEF TreesFit
<1>8. PrimsFit
  <2>1. \A x \in ScenePaths : index[x] \notin PrimKinds
    BY <1>1, KindsAre
  <2>. QED  BY <1>2, <2>1 DEF PrimsFit, Visible
<1>9. StaleFit
  BY <1>1 DEF StaleFit
<1>. QED  BY <1>4, <1>5, <1>7, <1>8, <1>9 DEF PrimsInv

(* Between rounds.                                                         *)
LEMMA PrimsAtRest ==
    ASSUME IndexInv, PrimsInv, phase = "idle"
    PROVE  /\ pathsToRecompose = {} /\ told = <<>> /\ dead = {} /\ stale = {}
           /\ DOMAIN told = {} /\ Changing = {} /\ Reached = {} /\ Untold = Trees
           /\ \A k \in Instanceable : Added(k) = {}
<1>1. pathsToRecompose = {} /\ told = <<>> /\ dead = {}
  BY DEF PrimsInv, RecomposedFit
<1>2. DOMAIN told = {}
  <2>1. DOMAIN <<>> = {}
    OBVIOUS
  <2>. QED  BY <1>1, <2>1
<1>3. Changing = {} /\ Reached = {} /\ Untold = Trees
  BY <1>1, <1>2 DEF Changing, Reached, AtOrBelow, Untold
<1>4. stale = {}
  BY <1>3 DEF PrimsInv, StaleFit
<1>. QED  BY <1>1, <1>2, <1>3, <1>4, AtRest

LEMMA EditKeepsPrims ==
    ASSUME IndexInv, PrimsInv,
           UNCHANGED <<index, prototype, last, source, pendingAdded, pendingRemoved, todo,
                       pathsToRecompose, told, dead, primIndex, stale, phase>>,
           index[PseudoRoot] # Nothing \/ UNCHANGED didChangeSignificantly
    PROVE  PrimsInv'
<1>1. RecomposedFit' /\ NumbersFit'
  BY DEF PrimsInv, RecomposedFit, NumbersFit, Proto
<1>2. Reached' = Reached /\ Changing' = Changing
  BY DEF Reached, Changing, AtOrBelow
<1>3. TasksFit'
  BY <1>2 DEF PrimsInv, TasksFit, Added
<1>4. ToldFit'
  BY <1>2 DEF PrimsInv, ToldFit, Proto
<1>5. RootFits'
  BY DEF PrimsInv, RootFits
<1>6. Trees' = Trees /\ Untold' = Untold /\ \A r : TopOf(r)' = TopOf(r)
  BY DEF Trees, Untold, Proto, TopOf
<1>7. \A r, q : (Inside(r, q)' <=> Inside(r, q)) /\ (Visible(r, q)' <=> Visible(r, q))
  BY <1>6 DEF Inside, Visible
<1>8. TreesFit'
  BY <1>2, <1>6, <1>7 DEF PrimsInv, TreesFit
<1>9. PrimsFit'
  BY <1>2, <1>6, <1>7 DEF PrimsInv, PrimsFit
<1>10. StaleFit'
  BY <1>2 DEF PrimsInv, StaleFit
<1>. QED  BY <1>1, <1>3, <1>4, <1>5, <1>8, <1>9, <1>10 DEF PrimsInv

-----------------------------------------------------------------------------
(* The prims while indexes are computed                                    *)

LEMMA RecomposeKeepsPrims ==
    ASSUME IndexInv, PrimsInv, Recompose
    PROVE  PrimsInv'
<1>1. /\ phase = "idle" /\ phase' = "compose"
      /\ pathsToRecompose' = Topmost(ChangedPaths)
      /\ stale' = stale \cup {s \in DOMAIN primIndex : primIndex[s] \in BlownPaths}
      /\ UNCHANGED <<prototype, last, source, pendingAdded, told, dead, primIndex>>
  BY DEF Recompose, ChangedPaths, BlownPaths, mapVars, changeVars
<1>2. /\ todo' = ExposedPaths
      /\ \A x \in ScenePaths : index'[x] = IF x \in BlownPaths THEN Nothing ELSE index[x]
  BY RecomposeMeans
<1>3. ChangedPaths \in SUBSET ScenePaths /\ Topmost(ChangedPaths) \subseteq ChangedPaths
  BY <1>1, ChangedAre DEF Topmost
<1>4. /\ told = <<>> /\ dead = {} /\ stale = {} /\ DOMAIN told = {} /\ Changing = {}
      /\ Untold = Trees /\ \A k \in Instanceable : Added(k) = {}
  BY <1>1, PrimsAtRest
<1>5. RecomposedFit'
  BY <1>1, <1>3 DEF RecomposedFit, Topmost
<1>6. Reached' = AtOrBelow(Topmost(ChangedPaths)) /\ Changing' = AtOrBelow(Topmost(ChangedPaths))
  <2>1. told' = told
    BY <1>1
  <2>2. {told'[r] : r \in DOMAIN told'} = {}
    BY <1>4, <2>1
  <2>. QED  BY <1>1, <2>2 DEF Reached, Changing
<1>7. \A x \in ScenePaths : x \in BlownPaths => x \in Changing'
  <2>1. ASSUME NEW x \in ScenePaths, x \in BlownPaths  PROVE x \in Changing'
    <3>1. PICK p \in ChangedPaths : p = x \/ p \in Ancestors[x]
      BY <2>1, UnderMeans DEF BlownPaths, ChangedPaths
    <3>2. PICK t \in Topmost(ChangedPaths) : t = p \/ t \in Ancestors[p]
      BY <1>3, TopmostAbove
    <3>3. t = x \/ t \in Ancestors[x]
      BY <3>1, <3>2, <2>1, AncestorsOrder
    <3>. QED  BY <1>6, <2>1, <3>3, UnderMeans
  <2>. QED  BY <2>1
<1>8. TasksFit'
  <2>2. \A p \in ExposedPaths : p \in AtOrBelow(Topmost(ChangedPaths))
    BY <1>3, UnderMeans DEF ExposedPaths
  <2>3. \A k \in Instanceable : Added(k)' = {}
    BY <1>1, <1>4 DEF Added
  <2>. QED  BY <1>2, <1>6, <2>2, <2>3 DEF TasksFit
<1>9. ToldFit'
  BY <1>1, <1>4, <1>6 DEF ToldFit
<1>10. NumbersFit'
  BY <1>1 DEF PrimsInv, NumbersFit, Proto
<1>11. RootFits'
  <2>1. PseudoRoot \in ScenePaths /\ Ancestors[PseudoRoot] = {}
    BY KindsAre, AncestorsOrder
  <2>2. PseudoRoot \in ChangedPaths => PseudoRoot \in ExposedPaths
    BY <2>1 DEF ExposedPaths, Topmost, IsPathDescendantToAnInstance
  <2>3. PseudoRoot \in BlownPaths => PseudoRoot \in ChangedPaths
    BY <2>1, UnderMeans DEF BlownPaths, ChangedPaths
  <2>4. index[PseudoRoot] # Nothing \/ PseudoRoot \in ChangedPaths
    <3>1. todo = {}
      BY <1>1, AtRest
    <3>. QED  BY <3>1 DEF PrimsInv, RootFits, ChangedPaths
  <2>. QED  BY <1>2, <2>1, <2>2, <2>3, <2>4 DEF RootFits
<1>12. Trees' = Trees /\ Untold' = Untold /\ \A r : TopOf(r)' = TopOf(r)
  BY <1>1 DEF Trees, Untold, Proto, TopOf
<1>13. \A r, q : Inside(r, q)' <=> Inside(r, q)
  BY <1>12 DEF Inside
<1>14. TreesFit'
  <2>1. ASSUME NEW r \in Untold, NEW y \in Seq(Names), <<r, y>> \in DOMAIN primIndex,
               NEW q \in Ancestors[TopOf(r) \o y], Inside(r, q), q \notin Changing'
        PROVE  index'[q] \in PrimKinds \ Instanceable
    <3>1. TopOf(r) \o y \in ScenePaths
      BY <2>1 DEF PrimsInv, TreesFit
    <3>2. q \in ScenePaths
      BY <3>1, AncestorsOrder
    <3>3. index'[q] = index[q]
      BY <1>2, <1>7, <2>1, <3>2
    <3>. QED  BY <1>4, <2>1, <3>3 DEF PrimsInv, TreesFit
  <2>. QED  BY <1>1, <1>12, <1>13, <2>1 DEF PrimsInv, TreesFit
<1>15. PrimsFit'
  <2>1. ASSUME NEW r \in Untold, NEW x \in ScenePaths, x \notin Changing'
        PROVE  Visible(r, x)' <=> Visible(r, x)
    <3>1. \A q \in Ancestors[x] : q \in ScenePaths /\ q \notin Changing'
      BY <1>6, <2>1, AncestorsOrder, UnderCloses
    <3>2. index'[x] = index[x] /\ \A q \in Ancestors[x] : index'[q] = index[q]
      BY <1>2, <1>7, <2>1, <3>1
    <3>. QED  BY <1>12, <1>13, <3>2 DEF Visible
  <2>. QED  BY <1>1, <1>4, <1>12, <2>1 DEF PrimsInv, PrimsFit
<1>16. StaleFit'
  <2>1. ASSUME NEW s \in DOMAIN primIndex, primIndex[s] \in BlownPaths
        PROVE  primIndex[s] \in ScenePaths
    BY <2>1, <1>3 DEF BlownPaths, AtOrBelow, ChangedPaths
  <2>. QED  BY <1>1, <1>4, <1>7, <2>1 DEF StaleFit
<1>. QED  BY <1>5, <1>8, <1>9, <1>10, <1>11, <1>14, <1>15, <1>16 DEF PrimsInv

(* Composition changes no index where prims are to be: where it goes on    *)
(* from a new source, it is below an instance that has no other prims.     *)
LEMMA ComputeKeepsVisible ==
    ASSUME IndexInv, PrimsInv, NEW p \in ScenePaths, Compute(p), index[p] = Nothing,
           p \notin Changing, NEW r \in Untold, IsPrefix(TopOf(r), p)
    PROVE  \E q \in Ancestors[p] : Inside(r, q) /\ index[q] \in Instanceable
<1>1. p \in todo /\ r \in Trees
  BY ComputeMeans DEF Untold
<1>2. PICK e \in DOMAIN told : told[e] = p \/ told[e] \in Ancestors[p]
  <2>1. p \in Reached
    BY <1>1 DEF PrimsInv, TasksFit
  <2>. QED  BY <2>1, UnderMeans DEF Reached, Changing
<1>. DEFINE j == e[1]
            q == told[e]
<1>3. j \in Instanceable /\ e = Proto(j) /\ prototype[j] # 0 /\ q = source[j]
  BY ProtoTree DEF PrimsInv, ToldFit
<1>4. q \in ScenePaths /\ instanceOf[q] = j
  BY <1>3 DEF IndexInv, MapsFit
<1>5. index[q] = j \/ q \in pendingRemoved[j]
  <2>1. instanceOf[q] = j /\ q \notin pendingRemoved[j] => IsRegistered(q, j)
    BY DEF IsRegistered
  <2>. QED  BY <1>3, <1>4, <2>1 DEF IndexInv, RegistrationFits
<1>6. pendingRemoved[j] = {}
  BY <1>2, <1>3, ComputeMeans DEF PrimsInv, ToldFit
<1>7. index[q] = j /\ q # p /\ q \in Ancestors[p]
  BY <1>2, <1>3, <1>5, <1>6, KindsAre
<1>8. q \notin Changing
  BY <1>7, UnderCloses DEF Changing
<1>9. CASE r = Stage
  <2>1. TopOf(r) = PseudoRoot /\ q \in Seq(Names)
    BY <1>4, <1>9, PathsAreSeqs DEF TopOf
  <2>2. IsPrefix(TopOf(r), q)
    BY <2>1, SeqPrefixOrder DEF PseudoRoot
  <2>. QED  BY <1>3, <1>7, <1>9, <2>2 DEF Inside
<1>10. CASE r # Stage
  <2>. DEFINE k == r[1]
  <2>1. /\ k \in Instanceable /\ r = Proto(k) /\ prototype[k] # 0 /\ source[k] = TopOf(r)
        /\ instanceOf[TopOf(r)] = k /\ TopOf(r) \in ScenePaths
    BY <1>1, <1>10, TreesAre
  <2>2. TopOf(r) # q
    <3>1. e # r
      BY <1>2 DEF Untold
    <3>2. j # k
      BY <1>3, <2>1, <3>1
    <3>. QED  BY <1>4, <2>1, <3>2
  <2>3. q \notin Ancestors[TopOf(r)]
    <3>1. SUFFICES ASSUME q \in Ancestors[TopOf(r)] PROVE FALSE
      OBVIOUS
    <3>2. TopOf(r) \in Reached
      BY <2>1, <3>1, UnderMeans DEF Reached
    <3>3. TopOf(r) \in Changing
      <4>1. Proto(k) \notin DOMAIN told
        BY <2>1 DEF Untold
      <4>. QED  BY <2>1, <3>2, <4>1 DEF PrimsInv, ToldFit
    <3>4. TopOf(r) = p \/ TopOf(r) \in Ancestors[p]
      BY <2>1, PathPrefixesMean
    <3>. QED  BY <3>3, <3>4, UnderCloses DEF Changing
  <2>4. TopOf(r) \in Ancestors[q]
    <3>1. TopOf(r) = p \/ TopOf(r) \in Ancestors[p]
      BY <2>1, PathPrefixesMean
    <3>. QED  BY <1>7, <2>2, <2>3, <3>1, AncestorsOrder
  <2>5. IsPrefix(TopOf(r), q)
    BY <1>4, <2>1, <2>4, PathPrefixesMean
  <2>. QED  BY <1>3, <1>7, <2>2, <2>5 DEF Inside
<1>. QED  BY <1>9, <1>10

LEMMA ComputeKeepsPrims ==
    ASSUME IndexInv, PrimsInv, NEW p \in ScenePaths, Compute(p)
    PROVE  PrimsInv'
<1>1. /\ phase = "compose" /\ p \in todo
      /\ UNCHANGED <<didChangeSignificantly, prototype, last, source, pendingRemoved,
                     pathsToRecompose, told, dead, primIndex, stale, phase>>
  BY DEF Compute, sceneVars, mapVars, changeVars, stageVars
<1>2. /\ index' = [index EXCEPT ![p] = KindAt(p)]
      /\ index[p] # Nothing => index[p] = KindAt(p)
      /\ pendingAdded' = IF KindAt(p) \in Instanceable
                         THEN [pendingAdded EXCEPT ![KindAt(p)] = Append(@, p)]
                         ELSE pendingAdded
      /\ todo' = (todo \ {p}) \cup
                     IF KindAt(p) \in Instanceable => IsSource(p, KindAt(p))
                     THEN ChildrenOf(p, KindAt(p)) ELSE {}
  BY ComputeMeans
<1>3. InstanceTyped /\ KindAt(p) \in PrimKinds \cup {Absent}
  BY KindsAtPaths DEF IndexInv
<1>4. \A x \in ScenePaths : index'[x] = IF x = p THEN KindAt(p) ELSE index[x]
  BY <1>2, <1>3 DEF InstanceTyped
<1>5. Reached' = Reached /\ Changing' = Changing
  BY <1>1 DEF Reached, Changing, AtOrBelow
<1>6. RecomposedFit' /\ NumbersFit'
  BY <1>1 DEF PrimsInv, RecomposedFit, NumbersFit, Proto
<1>7. p \in Reached
  BY <1>1 DEF PrimsInv, TasksFit
<1>8. TasksFit'
  <2>1. \A c \in ChildrenOf(p, KindAt(p)) : c \in Reached
    BY <1>7, ChildrenAre, UnderCloses DEF Reached
  <2>2. \A k \in Instanceable : \A x \in Added(k)' : x \in Reached
    <3>1. CASE KindAt(p) \in Instanceable
      <4>. PICK j \in Instanceable : j = KindAt(p)
        BY <3>1
      <4>1. /\ Added(j)' = Added(j) \cup {p}
            /\ \A k \in Instanceable \ {j} : pendingAdded'[k] = pendingAdded[k]
        BY <1>2, <1>3, <3>1, AddedGrows
      <4>2. \A k \in Instanceable \ {j} : Added(k)' = Added(k)
        BY <4>1 DEF Added
      <4>. QED  BY <1>7, <4>1, <4>2 DEF PrimsInv, TasksFit
    <3>2. CASE KindAt(p) \notin Instanceable
      <4>1. \A k \in Instanceable : Added(k)' = Added(k)
        BY <1>2, <3>2 DEF Added
      <4>. QED  BY <4>1 DEF PrimsInv, TasksFit
    <3>. QED  BY <3>1, <3>2
  <2>. QED  BY <1>2, <1>5, <2>1, <2>2 DEF PrimsInv, TasksFit
<1>9. ToldFit'
  BY <1>1, <1>5 DEF PrimsInv, ToldFit, Proto
<1>10. RootFits'
  <2>1. PseudoRoot \in ScenePaths /\ KindAt(p) # Nothing
    BY <1>3, KindsAre
  <2>. QED  BY <1>1, <1>2, <1>4, <2>1 DEF PrimsInv, RootFits
<1>11. Trees' = Trees /\ Untold' = Untold /\ \A r : TopOf(r)' = TopOf(r)
  BY <1>1 DEF Trees, Untold, Proto, TopOf
<1>12. \A r, q : Inside(r, q)' <=> Inside(r, q)
  BY <1>11 DEF Inside
<1>13. TreesFit'
  <2>1. ASSUME NEW r \in Untold, NEW y \in Seq(Names), <<r, y>> \in DOMAIN primIndex,
               NEW q \in Ancestors[TopOf(r) \o y], Inside(r, q), q \notin Changing
        PROVE  index'[q] \in PrimKinds \ Instanceable
    <3>1. TopOf(r) \o y \in ScenePaths
      BY <2>1 DEF PrimsInv, TreesFit
    <3>2. q \in ScenePaths
      BY <3>1, AncestorsOrder
    <3>3. index[q] \in PrimKinds \ Instanceable
      BY <2>1 DEF PrimsInv, TreesFit
    <3>4. index'[q] = index[q]
      BY <1>2, <1>4, <3>2, <3>3, KindsAre
    <3>. QED  BY <3>3, <3>4
  <2>. QED  BY <1>1, <1>5, <1>11, <1>12, <2>1 DEF PrimsInv, TreesFit
<1>14. PrimsFit'
  <2>1. ASSUME NEW r \in Untold, NEW x \in ScenePaths, x \notin Changing
        PROVE  Visible(r, x)' <=> Visible(r, x)
    <3>1. CASE index' = index
      BY <1>11, <1>12, <3>1 DEF Visible
    <3>2. CASE index' # index
      <4>1. index[p] = Nothing
        BY <1>2, <1>3, <3>2 DEF InstanceTyped
      <4>2. CASE p # x /\ p \notin Ancestors[x]
        <5>1. index'[x] = index[x] /\ \A q \in Ancestors[x] : index'[q] = index[q]
          BY <1>4, <4>2, AncestorsOrder
        <5>. QED  BY <1>11, <1>12, <5>1 DEF Visible
      <4>3. CASE (p = x \/ p \in Ancestors[x]) /\ IsPrefix(TopOf(r), p)
        <5>1. p \notin Changing
          BY <2>1, <4>3, UnderCloses DEF Changing
        <5>2. PICK q \in Ancestors[p] : Inside(r, q) /\ index[q] \in Instanceable
          BY <4>1, <4>3, <5>1, ComputeKeepsVisible
        <5>3. q \in Ancestors[x] /\ q \in ScenePaths /\ q # p
          BY <4>3, <5>2, AncestorsOrder
        <5>4. index'[q] = index[q]
          BY <1>4, <5>3
        <5>. QED  BY <1>12, <5>2, <5>3, <5>4 DEF Visible
      <4>4. CASE (p = x \/ p \in Ancestors[x]) /\ ~IsPrefix(TopOf(r), p)
        <5>1. CASE p = x
          BY <1>11, <4>4, <5>1 DEF Visible
        <5>2. CASE p \in Ancestors[x]
          <6>1. ~Inside(r, p) /\ index'[x] = index[x]
            BY <1>4, <4>4, <5>2, AncestorsOrder DEF Inside
          <6>2. \A q \in Ancestors[x] : q # p => index'[q] = index[q]
            BY <1>4, AncestorsOrder
          <6>. QED  BY <1>11, <1>12, <6>1, <6>2 DEF Visible
        <5>. QED  BY <4>4, <5>1, <5>2
      <4>. QED  BY <4>2, <4>3, <4>4
    <3>. QED  BY <3>1, <3>2
  <2>. QED  BY <1>1, <1>5, <1>11, <2>1 DEF PrimsInv, PrimsFit
<1>15. StaleFit'
  BY <1>1, <1>5 DEF PrimsInv, StaleFit
<1>. QED  BY <1>6, <1>8, <1>9, <1>10, <1>13, <1>14, <1>15 DEF PrimsInv

-----------------------------------------------------------------------------
(* The prims when the instance cache processes its changes                 *)

(* What ProcessChanges does to a prototype that it neither creates nor     *)
(* gives a new source: nothing, if it stays.                               *)
LEMMA KeptTrees ==
    ASSUME IndexInv, ProcessChanges, NEW k \in Instanceable, prototype'[k] # 0,
           k \notin Created, k \notin Started
    PROVE  prototype'[k] = prototype[k] /\ source'[k] = source[k]
<1>1. /\ prototype'[k] = IF k \in Created THEN last + 1
                         ELSE IF k \in Emptied THEN 0 ELSE prototype[k]
      /\ source'[k] = IF k \in Created \cup Revived THEN Head(pendingAdded[k])
                      ELSE IF k \in Moved THEN First(Kept(k))
                      ELSE IF LosesSource(k) THEN Nothing ELSE source[k]
  BY ProcessMeans
<1>2. k \notin Emptied /\ prototype'[k] = prototype[k] /\ prototype[k] # 0
  BY <1>1
<1>3. ~LosesSource(k)
  <2>1. SUFFICES ASSUME LosesSource(k) PROVE FALSE
    OBVIOUS
  <2>2. Kept(k) = {} /\ Added(k) = {}
    BY <2>1 DEF Started, Moved, Revived, LosesSource
  <2>3. pendingRemoved[k] # {}
    BY <2>1 DEF LosesSource, Removed
  <2>. QED  BY <1>2, <2>2, <2>3 DEF Emptied
<1>. QED  BY <1>1, <1>2, <1>3 DEF Started

LEMMA ProcessKeepsIndexes ==
    ASSUME IndexInv, ProcessChanges
    PROVE  index' = index
<1>1. phase = "compose" /\ todo = {} /\ roots' = {source'[k] : k \in Started}
      /\ index' = WithAncestors(roots', index)
  BY ProcessMeans
<1>2. ASSUME NEW p \in ScenePaths, index[p] = Nothing, NEW q \in roots', p \in Ancestors[q]
      PROVE  FALSE
  <2>1. q \in ScenePaths /\ index[q] # Nothing
    BY <1>1, NewSources, KindsAre
  <2>2. index[p] \in PrimKinds
    BY <1>1, <1>2, <2>1, AllComputed DEF WellPlaced
  <2>. QED  BY <1>2, <2>2, KindsAre
<1>3. index' = [p \in ScenePaths |-> index[p]]
  BY <1>1, <1>2 DEF WithAncestors
<1>. QED  BY <1>3 DEF IndexInv, InstanceTyped

(* Once it has told of something, a round loses no sources: what it has    *)
(* told of stays.                                                          *)
LEMMA ToldStays ==
    ASSUME IndexInv, PrimsInv, ProcessChanges, NEW r \in DOMAIN told
    PROVE  /\ r[1] \in Instanceable /\ r[1] \notin Created \cup Started
           /\ prototype'[r[1]] = prototype[r[1]] /\ source'[r[1]] = source[r[1]]
<1>. DEFINE k == r[1]
<1>1. /\ phase = "compose" /\ todo = {}
      /\ prototype'[k] = IF k \in Created THEN last + 1
                         ELSE IF k \in Emptied THEN 0 ELSE prototype[k]
  <2>1. k \in Instanceable
    BY DEF PrimsInv, ToldFit
  <2>. QED  BY <2>1, ProcessMeans
<1>2. k \in Instanceable /\ r = Proto(k) /\ prototype[k] # 0
  BY ProtoTree DEF PrimsInv, ToldFit
<1>3. pendingRemoved[k] = {}
  BY <1>1, <1>2 DEF PrimsInv, ToldFit
<1>4. k \notin Created /\ k \notin Emptied /\ ~LosesSource(k)
  BY <1>2, <1>3 DEF Created, Emptied, LosesSource, Removed
<1>5. source[k] # Nothing
  BY <1>2, KindsAre DEF IndexInv, MapsFit
<1>6. k \notin Started
  BY <1>4, <1>5 DEF Started, Moved, Revived
<1>. QED  BY <1>1, <1>2, <1>4, <1>6, KeptTrees

LEMMA ProcessChangesKeepsPrims ==
    ASSUME IndexInv, PrimsInv, ProcessChanges
    PROVE  PrimsInv'
<1>. DEFINE N == {<<k, prototype'[k]>> : k \in Created \cup Started}
<1>1. /\ phase = "compose" /\ todo = {} /\ phase' # "idle"
      /\ prototype' = [k \in Instanceable |->
             IF k \in Created THEN last + 1 ELSE IF k \in Emptied THEN 0 ELSE prototype[k]]
      /\ last' = IF Created = {} THEN last ELSE last + 1
      /\ pendingRemoved' = [k \in Instanceable |-> {}]
      /\ pendingAdded' = [k \in Instanceable |-> <<>>]
      /\ todo' = {source'[k] : k \in Started}
  BY ProcessMeans
<1>2. /\ told' = [r \in N \cup DOMAIN told |->
                        IF r \in N THEN source'[r[1]] ELSE told[r]]
      /\ dead' = dead \cup {Proto(k) : k \in Emptied}
      /\ UNCHANGED <<didChangeSignificantly, pathsToRecompose, primIndex, stale>>
  BY DEF ProcessChanges, Started, sceneVars, stageVars
<1>3. index' = index
  BY ProcessKeepsIndexes
<1>4. /\ DOMAIN told' = N \cup DOMAIN told
      /\ \A r \in N : told'[r] = source'[r[1]]
      /\ \A r \in DOMAIN told \ N : told'[r] = told[r]
  <2>. HIDE DEF N
  <2>. QED  BY <1>2
<1>5. Created \subseteq Instanceable /\ Started \subseteq Instanceable
      /\ Created \cap Started = {}
  BY DEF Created, Started, Moved, Revived, LosesSource
<1>6. \A k \in Created \cup Started :
          /\ k \in Instanceable /\ <<k, prototype'[k]>> \in N
          /\ Proto(k)' = <<k, prototype'[k]>> /\ prototype'[k] # 0
  <2>1. last \in Nat
    BY DEF IndexInv, InstanceTyped
  <2>2. \A k \in Created : prototype'[k] # 0
    BY <1>1, <1>5, <2>1
  <2>3. \A k \in Started : prototype'[k] # 0
    BY NewSources
  <2>. QED  BY <1>5, <2>2, <2>3 DEF Proto
<1>7. \A r \in DOMAIN told : r \notin N /\ r[1] \in Instanceable /\ told'[r] = told[r]
  BY <1>4, ToldStays
<1>8. RecomposedFit'
  BY <1>1, <1>2 DEF PrimsInv, RecomposedFit
<1>9. Changing' = Changing
  BY <1>2 DEF Changing, AtOrBelow
<1>10. \A x \in ScenePaths : x \in Reached' <=>
           x \in Reached \/ \E k \in Created \cup Started :
               source'[k] = x \/ source'[k] \in Ancestors[x]
  <2>1. ASSUME NEW x \in ScenePaths
        PROVE  x \in Reached' <=>
                   x \in Reached \/ \E k \in Created \cup Started :
                       source'[k] = x \/ source'[k] \in Ancestors[x]
    <3>1. x \in Reached' <=> \E q \in pathsToRecompose \cup {told'[r] : r \in DOMAIN told'} :
                                 q = x \/ q \in Ancestors[x]
      BY <1>2, <2>1, UnderMeans DEF Reached
    <3>2. x \in Reached <=> \E q \in pathsToRecompose \cup {told[r] : r \in DOMAIN told} :
                                q = x \/ q \in Ancestors[x]
      BY <2>1, UnderMeans DEF Reached
    <3>3. {told'[r] : r \in DOMAIN told'} =
              {told[r] : r \in DOMAIN told} \cup {source'[k] : k \in Created \cup Started}
      <4>1. \A r \in N : told'[r] \in {source'[k] : k \in Created \cup Started}
        BY <1>4
      <4>2. \A k \in Created \cup Started : <<k, prototype'[k]>> \in DOMAIN told' /\
                told'[<<k, prototype'[k]>>] = source'[k]
        BY <1>4, <1>6
      <4>3. DOMAIN told \subseteq DOMAIN told' /\ \A r \in DOMAIN told : told'[r] = told[r]
        BY <1>4, <1>7
      <4>4. \A r \in DOMAIN told' : r \in N \/ r \in DOMAIN told
        BY <1>4
      <4>. HIDE DEF N
      <4>5. {told'[r] : r \in DOMAIN told'} \subseteq
                {told[r] : r \in DOMAIN told} \cup {source'[k] : k \in Created \cup Started}
        BY <4>1, <4>3, <4>4
      <4>6. {source'[k] : k \in Created \cup Started} \subseteq {told'[r] : r \in DOMAIN told'}
        BY <4>2
      <4>7. {told[r] : r \in DOMAIN told} \subseteq {told'[r] : r \in DOMAIN told'}
        BY <4>3
      <4>. QED  BY <4>5, <4>6, <4>7
    <3>. QED  BY <3>1, <3>2, <3>3
  <2>. QED  BY <2>1
<1>11. TasksFit'
  <2>1. \A k \in Instanceable : Added(k)' = {}
    BY <1>1 DEF Added, ToSet
  <2>2. \A k \in Started : source'[k] \in ScenePaths
    BY NewSources
  <2>. QED  BY <1>1, <1>10, <2>1, <2>2 DEF TasksFit
<1>12. \A k \in Instanceable :
           prototype'[k] # 0 /\ Proto(k)' \notin DOMAIN told' =>
               /\ prototype[k] # 0 /\ Proto(k)' = Proto(k) /\ source'[k] = source[k]
               /\ Proto(k) \notin DOMAIN told /\ k \notin Created \cup Started
  <2>1. ASSUME NEW k \in Instanceable, prototype'[k] # 0, Proto(k)' \notin DOMAIN told'
        PROVE  /\ prototype[k] # 0 /\ Proto(k)' = Proto(k) /\ source'[k] = source[k]
               /\ Proto(k) \notin DOMAIN told /\ k \notin Created \cup Started
    <3>1. k \notin Created \cup Started
      BY <1>4, <1>6, <2>1
    <3>2. prototype'[k] = prototype[k] /\ source'[k] = source[k]
      BY <2>1, <3>1, KeptTrees
    <3>. QED  BY <1>4, <2>1, <3>1, <3>2 DEF Proto
  <2>. QED  BY <2>1
<1>13. ToldFit'
  <2>1. ASSUME NEW r \in DOMAIN told'
        PROVE  /\ r[1] \in Instanceable /\ r = Proto(r[1])' /\ r[2] # 0
               /\ told'[r] = source'[r[1]]
    <3>1. CASE r \in N
      <4>1. PICK k \in Created \cup Started : r = <<k, prototype'[k]>>
        BY <3>1
      <4>. QED  BY <1>4, <1>6, <3>1, <4>1 DEF Proto
    <3>2. CASE r \notin N
      <4>1. r \in DOMAIN told
        BY <1>4, <3>2
      <4>2. /\ r[1] \in Instanceable /\ r = Proto(r[1]) /\ r[2] # 0
            /\ told[r] = source[r[1]]
        BY <4>1 DEF PrimsInv, ToldFit
      <4>3. prototype'[r[1]] = prototype[r[1]] /\ source'[r[1]] = source[r[1]]
        BY <4>1, ToldStays
      <4>. QED  BY <1>7, <4>1, <4>2, <4>3 DEF Proto
    <3>. QED  BY <3>1, <3>2
  <2>2. ASSUME NEW k \in Instanceable, prototype'[k] # 0, Proto(k)' \notin DOMAIN told',
               source'[k] \in Reached'
        PROVE  source[k] \in Changing
    <3>. DEFINE x == source[k]
    <3>1. /\ prototype[k] # 0 /\ source'[k] = x /\ Proto(k) \notin DOMAIN told
          /\ k \notin Created \cup Started
      BY <1>12, <2>2
    <3>2. x \in ScenePaths /\ instanceOf[x] = k
      BY <3>1 DEF IndexInv, MapsFit
    <3>3. index[x] = k
      <4>1. source'[k] \in instances'[k]
        BY <2>2, NewSources
      <4>. QED  BY <3>1, <3>2, <4>1, NewInstances
    <3>4. WellPlaced(x)
      BY <1>1, <3>2, <3>3, AllComputed, KindsAre
    <3>5. x \in Reached
      <4>1. CASE x \in Reached
        BY <4>1
      <4>2. ASSUME NEW j \in Created, source'[j] = x \/ source'[j] \in Ancestors[x]
            PROVE  x \in Reached
        <5>1. Added(j) # {} /\ source'[j] = Head(pendingAdded[j]) /\ j \in Instanceable
          BY <1>5, ProcessMeans DEF Created
        <5>2. source'[j] \in Added(j)
          BY <1>1, <5>1, AllComputed
        <5>3. source'[j] \in Reached
          BY <5>1, <5>2 DEF PrimsInv, TasksFit
        <5>. QED  BY <3>2, <4>2, <5>3, UnderCloses DEF Reached
      <4>3. ASSUME NEW j \in Started, source'[j] = x \/ source'[j] \in Ancestors[x]
            PROVE  FALSE
        <5>1. j \in Instanceable /\ source'[j] \in ScenePaths /\ index[source'[j]] = j
          BY NewSources
        <5>2. source'[j] # x
          BY <3>1, <3>3, <4>3, <5>1
        <5>3. SourceOf(j) = source'[j]
          BY <3>4, <4>3, <5>1, <5>2 DEF WellPlaced
        <5>. QED  BY <4>3, <5>1, <5>3, NewSources
      <4>. QED  BY <1>10, <2>2, <3>1, <3>2, <4>1, <4>2, <4>3
    <3>. QED  BY <3>1, <3>5 DEF PrimsInv, ToldFit
  <2>. QED  BY <1>1, <1>9, <1>12, <2>1, <2>2 DEF ToldFit
<1>14. NumbersFit'
  <2>1. /\ last \in Nat /\ last' \in Nat /\ last <= last'
        /\ \A k \in Instanceable : prototype[k] \in Nat /\ prototype[k] <= last
    BY <1>1 DEF IndexInv, InstanceTyped, PrimsInv, NumbersFit
  <2>2. ASSUME NEW r \in dead'
        PROVE  r[1] \in Instanceable /\ r[2] \in 1 .. last' /\ r # Proto(r[1])'
    <3>1. CASE r \in dead
      <4>1. r[1] \in Instanceable /\ r[2] \in 1 .. last /\ r # Proto(r[1])
        BY <3>1 DEF PrimsInv, NumbersFit
      <4>. DEFINE k == r[1]
      <4>2. k \in Created => prototype'[k] = last + 1
        BY <1>1, <4>1
      <4>3. k \notin Created => prototype'[k] = 0 \/ prototype'[k] = prototype[k]
        BY <1>1, <4>1
      <4>4. Proto(r[1])' = <<k, prototype'[k]>>
        BY DEF Proto
      <4>5. r # <<k, prototype'[k]>>
        <5>1. CASE k \in Created
          BY <2>1, <4>1, <4>2, <5>1
        <5>2. CASE prototype'[k] = 0
          BY <4>1, <5>2
        <5>3. CASE prototype'[k] = prototype[k]
          BY <4>1, <5>3 DEF Proto
        <5>. QED  BY <4>3, <5>1, <5>2, <5>3
      <4>. QED  BY <2>1, <4>1, <4>4, <4>5
    <3>2. CASE r \notin dead
      <4>1. PICK k \in Emptied : r = Proto(k)
        BY <1>2, <3>2
      <4>2. k \in Instanceable /\ prototype[k] # 0
        BY <4>1 DEF Emptied
      <4>3. prototype'[k] = 0
        BY <1>1, <4>1, <4>2 DEF Created
      <4>4. r[1] = k /\ r[2] = prototype[k]
        BY <4>1 DEF Proto
      <4>5. Proto(k)' = <<k, 0>>
        BY <4>3 DEF Proto
      <4>. QED  BY <2>1, <4>2, <4>3, <4>4, <4>5 DEF Proto
    <3>. QED  BY <3>1, <3>2
  <2>3. \A k \in Instanceable : prototype'[k] <= last'
    <3>1. ASSUME NEW k \in Instanceable  PROVE prototype'[k] <= last'
      <4>1. k \in Created => prototype'[k] = last + 1 /\ last' = last + 1
        BY <1>1
      <4>2. k \notin Created => prototype'[k] = 0 \/ prototype'[k] = prototype[k]
        BY <1>1
      <4>. QED  BY <2>1, <4>1, <4>2
    <3>. QED  BY <3>1
  <2>. QED  BY <2>2, <2>3 DEF NumbersFit
<1>15. RootFits'
  BY <1>1, <1>3 DEF PrimsInv, RootFits
<1>16. \A r \in Untold' : r \in Untold /\ TopOf(r)' = TopOf(r)
  <2>1. ASSUME NEW r \in Untold'  PROVE r \in Untold /\ TopOf(r)' = TopOf(r)
    <3>1. r \in Trees' /\ r \notin DOMAIN told'
      BY <2>1 DEF Untold
    <3>2. CASE r = Stage
      BY <1>4, <3>1, <3>2 DEF Untold, Trees, TopOf
    <3>3. CASE r # Stage
      <4>1. PICK k \in Instanceable : r = Proto(k)' /\ prototype'[k] # 0
        BY <3>1, <3>3 DEF Trees
      <4>2. /\ r = Proto(k) /\ prototype[k] # 0 /\ source'[k] = source[k]
            /\ Proto(k) \notin DOMAIN told
        BY <1>12, <3>1, <4>1
      <4>3. r \in Untold
        BY <4>2, ProtoTree DEF Untold
      <4>4. r[1] = k
        BY <4>2, ProtoTree
      <4>. QED  BY <3>3, <4>2, <4>3, <4>4 DEF TopOf
    <3>. QED  BY <3>2, <3>3
  <2>. QED  BY <2>1
<1>17. \A r \in Untold' : \A q : (Inside(r, q)' <=> Inside(r, q))
                              /\ (Visible(r, q)' <=> Visible(r, q))
  <2>1. \A r \in Untold' : \A q : Inside(r, q)' <=> Inside(r, q)
    BY <1>16 DEF Inside
  <2>. QED  BY <1>3, <1>16, <2>1 DEF Visible
<1>18. TreesFit'
  <2>1. ASSUME NEW r \in Trees  PROVE r \in dead' \/ r \in Trees'
    <3>1. CASE r = Stage
      BY <3>1 DEF Trees
    <3>2. CASE r # Stage
      <4>1. PICK k \in Instanceable : r = Proto(k) /\ prototype[k] # 0
        BY <3>2 DEF Trees
      <4>2. k \notin Created
        BY <4>1 DEF Created
      <4>3. CASE k \in Emptied
        BY <1>2, <4>1, <4>3
      <4>4. CASE k \notin Emptied
        <5>1. prototype'[k] = prototype[k]
          BY <1>1, <4>2, <4>4
        <5>2. r = Proto(k)'
          BY <4>1, <5>1 DEF Proto
        <5>. QED  BY <4>1, <5>1, <5>2 DEF Trees
      <4>. QED  BY <4>3, <4>4
    <3>. QED  BY <3>1, <3>2
  <2>2. \A r \in dead : r \in dead'
    BY <1>2
  <2>. QED  BY <1>2, <1>3, <1>9, <1>16, <1>17, <2>1, <2>2 DEF PrimsInv, TreesFit
<1>19. PrimsFit'
  BY <1>2, <1>9, <1>16, <1>17 DEF PrimsInv, PrimsFit
<1>20. StaleFit'
  BY <1>2, <1>9 DEF PrimsInv, StaleFit
<1>. QED  BY <1>8, <1>11, <1>13, <1>14, <1>15, <1>18, <1>19, <1>20 DEF PrimsInv

LEMMA CurrentIndexes ==
    ASSUME IndexInv, phase # "compose", didChangeSignificantly = {}
    PROVE  \A x \in ScenePaths : index[x] # Nothing => index[x] = KindAt(x)
<1>1. CASE phase = "idle"
  <2>1. AtOrBelow(didChangeSignificantly) = {}
    BY DEF AtOrBelow
  <2>. QED  BY <1>1, <2>1, CurrentIfUnchanged
<1>2. CASE phase # "idle"
  BY <1>2 DEF IndexInv, KindsFit
<1>. QED  BY <1>1, <1>2

(* The source of a prototype: the index of its topmost prim.               *)
LEMMA TopIndex ==
    ASSUME IndexInv, phase # "compose", NEW r \in Trees, r # Stage
    PROVE  index[TopOf(r)] = r[1] /\ r[1] \in Instanceable /\ SourceOf(r[1]) = TopOf(r)
<1>1. /\ r[1] \in Instanceable /\ source[r[1]] = TopOf(r) /\ instanceOf[TopOf(r)] = r[1]
      /\ TopOf(r) \in ScenePaths
  BY TreesAre
<1>. QED  BY <1>1, AtRest

(* What is there is what what is above it has.                             *)
LEMMA HasAlong ==
    ASSUME IndexInv, phase # "compose", didChangeSignificantly = {},
           NEW x \in ScenePaths, index[x] \in PrimKinds, NEW q \in Ancestors[x]
    PROVE  index[q] \in PrimKinds /\ Has(index[q], x[Len(q) + 1])
<1>1. PICK c \in ScenePaths \ {PseudoRoot} : Parent(c) = q /\ (c = x \/ c \in Ancestors[x])
  BY StepTowards
<1>2. WellPlaced(x)
  BY AtRest, KindsAre
<1>3. /\ q \in ScenePaths /\ index[c] \in PrimKinds /\ index[q] \in PrimKinds
  BY <1>1, <1>2, AncestorsOrder DEF WellPlaced
<1>4. index[c] = KindAt(c) /\ index[q] = KindAt(q)
  BY <1>1, <1>3, CurrentIndexes, KindsAre
<1>5. /\ KindAt(c) = ChildKind(KindAt(q), c[Len(c)])
      /\ c[Len(c)] \in Names /\ Len(c) \in Nat \ {0} /\ Len(q) = Len(c) - 1
  BY <1>1, KindStep, ParentMeans
<1>6. Has(index[q], c[Len(c)])
  BY <1>3, <1>4, <1>5, KindsOfChildren DEF IndexInv
<1>7. c[Len(c)] = x[Len(q) + 1]
  <2>1. IsPrefix(c, x)
    BY <1>1, PathPrefixesMean
  <2>2. \A i \in 1 .. Len(c) : c[i] = x[i]
    <3>1. c \in Seq(Names) /\ x \in Seq(Names)
      BY <1>1, PathsAreSeqs
    <3>. QED  BY <2>1, <3>1, SeqPrefixMeans
  <2>3. Len(q) + 1 = Len(c) /\ Len(c) \in 1 .. Len(c)
    BY <1>5
  <2>. QED  BY <2>2, <2>3
<1>. QED  BY <1>3, <1>6, <1>7

(* A child that an index has has an index itself.                          *)
LEMMA ChildIsComposed ==
    ASSUME IndexInv, phase # "compose", didChangeSignificantly = {},
           NEW x \in ScenePaths \ {PseudoRoot}, index[Parent(x)] \in PrimKinds,
           index[Parent(x)] \in Instanceable => SourceOf(index[Parent(x)]) = Parent(x),
           Has(index[Parent(x)], x[Len(x)])
    PROVE  index[x] \in PrimKinds
<1>. DEFINE q == Parent(x)
            n == x[Len(x)]
<1>1. q \in ScenePaths /\ n \in Names /\ x = Append(q, n)
  BY ParentMeans
<1>2. x \in ChildrenOf(q, index[q])
  BY <1>1 DEF ChildrenOf
<1>3. index[x] # Nothing
  <2>1. Open = {} /\ todo = {}
    BY AtRest
  <2>. QED  BY <1>1, <1>2, <2>1 DEF IndexInv, ChildrenFit
<1>4. index[x] = KindAt(x) /\ index[q] = KindAt(q)
  BY <1>1, <1>3, CurrentIndexes, KindsAre
<1>5. KindAt(x) = ChildKind(KindAt(q), n)
  BY KindStep
<1>. QED  BY <1>1, <1>4, <1>5, KindsOfChildren DEF IndexInv

(* So everything that is had along the way from a to x has an index.       *)
LEMMA ComposedAlong ==
    ASSUME IndexInv, phase # "compose", didChangeSignificantly = {},
           NEW a \in ScenePaths, index[a] \in PrimKinds,
           NEW x \in ScenePaths, IsPrefix(a, x),
           \A q \in Ancestors[x] : IsPrefix(a, q) =>
               /\ Has(index[q], x[Len(q) + 1])
               /\ index[q] \in Instanceable => SourceOf(index[q]) = q
    PROVE  index[x] \in PrimKinds
<1>. DEFINE B == {q \in ScenePaths : /\ q = x \/ q \in Ancestors[x]
                                     /\ IsPrefix(a, q) /\ index[q] \notin PrimKinds}
<1>1. SUFFICES ASSUME x \in B PROVE FALSE
  OBVIOUS
<1>2. PICK q \in Topmost(B) : TRUE
  <2>1. B \in SUBSET ScenePaths
    OBVIOUS
  <2>. HIDE DEF B
  <2>. QED  BY <1>1, <2>1, TopmostAbove
<1>3. /\ q \in ScenePaths /\ (q = x \/ q \in Ancestors[x]) /\ IsPrefix(a, q)
      /\ index[q] \notin PrimKinds /\ \A r \in Ancestors[q] : r \notin B
  BY DEF Topmost
<1>4. a \in Ancestors[q]
  BY <1>3, PathPrefixesMean
<1>5. q # PseudoRoot
  BY <1>4, AncestorsOrder
<1>. DEFINE r == Parent(q)
<1>6. /\ r \in ScenePaths /\ r \in Ancestors[q] /\ Ancestors[q] = Ancestors[r] \cup {r}
      /\ Len(q) \in Nat \ {0} /\ Len(r) = Len(q) - 1
  BY <1>3, <1>5, ParentMeans
<1>7. IsPrefix(a, r)
  BY <1>4, <1>6, PathPrefixesMean
<1>8. r \in Ancestors[x]
  BY <1>3, <1>6, AncestorsOrder
<1>9. index[r] \in PrimKinds
  BY <1>3, <1>6, <1>7, <1>8
<1>10. /\ Has(index[r], x[Len(r) + 1])
       /\ index[r] \in Instanceable => SourceOf(index[r]) = r
  BY <1>7, <1>8
<1>11. x[Len(r) + 1] = q[Len(q)]
  <2>1. IsPrefix(q, x) /\ q \in Seq(Names) /\ x \in Seq(Names)
    BY <1>3, PathPrefixesMean, PathsAreSeqs
  <2>2. \A i \in 1 .. Len(q) : q[i] = x[i]
    BY <2>1, SeqPrefixMeans
  <2>3. Len(r) + 1 = Len(q) /\ Len(q) \in 1 .. Len(q)
    BY <1>6
  <2>. QED  BY <2>2, <2>3
<1>. HIDE DEF B
<1>12. index[q] \in PrimKinds
  BY <1>3, <1>5, <1>9, <1>10, <1>11, ChildIsComposed
<1>. QED  BY <1>3, <1>12

-----------------------------------------------------------------------------
(* What _ComposeSubtree makes                                              *)

SubtreePaths(s, p) ==
    {q \in ScenePaths : IsPrefix(p, q) /\
        \A r \in Ancestors[q] : IsPrefix(p, r) =>
            /\ Has(index[r], q[Len(r) + 1])
            /\ index[r] \in Instanceable => r = p /\ ~IsInstance(s)}

LEMMA SubtreeMeans ==
    ASSUME NEW r, NEW y \in Seq(Names), NEW p \in ScenePaths
    PROVE  /\ \A q \in SubtreePaths(<<r, y>>, p) :
                  /\ Rel(p, q) \in Seq(Names) /\ p \o Rel(p, q) = q
                  /\ <<r, y \o Rel(p, q)>> \in DOMAIN Subtree(<<r, y>>, p)
                  /\ Subtree(<<r, y>>, p)[<<r, y \o Rel(p, q)>>] = q
           /\ \A t \in DOMAIN Subtree(<<r, y>>, p) :
                  \E q \in SubtreePaths(<<r, y>>, p) : t = <<r, y \o Rel(p, q)>>
<1>. DEFINE s == <<r, y>>
            D == {<<r, y \o Rel(p, q)>> : q \in SubtreePaths(s, p)}
<1>1. Subtree(s, p) = [t \in D |-> p \o Rel(y, t[2])]
  BY DEF Subtree, SubtreePaths, Rel
<1>2. ASSUME NEW q \in SubtreePaths(s, p)
      PROVE  /\ Rel(p, q) \in Seq(Names) /\ p \o Rel(p, q) = q
             /\ <<r, y \o Rel(p, q)>> \in D
             /\ Subtree(s, p)[<<r, y \o Rel(p, q)>>] = q
  <2>1. q \in ScenePaths /\ IsPrefix(p, q) /\ q \in Seq(Names) /\ p \in Seq(Names)
    BY PathsAreSeqs DEF SubtreePaths
  <2>2. Rel(p, q) \in Seq(Names) /\ p \o Rel(p, q) = q
    BY <2>1, RelMeans
  <2>. DEFINE z == Rel(p, q)
              t == <<r, y \o z>>
  <2>3. t \in D
    OBVIOUS
  <2>4. Rel(y, y \o z) = z
    <3>. HIDE DEF z
    <3>. QED  BY <2>2, Joined DEF z
  <2>5. Subtree(s, p)[t] = p \o Rel(y, t[2])
    BY <1>1, <2>3
  <2>6. t[2] = y \o z
    OBVIOUS
  <2>. QED  BY <2>2, <2>3, <2>4, <2>5, <2>6
<1>3. DOMAIN Subtree(s, p) = D
  BY <1>1
<1>. QED  BY <1>2, <1>3

(* From a prim that is to be there, it makes those below it that are.      *)
LEMMA SubtreeIsVisible ==
    ASSUME IndexInv, phase # "compose", didChangeSignificantly = {},
           NEW r \in Trees, NEW y \in Seq(Names), TopOf(r) \o y \in ScenePaths,
           Visible(r, TopOf(r) \o y), NEW x \in ScenePaths
    PROVE  x \in SubtreePaths(<<r, y>>, TopOf(r) \o y) <=>
               IsPrefix(TopOf(r) \o y, x) /\ Visible(r, x)
<1>. DEFINE b == TopOf(r)
            p == b \o y
            s == <<r, y>>
<1>1. b \in ScenePaths /\ b \in Seq(Names) /\ p \in ScenePaths /\ (p = b <=> y = <<>>)
      /\ IsPrefix(b, p)
  <2>1. b \in ScenePaths /\ b \in Seq(Names)
    BY TreesAre
  <2>. QED  BY <2>1, Joined
<1>2. Visible(r, p)
  OBVIOUS
<1>3. IsInstance(s) <=> y # <<>> \/ r = Stage
  BY DEF IsInstance, PseudoRoot
<1>. HIDE DEF p
<1>4. \A q \in ScenePaths : IsPrefix(p, q) =>
          /\ IsPrefix(b, q)
          /\ Inside(r, q) <=> ~(q = p /\ ~IsInstance(s))
  <2>1. ASSUME NEW q \in ScenePaths, IsPrefix(p, q)
        PROVE  IsPrefix(b, q) /\ (Inside(r, q) <=> ~(q = p /\ ~IsInstance(s)))
    <3>1. /\ p = q \/ p \in Ancestors[q]
          /\ b = p \/ b \in Ancestors[p]
      BY <1>1, <2>1, PathPrefixesMean
    <3>2. b = q \/ b \in Ancestors[q]
      BY <2>1, <3>1, AncestorsOrder
    <3>3. IsPrefix(b, q)
      BY <1>1, <2>1, <3>2, PathPrefixesMean
    <3>4. q = b => p = b
      BY <1>1, <2>1, <3>1, AncestorsOrder
    <3>. QED  BY <1>1, <1>3, <3>3, <3>4 DEF Inside
  <2>. QED  BY <2>1
<1>5. \A q \in Ancestors[x] : q \in ScenePaths
  BY AncestorsOrder
<1>6. ASSUME IsPrefix(p, x), Visible(r, x)  PROVE x \in SubtreePaths(s, p)
  <2>1. ASSUME NEW q \in Ancestors[x], IsPrefix(p, q)
        PROVE  /\ Has(index[q], x[Len(q) + 1])
               /\ index[q] \in Instanceable => q = p /\ ~IsInstance(s)
    <3>1. Has(index[q], x[Len(q) + 1])
      BY <1>6, HasAlong DEF Visible
    <3>2. Inside(r, q) => index[q] \notin Instanceable
      BY <1>6 DEF Visible
    <3>. QED  BY <1>4, <1>5, <2>1, <3>1, <3>2
  <2>. QED  BY <1>6, <2>1 DEF SubtreePaths
<1>7. ASSUME x \in SubtreePaths(s, p)  PROVE IsPrefix(p, x) /\ Visible(r, x)
  <2>1. /\ IsPrefix(p, x)
        /\ \A q \in Ancestors[x] : IsPrefix(p, q) =>
               /\ Has(index[q], x[Len(q) + 1])
               /\ index[q] \in Instanceable => q = p /\ ~IsInstance(s)
    BY <1>7 DEF SubtreePaths
  <2>2. index[p] \in PrimKinds
    BY <1>2 DEF Visible
  <2>3. ASSUME NEW q \in Ancestors[x], IsPrefix(p, q), index[q] \in Instanceable
        PROVE  SourceOf(index[q]) = q
    <3>1. q = p /\ y = <<>> /\ r # Stage
      BY <1>3, <2>1, <2>3
    <3>2. q = b
      BY <1>1, <3>1
    <3>. QED  BY <3>1, <3>2, TopIndex
  <2>4. index[x] \in PrimKinds
    BY <1>1, <2>1, <2>2, <2>3, ComposedAlong
  <2>5. ASSUME NEW q \in Ancestors[x], Inside(r, q)  PROVE index[q] \notin Instanceable
    <3>1. CASE IsPrefix(p, q)
      BY <1>4, <1>5, <2>1, <2>5, <3>1
    <3>2. CASE ~IsPrefix(p, q)
      <4>1. p = x \/ p \in Ancestors[x]
        BY <1>1, <2>1, PathPrefixesMean
      <4>2. q # p /\ p \notin Ancestors[q]
        BY <1>1, <1>5, <3>2, PathPrefixesMean
      <4>3. q \in Ancestors[p]
        BY <4>1, <4>2, AncestorsOrder
      <4>. QED  BY <1>2, <2>5, <4>3 DEF Visible
    <3>. QED  BY <3>1, <3>2
  <2>. QED  BY <1>1, <1>4, <2>1, <2>4, <2>5 DEF Visible
<1>. QED  BY <1>6, <1>7 DEF p

(* The topmost prim of a tree is always to be there.                       *)
LEMMA TopIsVisible ==
    ASSUME IndexInv, PrimsInv, phase # "compose", didChangeSignificantly = {},
           NEW r \in Trees
    PROVE  Visible(r, TopOf(r)) /\ TopOf(r) \o PseudoRoot = TopOf(r)
<1>1. TopOf(r) \in ScenePaths /\ TopOf(r) \in Seq(Names)
  BY TreesAre
<1>2. IsPrefix(TopOf(r), TopOf(r)) /\ TopOf(r) \o PseudoRoot = TopOf(r)
  BY <1>1, SeqPrefixOrder, Joined DEF PseudoRoot
<1>3. CASE r = Stage
  <2>1. TopOf(r) = PseudoRoot
    BY <1>3 DEF TopOf
  <2>2. index[PseudoRoot] # Nothing
    BY AtRest, KindsAre DEF PrimsInv, RootFits
  <2>3. index[PseudoRoot] = StageKind
    BY <2>2, CurrentIndexes, KindStep, KindsAre
  <2>. QED  BY <1>2, <2>1, <2>3, KindsAre, AncestorsOrder DEF Visible
<1>4. CASE r # Stage
  <2>1. index[TopOf(r)] \in PrimKinds
    BY <1>4, TopIndex, KindsAre
  <2>2. ASSUME NEW q \in Ancestors[TopOf(r)]  PROVE ~Inside(r, q)
    <3>1. q \in ScenePaths /\ TopOf(r) \notin Ancestors[q] /\ q # TopOf(r)
      BY <1>1, AncestorsOrder
    <3>. QED  BY <1>1, <3>1, PathPrefixesMean DEF Inside
  <2>. QED  BY <1>2, <2>1, <2>2 DEF Visible
<1>. QED  BY <1>2, <1>3, <1>4

(* A prim that is to be there has a parent that is to be there, and is     *)
(* among the children of it.                                               *)
LEMMA VisibleBelow ==
    ASSUME IndexInv, phase # "compose", didChangeSignificantly = {},
           NEW r \in Trees, NEW x \in ScenePaths \ {PseudoRoot}, IsPrefix(TopOf(r), Parent(x))
    PROVE  Visible(r, x) <=>
               /\ Visible(r, Parent(x)) /\ Has(index[Parent(x)], x[Len(x)])
               /\ Inside(r, Parent(x)) => index[Parent(x)] \notin Instanceable
<1>. DEFINE q == Parent(x)
            b == TopOf(r)
<1>1. /\ q \in ScenePaths /\ q \in Ancestors[x] /\ Ancestors[x] = Ancestors[q] \cup {q}
      /\ Len(x) \in Nat \ {0} /\ Len(q) = Len(x) - 1 /\ b \in ScenePaths
  BY ParentMeans, TreesAre
<1>2. IsPrefix(b, x)
  BY <1>1, PathPrefixesMean
<1>3. ASSUME Visible(r, x)
      PROVE  /\ Visible(r, q) /\ Has(index[q], x[Len(x)])
             /\ Inside(r, q) => index[q] \notin Instanceable
  <2>1. index[q] \in PrimKinds /\ Has(index[q], x[Len(q) + 1])
    BY <1>1, <1>3, HasAlong DEF Visible
  <2>2. Len(q) + 1 = Len(x)
    BY <1>1
  <2>. QED  BY <1>1, <1>3, <2>1, <2>2 DEF Visible
<1>4. ASSUME Visible(r, q), Has(index[q], x[Len(x)]),
             Inside(r, q) => index[q] \notin Instanceable
      PROVE  Visible(r, x)
  <2>1. index[q] \in Instanceable => SourceOf(index[q]) = q
    <3>1. SUFFICES ASSUME index[q] \in Instanceable PROVE SourceOf(index[q]) = q
      OBVIOUS
    <3>2. r # Stage /\ q = b
      BY <1>4, <3>1 DEF Inside
    <3>. QED  BY <3>2, TopIndex
  <2>2. index[x] \in PrimKinds
    BY <1>4, <2>1, ChildIsComposed DEF Visible
  <2>. QED  BY <1>1, <1>2, <1>4, <2>2 DEF Visible
<1>. QED  BY <1>3, <1>4

(* IsChild finds so, where nothing above is recomposed.                    *)
LEMMA ChildIsVisible ==
    ASSUME IndexInv, PrimsInv, phase = "stage",
           NEW r \in Untold, NEW y \in Seq(Names), y # <<>>, TopOf(r) \o y \in ScenePaths,
           Parent(TopOf(r) \o y) \notin Changing
    PROVE  IsChild(<<r, y>>) <=> Visible(r, TopOf(r) \o y)
<1>. DEFINE b == TopOf(r)
            x == b \o y
            q == Parent(x)
            z == Front(y)
            t == <<r, z>>
<1>1. r \in Trees /\ b \in ScenePaths /\ b \in Seq(Names)
  BY TreesAre DEF Untold
<1>2. /\ z \in Seq(Names) /\ b \o z = q /\ x # PseudoRoot /\ IsPrefix(b, q)
      /\ y[Len(y)] = x[Len(x)]
  BY <1>1, JoinedParent
<1>3. q \in ScenePaths
  BY <1>2, ParentMeans
<1>4. t \in DOMAIN primIndex <=> Visible(r, q)
  BY <1>2, <1>3 DEF PrimsInv, PrimsFit
<1>5. t \in DOMAIN primIndex => primIndex[t] = q
  BY <1>2 DEF PrimsInv, TreesFit
<1>6. IsInstance(t) <=> Inside(r, q)
  <2>1. q = b <=> z = <<>>
    BY <1>1, <1>2, Joined
  <2>2. IsInstance(t) <=> z # <<>> \/ r = Stage
    BY DEF IsInstance, PseudoRoot
  <2>. QED  BY <1>2, <2>1, <2>2 DEF Inside
<1>7. didChangeSignificantly = {}
  BY DEF IndexInv, PhasesFit
<1>8. Visible(r, x) <=>
          /\ Visible(r, q) /\ Has(index[q], x[Len(x)])
          /\ Inside(r, q) => index[q] \notin Instanceable
  BY <1>1, <1>2, <1>7, VisibleBelow
<1>9. IsChild(<<r, y>>) <=>
          /\ t \in DOMAIN primIndex
          /\ Has(index[primIndex[t]], y[Len(y)])
          /\ index[primIndex[t]] \in Instanceable => ~IsInstance(t)
  BY DEF IsChild, Parent
<1>. HIDE DEF t, x, q, z
<1>10. IsChild(<<r, y>>) <=> Visible(r, x)
  BY <1>2, <1>4, <1>5, <1>6, <1>8, <1>9
<1>. QED  BY <1>10 DEF x

(* What GetPrimsInPrototypes finds is below the source of a tree, and it   *)
(* finds every tree that is to have such a prim.                           *)
LEMMA PrimsFound ==
    ASSUME IndexInv, phase # "compose", didChangeSignificantly = {}, NEW p \in ScenePaths
    PROVE  /\ \A s \in GetPrimsInPrototypes(p) :
                  /\ s = <<s[1], s[2]>> /\ s[1] \in Trees \ {Stage} /\ IsPrefix(TopOf(s[1]), p)
                  /\ s[2] = Rel(TopOf(s[1]), p)
           /\ \A r \in Trees \ {Stage} :
                  /\ TopOf(r) \in Ancestors[p]
                  /\ \A q \in Ancestors[p] : Inside(r, q) => index[q] \notin Instanceable
                  => <<r, Rel(TopOf(r), p)>> \in GetPrimsInPrototypes(p)
<1>1. GetPrimsInPrototypes(p) =
          {<<Proto(k), Rel(source[k], p)>> :
               k \in {k \in Instanceable : source[k] # Nothing /\ \E c \in Walked(p) :
                          KeyAt(c) = k /\ IsPrefix(source[k], c)}}
  BY DEF GetPrimsInPrototypes, Walked, Rel
<1>2. ASSUME NEW s \in GetPrimsInPrototypes(p)
      PROVE  /\ s = <<s[1], s[2]>> /\ s[1] \in Trees \ {Stage} /\ IsPrefix(TopOf(s[1]), p)
             /\ s[2] = Rel(TopOf(s[1]), p)
  <2>1. PICK k \in Instanceable : /\ s = <<Proto(k), Rel(source[k], p)>>
                                  /\ source[k] # Nothing
                                  /\ \E c \in Walked(p) : IsPrefix(source[k], c)
    BY <1>1
  <2>2. prototype[k] # 0 /\ source[k] \in ScenePaths
    BY <2>1, AtRest
  <2>3. Proto(k) \in Trees \ {Stage} /\ TopOf(Proto(k)) = source[k]
    BY <2>2, ProtoTree
  <2>4. PICK c \in Walked(p) : IsPrefix(source[k], c)
    BY <2>1
  <2>5. c \in ScenePaths /\ (c = p \/ c \in Ancestors[p])
    BY <2>4, AncestorsOrder DEF Walked
  <2>6. IsPrefix(source[k], p)
    <3>1. source[k] = c \/ source[k] \in Ancestors[c]
      BY <2>2, <2>4, <2>5, PathPrefixesMean
    <3>2. source[k] = p \/ source[k] \in Ancestors[p]
      BY <2>5, <3>1, AncestorsOrder
    <3>. QED  BY <2>2, <3>2, PathPrefixesMean
  <2>. QED  BY <2>1, <2>3, <2>6
<1>3. ASSUME NEW r \in Trees \ {Stage}, TopOf(r) \in Ancestors[p],
             \A q \in Ancestors[p] : Inside(r, q) => index[q] \notin Instanceable
      PROVE  <<r, Rel(TopOf(r), p)>> \in GetPrimsInPrototypes(p)
  <2>. DEFINE b == TopOf(r)
              k == r[1]
  <2>1. /\ k \in Instanceable /\ r = Proto(k) /\ source[k] = b /\ b \in ScenePaths
        /\ instanceOf[b] = k /\ index[b] = k
    BY TreesAre, TopIndex
  <2>2. b # Nothing /\ instanceOf[b] # Nothing
    BY <2>1, KindsAre
  <2>3. ASSUME NEW q \in Ancestors[p], instanceOf[q] # Nothing
        PROVE  q = b \/ q \in Ancestors[b]
    <3>1. q \in ScenePaths
      BY AncestorsOrder
    <3>2. index[q] \in Instanceable
      BY <2>3, <3>1, AtRest DEF IndexInv, InstanceTyped
    <3>3. ~IsPrefix(b, q) \/ q = b
      BY <1>3, <3>2 DEF Inside
    <3>4. q = b \/ b \notin Ancestors[q]
      BY <2>1, <3>1, <3>3, PathPrefixesMean
    <3>. QED  BY <1>3, <3>4, AncestorsOrder
  <2>4. p # PseudoRoot
    BY <1>3, AncestorsOrder
  <2>5. \E c \in Walked(p) : KeyAt(c) = k /\ IsPrefix(b, c)
    <3>1. CASE instanceOf[p] = Nothing
      <4>1. p \in Walked(p)
        <5>1. \A d \in Ancestors[p] \cup {p} : ~IsStrictPrefix(p, d)
          BY AncestorsOrder, PathPrefixesMean
        <5>. QED  BY <2>4, <5>1 DEF Walked
      <4>2. KeyAt(p) = k
        <5>1. b \in Ancestors[p] \cup {p}
          BY <1>3
        <5>2. \A q \in Ancestors[p] \cup {p} :
                  instanceOf[q] # Nothing => q = b \/ q \in Ancestors[b]
          BY <2>3, <3>1
        <5>3. KeyAt(p) = instanceOf[b]
          BY <2>2, <5>1, <5>2, KeyIs
        <5>. QED  BY <2>1, <5>3
      <4>3. IsPrefix(b, p)
        BY <1>3, <2>1, PathPrefixesMean
      <4>. QED  BY <4>1, <4>2, <4>3
    <3>2. CASE instanceOf[p] # Nothing
      <4>. DEFINE c == Parent(p)
      <4>1. c \in ScenePaths /\ c \in Ancestors[p] /\ Ancestors[p] = Ancestors[c] \cup {c}
        BY <2>4, ParentMeans
      <4>2. c # PseudoRoot
        <5>1. SUFFICES ASSUME c = PseudoRoot PROVE FALSE
          OBVIOUS
        <5>2. b = PseudoRoot
          BY <1>3, <4>1, <5>1, AncestorsOrder
        <5>3. index[PseudoRoot] # Nothing => index[PseudoRoot] = StageKind
          BY CurrentIndexes, KindStep, KindsAre
        <5>. QED  BY <2>1, <5>2, <5>3, KindsAre
      <4>3. c \in Walked(p)
        <5>1. ASSUME NEW d \in Ancestors[p] \cup {p}, IsStrictPrefix(c, d)
              PROVE  instanceOf[d] # Nothing
          <6>1. d \in ScenePaths
            BY AncestorsOrder
          <6>2. c \in Ancestors[d]
            BY <4>1, <5>1, <6>1, PathPrefixesMean
          <6>3. d # c /\ d \notin Ancestors[c]
            BY <4>1, <6>1, <6>2, AncestorsOrder
          <6>. QED  BY <3>2, <4>1, <6>3
        <5>. QED  BY <4>1, <4>2, <5>1 DEF Walked
      <4>4. KeyAt(c) = k
        <5>1. b \in Ancestors[c] \cup {c}
          BY <1>3, <4>1
        <5>2. \A q \in Ancestors[c] \cup {c} :
                  instanceOf[q] # Nothing => q = b \/ q \in Ancestors[b]
          BY <2>3, <4>1
        <5>3. KeyAt(c) = instanceOf[b]
          BY <2>2, <4>1, <5>1, <5>2, KeyIs
        <5>. QED  BY <2>1, <5>3
      <4>5. IsPrefix(b, c)
        BY <1>3, <2>1, <4>1, PathPrefixesMean
      <4>. QED  BY <4>3, <4>4, <4>5
    <3>. QED  BY <3>1, <3>2
  <2>. QED  BY <1>1, <2>1, <2>2, <2>5
<1>. QED  BY <1>2, <1>3

-----------------------------------------------------------------------------
(* What the second half of _RecomposePrims asks for                        *)

(* The path of the index of a prim of a tree.                              *)
At(t) == TopOf(t[1]) \o t[2]

(* What the second half of _RecomposePrims computes on its way.            *)
TreeSources ==
    [r \in DOMAIN told \cup {Proto(k) : k \in WithSourceUnder(pathsToRecompose)} |->
        IF r \in DOMAIN told THEN told[r] ELSE source[r[1]]]
PrimsAsked ==
    {<<Stage, p>> : p \in pathsToRecompose}
        \cup (UNION {GetPrimsInPrototypes(p) : p \in pathsToRecompose})
        \cup {<<r, PseudoRoot>> : r \in DOMAIN TreeSources}
TopPrims ==
    {s \in PrimsAsked : \A t \in PrimsAsked : t[1] = s[1] => ~IsStrictPrefix(t[2], s[2])}
PathOf(s) ==
    IF s[1] = Stage THEN s[2]
    ELSE IF s[2] = PseudoRoot /\ s[1] \in DOMAIN TreeSources THEN TreeSources[s[1]]
    ELSE CHOOSE p \in pathsToRecompose : s \in GetPrimsInPrototypes(p)
ComposedPrims == {s \in TopPrims : s[2] = PseudoRoot \/ IsChild(s)}
NewPrims == UNION {DOMAIN Subtree(s, PathOf(s)) : s \in ComposedPrims}
IsCovered(t) == \E s \in TopPrims : s[1] = t[1] /\ IsPrefix(s[2], t[2])
KeptPrims == {t \in DOMAIN primIndex : ~(t[1] \in dead \/ IsCovered(t))}

LEMMA RecomposePrimsMeans ==
    ASSUME RecomposePrims
    PROVE  /\ phase = "stage" /\ phase' = "idle"
           /\ DOMAIN primIndex' = NewPrims \cup KeptPrims
           /\ \A t \in NewPrims : \E s \in ComposedPrims :
                  /\ t \in DOMAIN Subtree(s, PathOf(s))
                  /\ primIndex'[t] = Subtree(s, PathOf(s))[t]
           /\ \A t \in KeptPrims \ NewPrims : primIndex'[t] = primIndex[t]
           /\ stale' = stale \cap KeptPrims
           /\ told' = <<>> /\ dead' = {} /\ pathsToRecompose' = {}
           /\ UNCHANGED <<kids, didChangeSignificantly, index, prototype, last, source,
                          instances, instanceOf, pendingAdded, pendingRemoved, todo>>
<1>. DEFINE sub == [s \in ComposedPrims |-> Subtree(s, PathOf(s))]
            new == UNION {DOMAIN sub[s] : s \in ComposedPrims}
            rootOf(t) == CHOOSE s \in ComposedPrims : t \in DOMAIN sub[s]
<1>1. /\ phase = "stage" /\ phase' = "idle"
      /\ told' = <<>> /\ dead' = {} /\ pathsToRecompose' = {}
      /\ UNCHANGED <<kids, didChangeSignificantly, index, prototype, last, source,
                     instances, instanceOf, pendingAdded, pendingRemoved, todo>>
  BY DEF RecomposePrims, sceneVars, mapVars, pendingVars
<1>2. /\ primIndex' = [t \in new \cup KeptPrims |->
                           IF t \in new THEN sub[rootOf(t)][t] ELSE primIndex[t]]
      /\ stale' = stale \cap KeptPrims
  BY DEF RecomposePrims, KeptPrims, IsCovered, ComposedPrims, PathOf, TopPrims, PrimsAsked,
         TreeSources
<1>3. new = NewPrims
  BY DEF NewPrims
<1>4. ASSUME NEW t \in NewPrims
      PROVE  \E s \in ComposedPrims : /\ t \in DOMAIN Subtree(s, PathOf(s))
                                      /\ primIndex'[t] = Subtree(s, PathOf(s))[t]
  <2>1. \E s \in ComposedPrims : t \in DOMAIN sub[s]
    BY DEF NewPrims
  <2>2. rootOf(t) \in ComposedPrims /\ t \in DOMAIN sub[rootOf(t)]
    BY <2>1
  <2>3. primIndex'[t] = sub[rootOf(t)][t]
    <3>. HIDE DEF new, rootOf, sub
    <3>. QED  BY <1>2, <1>3
  <2>. QED  BY <2>2, <2>3
<1>5. /\ DOMAIN primIndex' = NewPrims \cup KeptPrims
      /\ \A t \in KeptPrims \ NewPrims : primIndex'[t] = primIndex[t]
  <2>. HIDE DEF new, sub, rootOf
  <2>. QED  BY <1>2, <1>3
<1>. QED  BY <1>1, <1>2, <1>4, <1>5

LEMMA TreesAsked ==
    ASSUME IndexInv, PrimsInv, phase = "stage"
    PROVE  /\ \A r \in DOMAIN TreeSources :
                  r \in Trees \ {Stage} /\ TreeSources[r] = TopOf(r)
           /\ \A r \in Trees : r \notin DOMAIN TreeSources =>
                  /\ r \in Untold
                  /\ r # Stage => TopOf(r) \notin Changing
<1>1. ASSUME NEW r \in DOMAIN TreeSources
      PROVE  r \in Trees \ {Stage} /\ TreeSources[r] = TopOf(r)
  <2>1. CASE r \in DOMAIN told
    <3>1. r[1] \in Instanceable /\ r = Proto(r[1]) /\ r[2] # 0 /\ told[r] = source[r[1]]
      BY <2>1 DEF PrimsInv, ToldFit
    <3>2. r \in Trees \ {Stage} /\ TopOf(r) = source[r[1]]
      BY <3>1, ProtoTree
    <3>. QED  BY <2>1, <3>1, <3>2 DEF TreeSources
  <2>2. CASE r \notin DOMAIN told
    <3>1. PICK k \in WithSourceUnder(pathsToRecompose) : r = Proto(k)
      BY <2>2 DEF TreeSources
    <3>2. k \in Instanceable /\ source[k] \in ScenePaths
      BY <3>1 DEF WithSourceUnder, AtOrBelow
    <3>3. prototype[k] # 0
      BY <3>2, AtRest, KindsAre
    <3>4. r \in Trees \ {Stage} /\ TopOf(r) = source[k] /\ r[1] = k
      BY <3>1, <3>2, <3>3, ProtoTree
    <3>. QED  BY <2>2, <3>4 DEF TreeSources
  <2>. QED  BY <2>1, <2>2
<1>2. ASSUME NEW r \in Trees, r \notin DOMAIN TreeSources
      PROVE  r \in Untold /\ (r # Stage => TopOf(r) \notin Changing)
  <2>1. r \notin DOMAIN told
    BY <1>2 DEF TreeSources
  <2>2. ASSUME r # Stage, TopOf(r) \in Changing  PROVE FALSE
    <3>1. r[1] \in Instanceable /\ r = Proto(r[1]) /\ source[r[1]] = TopOf(r)
      BY <2>2, TreesAre
    <3>2. r[1] \in WithSourceUnder(pathsToRecompose)
      BY <2>2, <3>1 DEF WithSourceUnder, Changing
    <3>. QED  BY <1>2, <3>1, <3>2 DEF TreeSources
  <2>. QED  BY <2>1, <2>2 DEF Untold
<1>. QED  BY <1>1, <1>2

(* A prim is asked for because its index is recomposed, or the source of   *)
(* its tree is; its index is the one below that source.                    *)
LEMMA AskedAre ==
    ASSUME IndexInv, PrimsInv, phase = "stage", NEW s \in PrimsAsked
    PROVE  /\ s = <<s[1], s[2]>> /\ s[1] \in Trees /\ s[2] \in Seq(Names)
           /\ At(s) \in ScenePaths /\ PathOf(s) = At(s)
           /\ \/ s[2] = PseudoRoot /\ s[1] \in DOMAIN TreeSources
              \/ At(s) \in pathsToRecompose
<1>1. /\ pathsToRecompose \subseteq ScenePaths /\ didChangeSignificantly = {}
  BY DEF PrimsInv, RecomposedFit, IndexInv, PhasesFit
<1>2. ASSUME NEW p \in pathsToRecompose, NEW u \in GetPrimsInPrototypes(p)
      PROVE  /\ u = <<u[1], u[2]>> /\ u[1] \in Trees \ {Stage} /\ u[2] \in Seq(Names)
             /\ TopOf(u[1]) \o u[2] = p
  <2>1. /\ u = <<u[1], u[2]>> /\ u[1] \in Trees \ {Stage} /\ IsPrefix(TopOf(u[1]), p)
        /\ u[2] = Rel(TopOf(u[1]), p)
    BY <1>1, PrimsFound
  <2>2. TopOf(u[1]) \in Seq(Names) /\ p \in Seq(Names)
    BY <1>1, <2>1, TreesAre, PathsAreSeqs
  <2>. QED  BY <2>1, <2>2, RelMeans
<1>3. CASE \E p \in pathsToRecompose : s = <<Stage, p>>
  <2>1. PICK p \in pathsToRecompose : s = <<Stage, p>>
    BY <1>3
  <2>2. s[1] = Stage /\ s[2] = p /\ p \in Seq(Names) /\ p \in ScenePaths
    BY <1>1, <2>1, PathsAreSeqs
  <2>3. TopOf(Stage) = <<>> /\ Stage \in Trees /\ <<>> \o p = p
    <3>1. <<>> \o p = p
      BY <2>2, Joined
    <3>. QED  BY <3>1 DEF TopOf, Trees, PseudoRoot
  <2>4. PathOf(s) = p
    BY <2>2 DEF PathOf
  <2>. QED  BY <2>1, <2>2, <2>3, <2>4 DEF At
<1>4. CASE s[1] # Stage /\ s[2] = PseudoRoot /\ s[1] \in DOMAIN TreeSources /\ s = <<s[1], s[2]>>
  <2>1. s[1] \in Trees /\ TreeSources[s[1]] = TopOf(s[1])
    BY <1>4, TreesAsked
  <2>2. TopOf(s[1]) \in ScenePaths /\ TopOf(s[1]) \in Seq(Names)
    BY <2>1, TreesAre
  <2>3. TopOf(s[1]) \o <<>> = TopOf(s[1]) /\ <<>> \in Seq(Names)
    <3>1. <<>> \in Seq(Names)
      BY EmptySeq
    <3>. QED  BY <2>2, <3>1, Joined
  <2>4. PathOf(s) = TopOf(s[1])
    BY <1>4, <2>1 DEF PathOf
  <2>. QED  BY <1>4, <2>1, <2>2, <2>3, <2>4 DEF PseudoRoot, At
<1>5. CASE /\ \E p \in pathsToRecompose : s \in GetPrimsInPrototypes(p)
           /\ ~(s[2] = PseudoRoot /\ s[1] \in DOMAIN TreeSources)
  <2>. DEFINE p == CHOOSE p \in pathsToRecompose : s \in GetPrimsInPrototypes(p)
  <2>1. p \in pathsToRecompose /\ s \in GetPrimsInPrototypes(p)
    BY <1>5
  <2>. HIDE DEF p
  <2>2. /\ s = <<s[1], s[2]>> /\ s[1] \in Trees \ {Stage} /\ s[2] \in Seq(Names)
        /\ TopOf(s[1]) \o s[2] = p
    BY <1>2, <2>1
  <2>3. PathOf(s) = p
    BY <1>5, <2>2 DEF PathOf, p
  <2>. QED  BY <1>1, <2>1, <2>2, <2>3 DEF At
<1>6. \/ \E p \in pathsToRecompose : s = <<Stage, p>>
      \/ \E p \in pathsToRecompose : s \in GetPrimsInPrototypes(p)
      \/ s[2] = PseudoRoot /\ s[1] \in DOMAIN TreeSources /\ s = <<s[1], s[2]>>
  BY DEF PrimsAsked
<1>7. CASE /\ s[2] = PseudoRoot /\ s[1] \in DOMAIN TreeSources
           /\ \E p \in pathsToRecompose : s \in GetPrimsInPrototypes(p)
  BY <1>2, <1>4, <1>7
<1>8. \A r \in DOMAIN TreeSources : r # Stage
  BY TreesAsked
<1>. QED  BY <1>3, <1>4, <1>5, <1>6, <1>7, <1>8

-----------------------------------------------------------------------------
(* What it composes again, and what it leaves alone                        *)

(* What is above a prim that is to be there, in its tree, is to be there.  *)
LEMMA VisibleAbove ==
    ASSUME IndexInv, phase # "compose", didChangeSignificantly = {},
           NEW r \in Trees, NEW x \in ScenePaths, Visible(r, x),
           NEW q \in ScenePaths, IsPrefix(TopOf(r), q), IsPrefix(q, x)
    PROVE  Visible(r, q)
<1>1. q = x \/ q \in Ancestors[x]
  BY PathPrefixesMean
<1>2. CASE q \in Ancestors[x]
  <2>1. index[q] \in PrimKinds /\ Ancestors[q] \subseteq Ancestors[x]
    BY <1>2, HasAlong, AncestorsOrder DEF Visible
  <2>. QED  BY <2>1 DEF Visible
<1>. QED  BY <1>1, <1>2

(* What is recomposed is not below anything else that is.                  *)
LEMMA ApartAbove ==
    ASSUME PrimsInv, NEW p \in pathsToRecompose, NEW q \in Ancestors[p]
    PROVE  p \in ScenePaths /\ q \in ScenePaths /\ q \notin Changing
<1>1. p \in ScenePaths /\ Ancestors[p] \cap pathsToRecompose = {}
  BY DEF PrimsInv, RecomposedFit
<1>2. q \in ScenePaths /\ Ancestors[q] \subseteq Ancestors[p]
  BY <1>1, AncestorsOrder
<1>3. q \notin Changing
  BY <1>1, <1>2, UnderMeans DEF Changing
<1>. QED  BY <1>1, <1>2, <1>3

(* The prims that are composed again are those that are to be there.       *)
LEMMA TopComposed ==
    ASSUME IndexInv, PrimsInv, phase = "stage", NEW s \in TopPrims
    PROVE  s \in ComposedPrims <=> Visible(s[1], At(s))
<1>. DEFINE r == s[1]
            y == s[2]
            x == TopOf(r) \o y
<1>1. /\ s = <<r, y>> /\ r \in Trees /\ y \in Seq(Names) /\ x \in ScenePaths
      /\ y = PseudoRoot \/ x \in pathsToRecompose
      /\ At(s) = x
  BY AskedAre DEF TopPrims, At
<1>2. didChangeSignificantly = {}
  BY DEF IndexInv, PhasesFit
<1>3. CASE y = PseudoRoot
  BY <1>1, <1>2, <1>3, TopIsVisible DEF ComposedPrims
<1>4. CASE y # PseudoRoot
  <2>1. x \in pathsToRecompose
    BY <1>1, <1>4
  <2>2. r \notin DOMAIN TreeSources
    <3>1. SUFFICES ASSUME r \in DOMAIN TreeSources PROVE FALSE
      OBVIOUS
    <3>. DEFINE u == <<r, PseudoRoot>>
    <3>2. u \in PrimsAsked /\ u[1] = r /\ u[2] = PseudoRoot
      BY <3>1 DEF PrimsAsked
    <3>3. IsStrictPrefix(PseudoRoot, y)
      <4>1. IsPrefix(<<>>, y)
        BY <1>1, EmptySeq, SeqPrefixOrder
      <4>. QED  BY <1>4, <4>1 DEF IsStrictPrefix, PseudoRoot
    <3>. QED  BY <3>2, <3>3 DEF TopPrims
  <2>3. r \in Untold
    BY <1>1, <2>2, TreesAsked
  <2>4. x # PseudoRoot
    <3>1. TopOf(r) \in ScenePaths
      BY <1>1, TreesAre
    <3>. QED  BY <1>1, <1>4, <3>1, JoinedParent DEF PseudoRoot
  <2>5. Parent(x) \notin Changing
    BY <1>1, <2>1, <2>4, ParentMeans, ApartAbove
  <2>6. IsChild(<<r, y>>) <=> Visible(r, x)
    BY <1>1, <1>4, <2>3, <2>5, ChildIsVisible DEF PseudoRoot
  <2>. QED  BY <1>1, <1>4, <2>6 DEF ComposedPrims
<1>. QED  BY <1>3, <1>4

(* The prims of a subtree, by the paths of their indexes.                  *)
LEMMA SubtreeInTree ==
    ASSUME NEW s, s = <<s[1], s[2]>>, s[2] \in Seq(Names), TopOf(s[1]) \in Seq(Names),
           At(s) \in ScenePaths
    PROVE  /\ \A t \in DOMAIN Subtree(s, At(s)) :
                  /\ t = <<s[1], t[2]>> /\ t[2] \in Seq(Names) /\ IsPrefix(s[2], t[2])
                  /\ At(t) \in SubtreePaths(s, At(s)) /\ Subtree(s, At(s))[t] = At(t)
           /\ \A t : t = <<s[1], t[2]>> /\ t[2] \in Seq(Names)
                         /\ At(t) \in SubtreePaths(s, At(s)) => t \in DOMAIN Subtree(s, At(s))
<1>1. PICK r, y, b, p : r = s[1] /\ y = s[2] /\ b = TopOf(r) /\ p = At(s)
  OBVIOUS
<1>2. y \in Seq(Names) /\ b \in Seq(Names) /\ p \in ScenePaths /\ p \in Seq(Names)
  BY <1>1, PathsAreSeqs
<1>. DEFINE D == {<<r, y \o Rel(p, q)>> : q \in SubtreePaths(s, p)}
<1>3. Subtree(s, p) = [t \in D |-> p \o Rel(y, t[2])]
  BY <1>1 DEF Subtree, SubtreePaths, Rel
<1>4. DOMAIN Subtree(s, p) = D
  BY <1>3
<1>5. ASSUME NEW q \in SubtreePaths(s, p)
      PROVE  \E t \in D : /\ t = <<r, y \o Rel(p, q)>> /\ t = <<r, t[2]>>
                          /\ t[2] \in Seq(Names) /\ IsPrefix(y, t[2])
                          /\ At(t) = q /\ Subtree(s, p)[t] = q
  <2>1. q \in ScenePaths /\ IsPrefix(p, q) /\ q \in Seq(Names)
    BY PathsAreSeqs DEF SubtreePaths
  <2>2. PICK z : z = Rel(p, q)
    OBVIOUS
  <2>3. z \in Seq(Names) /\ p \o z = q
    BY <1>2, <2>1, <2>2, RelMeans
  <2>4. PICK u : u = y \o z
    OBVIOUS
  <2>5. u \in Seq(Names) /\ IsPrefix(y, u) /\ Rel(y, u) = z
    BY <1>2, <2>3, <2>4, Joined
  <2>6. PICK t : t = <<r, u>>
    OBVIOUS
  <2>7. t \in D /\ t = <<r, y \o Rel(p, q)>> /\ t[1] = r /\ t[2] = u
    BY <2>2, <2>4, <2>6
  <2>8. Subtree(s, p)[t] = q
    <3>1. Subtree(s, p)[t] = p \o Rel(y, t[2])
      <4>. HIDE DEF D
      <4>. QED  BY <1>3, <2>7
    <3>. QED  BY <2>3, <2>5, <2>7, <3>1
  <2>9. At(t) = q
    <3>1. (b \o y) \o z = b \o (y \o z)
      <4>1. b \in Seq(Names) /\ y \in Seq(Names) /\ z \in Seq(Names)
        BY <1>2, <2>3
      <4>. QED  BY <4>1, ConcatAssociative
    <3>2. p = b \o y
      BY <1>1 DEF At
    <3>3. b \o u = q
      BY <2>3, <2>4, <3>1, <3>2
    <3>. QED  BY <1>1, <2>7, <3>3 DEF At
  <2>. QED  BY <2>5, <2>6, <2>7, <2>8, <2>9
<1>6. ASSUME NEW t \in DOMAIN Subtree(s, p)
      PROVE  /\ t = <<r, t[2]>> /\ t[2] \in Seq(Names) /\ IsPrefix(y, t[2])
             /\ At(t) \in SubtreePaths(s, p) /\ Subtree(s, p)[t] = At(t)
  <2>1. PICK q \in SubtreePaths(s, p) : t = <<r, y \o Rel(p, q)>>
    BY <1>4
  <2>. HIDE DEF D
  <2>2. PICK u : u = <<r, y \o Rel(p, q)>>
    OBVIOUS
  <2>3. /\ u = <<r, u[2]>> /\ u[2] \in Seq(Names) /\ IsPrefix(y, u[2])
        /\ At(u) = q /\ Subtree(s, p)[u] = q
    BY <1>5, <2>2
  <2>4. t = u
    BY <2>1, <2>2
  <2>. QED  BY <2>3, <2>4
<1>7. ASSUME NEW t, t = <<r, t[2]>>, t[2] \in Seq(Names), At(t) \in SubtreePaths(s, p)
      PROVE  t \in DOMAIN Subtree(s, p)
  <2>1. PICK u \in D : u = <<r, u[2]>> /\ u[2] \in Seq(Names) /\ At(u) = At(t)
    <3>. HIDE DEF D
    <3>. QED  BY <1>5, <1>7
  <2>. HIDE DEF D
  <2>2. t[1] = r /\ u[1] = r
    BY <1>7, <2>1
  <2>3. b \o u[2] = b \o t[2]
    BY <1>1, <2>1, <2>2 DEF At
  <2>4. u[2] = t[2]
    <3>1. PICK v, w : v = u[2] /\ w = t[2]
      OBVIOUS
    <3>2. b \in Seq(Names) /\ v \in Seq(Names) /\ w \in Seq(Names)
      BY <1>2, <1>7, <2>1, <3>1
    <3>3. b \o v = b \o w
      BY <2>3, <3>1
    <3>4. b \o v = b \o w <=> v = w
      BY <3>2, JoinedOrder
    <3>. QED  BY <3>1, <3>3, <3>4
  <2>. QED  BY <1>4, <1>7, <2>1, <2>4
<1>. HIDE DEF D
<1>. QED  BY <1>1, <1>6, <1>7

(* And so it is with the prims below them.                                 *)
LEMMA NewPrimsAre ==
    ASSUME IndexInv, PrimsInv, phase = "stage"
    PROVE  /\ \A s \in ComposedPrims : \A t \in DOMAIN Subtree(s, PathOf(s)) :
                  /\ t = <<t[1], t[2]>> /\ t[1] \in Trees /\ t[2] \in Seq(Names)
                  /\ IsCovered(t) /\ At(t) \in ScenePaths /\ Visible(t[1], At(t))
                  /\ Subtree(s, PathOf(s))[t] = At(t)
           /\ \A t : /\ t = <<t[1], t[2]>> /\ t[1] \in Trees /\ t[2] \in Seq(Names)
                     /\ At(t) \in ScenePaths /\ Visible(t[1], At(t)) /\ IsCovered(t)
                     => t \in NewPrims
<1>1. didChangeSignificantly = {} /\ phase # "compose"
  BY DEF IndexInv, PhasesFit
<1>2. \A s \in TopPrims :
          /\ s = <<s[1], s[2]>> /\ s[1] \in Trees /\ s[2] \in Seq(Names)
          /\ At(s) \in ScenePaths /\ PathOf(s) = At(s)
          /\ TopOf(s[1]) \in Seq(Names)
  BY AskedAre, TreesAre DEF TopPrims
<1>3. ASSUME NEW s \in TopPrims, Visible(s[1], At(s)), NEW x \in ScenePaths
      PROVE  x \in SubtreePaths(s, At(s)) <=> IsPrefix(At(s), x) /\ Visible(s[1], x)
  <2>1. PICK r, y : r = s[1] /\ y = s[2]
    OBVIOUS
  <2>2. /\ r \in Trees /\ y \in Seq(Names) /\ TopOf(r) \o y \in ScenePaths
        /\ Visible(r, TopOf(r) \o y)
    BY <1>2, <1>3, <2>1 DEF At
  <2>3. x \in SubtreePaths(<<r, y>>, TopOf(r) \o y) <=>
            IsPrefix(TopOf(r) \o y, x) /\ Visible(r, x)
    BY <1>1, <2>2, SubtreeIsVisible
  <2>. QED  BY <1>2, <2>1, <2>3 DEF At
<1>4. ASSUME NEW s \in ComposedPrims, NEW t \in DOMAIN Subtree(s, PathOf(s))
      PROVE  /\ t = <<t[1], t[2]>> /\ t[1] \in Trees /\ t[2] \in Seq(Names)
             /\ IsCovered(t) /\ At(t) \in ScenePaths /\ Visible(t[1], At(t))
             /\ Subtree(s, PathOf(s))[t] = At(t)
  <2>1. s \in TopPrims /\ PathOf(s) = At(s) /\ Visible(s[1], At(s))
    BY <1>2, TopComposed DEF ComposedPrims
  <2>2. /\ t = <<s[1], t[2]>> /\ t[2] \in Seq(Names) /\ IsPrefix(s[2], t[2])
        /\ At(t) \in SubtreePaths(s, At(s)) /\ Subtree(s, At(s))[t] = At(t)
    BY <1>2, <1>4, <2>1, SubtreeInTree
  <2>3. t[1] = s[1]
    BY <2>2
  <2>4. At(t) \in ScenePaths
    BY <2>2 DEF SubtreePaths
  <2>5. Visible(t[1], At(t))
    BY <1>3, <2>1, <2>2, <2>3, <2>4
  <2>6. IsCovered(t)
    BY <2>1, <2>2, <2>3 DEF IsCovered
  <2>. QED  BY <1>2, <2>1, <2>2, <2>3, <2>4, <2>5, <2>6
<1>5. ASSUME NEW t, t = <<t[1], t[2]>>, t[1] \in Trees, t[2] \in Seq(Names),
             At(t) \in ScenePaths, Visible(t[1], At(t)), IsCovered(t)
      PROVE  t \in NewPrims
  <2>1. PICK s \in TopPrims : s[1] = t[1] /\ IsPrefix(s[2], t[2])
    BY <1>5 DEF IsCovered
  <2>2. /\ s = <<s[1], s[2]>> /\ s[2] \in Seq(Names) /\ At(s) \in ScenePaths
        /\ PathOf(s) = At(s) /\ TopOf(s[1]) \in Seq(Names)
    BY <1>2
  <2>3. IsPrefix(At(s), At(t)) /\ IsPrefix(TopOf(s[1]), At(s))
    BY <1>5, <2>1, <2>2, Joined, JoinedOrder DEF At
  <2>4. Visible(s[1], At(s))
    BY <1>1, <1>5, <2>1, <2>2, <2>3, VisibleAbove
  <2>5. s \in ComposedPrims
    BY <2>1, <2>4, TopComposed
  <2>6. At(t) \in SubtreePaths(s, At(s))
    BY <1>3, <1>5, <2>1, <2>3, <2>4
  <2>7. t \in DOMAIN Subtree(s, At(s))
    BY <1>5, <2>1, <2>2, <2>6, SubtreeInTree
  <2>. QED  BY <2>2, <2>5, <2>7 DEF NewPrims
<1>. QED  BY <1>4, <1>5

(* What is recomposed is asked for in each tree where it may be.           *)
LEMMA AskedAreTop ==
    ASSUME IndexInv, PrimsInv, phase = "stage", NEW s \in PrimsAsked,
           s[1] \notin DOMAIN TreeSources
    PROVE  s \in TopPrims
<1>. DEFINE r == s[1]
            b == TopOf(r)
<1>1. ASSUME NEW t \in PrimsAsked, t[1] = r, IsStrictPrefix(t[2], s[2])  PROVE FALSE
  <2>1. /\ b \o s[2] \in pathsToRecompose /\ b \o t[2] \in pathsToRecompose
        /\ b \o s[2] \in ScenePaths /\ b \o t[2] \in ScenePaths
        /\ s[2] \in Seq(Names) /\ t[2] \in Seq(Names) /\ b \in Seq(Names)
    BY <1>1, AskedAre, TreesAre DEF At
  <2>2. IsPrefix(b \o t[2], b \o s[2]) /\ b \o t[2] # b \o s[2]
    BY <1>1, <2>1, JoinedOrder DEF IsStrictPrefix
  <2>3. b \o t[2] \in Ancestors[b \o s[2]]
    BY <2>1, <2>2, PathPrefixesMean
  <2>. QED  BY <2>1, <2>3 DEF PrimsInv, RecomposedFit
<1>. QED  BY <1>1 DEF TopPrims

(* A tree whose source is recomposed is asked for as a whole.              *)
LEMMA NotCoveredAtAll ==
    ASSUME IndexInv, PrimsInv, phase = "stage", NEW t, t[1] \in Trees, t[2] \in Seq(Names),
           ~IsCovered(t)
    PROVE  /\ t[1] \notin DOMAIN TreeSources /\ t[1] \in Untold
           /\ t[1] # Stage => TopOf(t[1]) \notin Changing
<1>1. SUFFICES t[1] \notin DOMAIN TreeSources
  BY TreesAsked
<1>2. SUFFICES ASSUME t[1] \in DOMAIN TreeSources PROVE FALSE
  OBVIOUS
<1>. DEFINE u == <<t[1], PseudoRoot>>
<1>3. u \in PrimsAsked /\ u[1] = t[1] /\ u[2] = PseudoRoot
  BY <1>2 DEF PrimsAsked
<1>4. \A s \in PrimsAsked : ~IsStrictPrefix(s[2], PseudoRoot)
  <2>1. \A s \in PrimsAsked : s[2] \in Seq(Names)
    BY AskedAre
  <2>2. \A w \in Seq(Names) : IsPrefix(w, <<>>) => w = <<>>
    BY EmptySeq, SeqPrefixOrder
  <2>. QED  BY <2>1, <2>2 DEF IsStrictPrefix, PseudoRoot
<1>5. u \in TopPrims
  BY <1>3, <1>4 DEF TopPrims
<1>6. IsPrefix(<<>>, t[2])
  BY EmptySeq, SeqPrefixOrder
<1>. QED  BY <1>3, <1>5, <1>6 DEF IsCovered, PseudoRoot

(* Where a recomposed path is not asked for, an instance is above it.      *)
LEMMA NotCovered ==
    ASSUME IndexInv, PrimsInv, phase = "stage",
           NEW r \in Trees, NEW y \in Seq(Names), TopOf(r) \o y \in ScenePaths,
           ~IsCovered(<<r, y>>)
    PROVE  TopOf(r) \o y \in Changing =>
               \E q \in Ancestors[TopOf(r) \o y] :
                   Inside(r, q) /\ q \notin Changing /\ index[q] \in Instanceable
<1>. DEFINE b == TopOf(r)
            x == b \o y
<1>1. b \in ScenePaths /\ b \in Seq(Names) /\ x \in ScenePaths /\ didChangeSignificantly = {}
  BY TreesAre DEF IndexInv, PhasesFit
<1>2. IsPrefix(b, x)
  BY <1>1, Joined
<1>3. \A s \in TopPrims : s[1] = r => ~IsPrefix(s[2], y)
  BY DEF IsCovered
<1>4. /\ r \notin DOMAIN TreeSources
      /\ r # Stage => b \notin Changing
  <2>. DEFINE t == <<r, y>>
  <2>1. t[1] = r /\ t[2] = y
    OBVIOUS
  <2>. HIDE DEF t
  <2>2. ~IsCovered(t)
    BY DEF t
  <2>. QED  BY <2>1, <2>2, NotCoveredAtAll
<1>5. ASSUME x \in Changing
      PROVE  \E q \in Ancestors[x] :
                 Inside(r, q) /\ q \notin Changing /\ index[q] \in Instanceable
  <2>1. PICK p \in pathsToRecompose : p = x \/ p \in Ancestors[x]
    BY <1>1, <1>5, UnderMeans DEF Changing
  <2>2. /\ p \in ScenePaths /\ p \in Seq(Names) /\ IsPrefix(p, x)
        /\ Ancestors[p] \subseteq Ancestors[x]
    <3>1. p \in ScenePaths
      BY DEF PrimsInv, RecomposedFit
    <3>. QED  BY <1>1, <2>1, <3>1, PathsAreSeqs, PathPrefixesMean, AncestorsOrder
  <2>3. ASSUME NEW w \in Seq(Names), b \o w = p, <<r, w>> \in PrimsAsked  PROVE FALSE
    <3>. DEFINE u == <<r, w>>
    <3>1. u[1] = r /\ u[2] = w /\ u \in PrimsAsked
      BY <2>3
    <3>2. u \in TopPrims
      BY <1>4, <3>1, AskedAreTop
    <3>3. IsPrefix(w, y)
      BY <1>1, <2>2, <2>3, JoinedOrder
    <3>. QED  BY <1>3, <3>1, <3>2, <3>3
  <2>4. r # Stage
    <3>1. SUFFICES ASSUME r = Stage PROVE FALSE
      OBVIOUS
    <3>2. <<r, p>> \in PrimsAsked
      BY <3>1 DEF PrimsAsked
    <3>3. b \o p = p
      <4>1. b = <<>>
        BY <3>1 DEF TopOf, PseudoRoot
      <4>. QED  BY <2>2, <4>1, Joined, EmptySeq
    <3>. QED  BY <2>2, <2>3, <3>2, <3>3
  <2>5. b \in Ancestors[p]
    <3>1. b = x \/ b \in Ancestors[x]
      BY <1>1, <1>2, PathPrefixesMean
    <3>2. p # b /\ p \notin Ancestors[b]
      BY <1>1, <1>4, <2>4, UnderMeans DEF Changing
    <3>. QED  BY <1>1, <2>1, <3>1, <3>2, AncestorsOrder
  <2>6. PICK q \in Ancestors[p] : Inside(r, q) /\ index[q] \in Instanceable
    <3>1. SUFFICES ASSUME \A q \in Ancestors[p] : Inside(r, q) => index[q] \notin Instanceable
                   PROVE  FALSE
      OBVIOUS
    <3>. DEFINE w == Rel(b, p)
    <3>2. <<r, w>> \in GetPrimsInPrototypes(p)
      BY <1>1, <2>2, <2>4, <2>5, <3>1, PrimsFound
    <3>3. <<r, w>> \in PrimsAsked
      BY <3>2 DEF PrimsAsked
    <3>4. w \in Seq(Names) /\ b \o w = p
      BY <1>1, <2>2, <2>5, PathPrefixesMean, RelMeans
    <3>. QED  BY <2>3, <3>3, <3>4
  <2>7. q \notin Changing
    BY ApartAbove
  <2>. QED  BY <2>2, <2>6, <2>7
<1>. QED  BY <1>5

(* What is kept is what is to be there and was not asked for.              *)
LEMMA KeptAre ==
    ASSUME IndexInv, PrimsInv, phase = "stage"
    PROVE  /\ \A t \in KeptPrims :
                  /\ t = <<t[1], t[2]>> /\ t[1] \in Trees /\ t[2] \in Seq(Names)
                  /\ At(t) \in ScenePaths \ Changing /\ Visible(t[1], At(t))
                  /\ primIndex[t] = At(t) /\ ~IsCovered(t)
           /\ \A t : /\ t = <<t[1], t[2]>> /\ t[1] \in Trees /\ t[2] \in Seq(Names)
                     /\ At(t) \in ScenePaths /\ Visible(t[1], At(t)) /\ ~IsCovered(t)
                     => t \in KeptPrims
<1>1. ASSUME NEW t, t = <<t[1], t[2]>>, t[1] \in Trees, t[2] \in Seq(Names), ~IsCovered(t),
             At(t) \in ScenePaths
      PROVE  At(t) \in Changing =>
                 \E q \in Ancestors[At(t)] :
                     Inside(t[1], q) /\ q \notin Changing /\ index[q] \in Instanceable
  <2>1. PICK r, y : r = t[1] /\ y = t[2]
    OBVIOUS
  <2>2. /\ r \in Trees /\ y \in Seq(Names) /\ ~IsCovered(<<r, y>>)
        /\ TopOf(r) \o y \in ScenePaths
    BY <1>1, <2>1 DEF At
  <2>3. TopOf(r) \o y \in Changing =>
            \E q \in Ancestors[TopOf(r) \o y] :
                Inside(r, q) /\ q \notin Changing /\ index[q] \in Instanceable
    BY <2>2, NotCovered
  <2>. QED  BY <2>1, <2>3 DEF At
<1>2. ASSUME NEW t, t = <<t[1], t[2]>>, t[1] \in Untold, t[2] \in Seq(Names)
      PROVE  /\ t \in DOMAIN primIndex =>
                    /\ At(t) \in ScenePaths /\ primIndex[t] = At(t)
                    /\ \A q \in Ancestors[At(t)] :
                           Inside(t[1], q) /\ q \notin Changing => index[q] \notin Instanceable
             /\ At(t) \in ScenePaths \ Changing =>
                    (t \in DOMAIN primIndex <=> Visible(t[1], At(t)))
  <2>1. PICK r, y : r = t[1] /\ y = t[2]
    OBVIOUS
  <2>2. r \in Untold /\ y \in Seq(Names) /\ t = <<r, y>>
    BY <1>2, <2>1
  <2>3. PICK x : x = TopOf(r) \o y
    OBVIOUS
  <2>4. At(t) = x
    BY <2>1, <2>3 DEF At
  <2>5. <<r, y>> \in DOMAIN primIndex =>
            /\ x \in ScenePaths /\ primIndex[<<r, y>>] = x
            /\ \A q \in Ancestors[x] :
                   Inside(r, q) /\ q \notin Changing => index[q] \in PrimKinds \ Instanceable
    BY <2>2, <2>3 DEF PrimsInv, TreesFit
  <2>6. x \in ScenePaths \ Changing => (<<r, y>> \in DOMAIN primIndex <=> Visible(r, x))
    BY <2>2, <2>3 DEF PrimsInv, PrimsFit
  <2>. QED  BY <2>1, <2>2, <2>4, <2>5, <2>6
<1>3. ASSUME NEW t \in KeptPrims
      PROVE  /\ t = <<t[1], t[2]>> /\ t[1] \in Trees /\ t[2] \in Seq(Names)
             /\ At(t) \in ScenePaths \ Changing /\ Visible(t[1], At(t))
             /\ primIndex[t] = At(t) /\ ~IsCovered(t)
  <2>1. /\ t \in DOMAIN primIndex /\ ~IsCovered(t)
        /\ t = <<t[1], t[2]>> /\ t[1] \in Trees /\ t[2] \in Seq(Names)
    BY DEF KeptPrims, PrimsInv, TreesFit
  <2>2. t[1] \in Untold
    BY <2>1, NotCoveredAtAll
  <2>3. /\ At(t) \in ScenePaths /\ primIndex[t] = At(t)
        /\ \A q \in Ancestors[At(t)] :
               Inside(t[1], q) /\ q \notin Changing => index[q] \notin Instanceable
    BY <1>2, <2>1, <2>2
  <2>4. At(t) \notin Changing
    BY <1>1, <2>1, <2>3
  <2>. QED  BY <1>2, <2>1, <2>2, <2>3, <2>4
<1>4. ASSUME NEW t, t = <<t[1], t[2]>>, t[1] \in Trees, t[2] \in Seq(Names),
             At(t) \in ScenePaths, Visible(t[1], At(t)), ~IsCovered(t)
      PROVE  t \in KeptPrims
  <2>1. t[1] \in Untold
    BY <1>4, NotCoveredAtAll
  <2>2. At(t) \notin Changing
    BY <1>1, <1>4 DEF Visible
  <2>3. t \in DOMAIN primIndex
    BY <1>2, <1>4, <2>1, <2>2
  <2>4. t[1] \notin dead
    <3>1. CASE t[1] = Stage
      <4>1. t[1][1] \notin Instanceable
        BY <3>1, KindsAre DEF Stage
      <4>. QED  BY <4>1 DEF PrimsInv, NumbersFit
    <3>2. CASE t[1] # Stage
      <4>1. t[1] = Proto(t[1][1])
        BY <1>4, <3>2, TreesAre
      <4>. QED  BY <4>1 DEF PrimsInv, NumbersFit
    <3>. QED  BY <3>1, <3>2
  <2>. QED  BY <1>4, <2>3, <2>4 DEF KeptPrims
<1>. QED  BY <1>3, <1>4

(* After the round the prims are exactly those that are to be there.       *)
LEMMA PrimsAfter ==
    ASSUME IndexInv, PrimsInv, RecomposePrims
    PROVE  /\ \A t \in DOMAIN primIndex' :
                  /\ t = <<t[1], t[2]>> /\ t[1] \in Trees /\ t[2] \in Seq(Names)
                  /\ At(t) \in ScenePaths /\ Visible(t[1], At(t)) /\ primIndex'[t] = At(t)
           /\ \A t : /\ t = <<t[1], t[2]>> /\ t[1] \in Trees /\ t[2] \in Seq(Names)
                     /\ At(t) \in ScenePaths /\ Visible(t[1], At(t))
                     => t \in DOMAIN primIndex'
           /\ stale' = {}
<1>1. /\ phase = "stage" /\ DOMAIN primIndex' = NewPrims \cup KeptPrims
      /\ stale' = stale \cap KeptPrims
      /\ \A t \in KeptPrims \ NewPrims : primIndex'[t] = primIndex[t]
  BY RecomposePrimsMeans
<1>2. ASSUME NEW t \in NewPrims
      PROVE  /\ t = <<t[1], t[2]>> /\ t[1] \in Trees /\ t[2] \in Seq(Names)
             /\ At(t) \in ScenePaths /\ Visible(t[1], At(t)) /\ primIndex'[t] = At(t)
  <2>1. PICK s \in ComposedPrims : /\ t \in DOMAIN Subtree(s, PathOf(s))
                                   /\ primIndex'[t] = Subtree(s, PathOf(s))[t]
    BY RecomposePrimsMeans
  <2>. QED  BY <1>1, <2>1, NewPrimsAre
<1>3. stale' = {}
  <2>1. \A t \in stale \cap KeptPrims : primIndex[t] \in Changing /\ primIndex[t] \notin Changing
    BY <1>1, KeptAre DEF PrimsInv, StaleFit
  <2>. QED  BY <1>1, <2>1
<1>4. \A t \in DOMAIN primIndex' :
          /\ t = <<t[1], t[2]>> /\ t[1] \in Trees /\ t[2] \in Seq(Names)
          /\ At(t) \in ScenePaths /\ Visible(t[1], At(t)) /\ primIndex'[t] = At(t)
  BY <1>1, <1>2, KeptAre
<1>5. ASSUME NEW t, t = <<t[1], t[2]>>, t[1] \in Trees, t[2] \in Seq(Names),
             At(t) \in ScenePaths, Visible(t[1], At(t))
      PROVE  t \in DOMAIN primIndex'
  BY <1>1, <1>5, NewPrimsAre, KeptAre
<1>. QED  BY <1>3, <1>4, <1>5

LEMMA RecomposePrimsKeepsPrims ==
    ASSUME IndexInv, PrimsInv, RecomposePrims
    PROVE  PrimsInv'
<1>1. /\ phase = "stage" /\ phase' = "idle"
      /\ told' = <<>> /\ dead' = {} /\ pathsToRecompose' = {}
      /\ UNCHANGED <<kids, didChangeSignificantly, index, prototype, last, source,
                     pendingAdded, pendingRemoved, todo>>
  BY RecomposePrimsMeans
<1>2. DOMAIN told' = {}
  <2>1. DOMAIN <<>> = {}
    OBVIOUS
  <2>. QED  BY <1>1, <2>1
<1>3. todo = {} /\ \A k \in Instanceable : Added(k)' = {}
  BY <1>1, AtRest DEF Added
<1>4. Changing' = {} /\ Reached' = {}
  BY <1>1, <1>2 DEF Changing, Reached, AtOrBelow
<1>5. Trees' = Trees /\ Untold' = Trees /\ \A r : TopOf(r)' = TopOf(r)
  BY <1>1, <1>2 DEF Trees, Untold, Proto, TopOf
<1>6. \A r, q : (Inside(r, q)' <=> Inside(r, q)) /\ (Visible(r, q)' <=> Visible(r, q))
  BY <1>1, <1>5 DEF Inside, Visible
<1>7. RecomposedFit' /\ NumbersFit'
  BY <1>1 DEF PrimsInv, RecomposedFit, NumbersFit
<1>8. TasksFit'
  BY <1>1, <1>3 DEF TasksFit
<1>9. ToldFit'
  BY <1>1, <1>2, <1>4 DEF ToldFit
<1>10. RootFits'
  BY <1>1, <1>3 DEF PrimsInv, RootFits
<1>11. \A t \in DOMAIN primIndex' :
           /\ t = <<t[1], t[2]>> /\ t[1] \in Trees /\ t[2] \in Seq(Names)
           /\ At(t) \in ScenePaths /\ Visible(t[1], At(t)) /\ primIndex'[t] = At(t)
  BY PrimsAfter
<1>12. TreesFit'
  <2>1. ASSUME NEW r \in Trees, NEW y \in Seq(Names), <<r, y>> \in DOMAIN primIndex'
        PROVE  /\ TopOf(r) \o y \in ScenePaths
               /\ primIndex'[<<r, y>>] = TopOf(r) \o y
               /\ \A q \in Ancestors[TopOf(r) \o y] :
                      Inside(r, q) => index[q] \in PrimKinds \ Instanceable
    <3>1. PICK t : t = <<r, y>>
      OBVIOUS
    <3>2. PICK x : x = TopOf(r) \o y
      OBVIOUS
    <3>3. x \in ScenePaths /\ Visible(r, x) /\ primIndex'[t] = x
      <4>1. t[1] = r /\ At(t) = x
        BY <3>1, <3>2 DEF At
      <4>. QED  BY <1>11, <2>1, <3>1, <4>1
    <3>4. WellPlaced(x)
      <4>1. index[x] # Nothing
        BY <3>3, KindsAre DEF Visible
      <4>. QED  BY <1>1, <3>3, <4>1, AtRest
    <3>5. \A q \in Ancestors[x] : Inside(r, q) => index[q] \in PrimKinds \ Instanceable
      BY <3>3, <3>4 DEF WellPlaced, Visible
    <3>. QED  BY <3>1, <3>2, <3>3, <3>5
  <2>. QED  BY <1>1, <1>4, <1>5, <1>6, <1>11, <2>1 DEF TreesFit
<1>13. PrimsFit'
  <2>1. ASSUME NEW r \in Trees, NEW y \in Seq(Names), TopOf(r) \o y \in ScenePaths
        PROVE  <<r, y>> \in DOMAIN primIndex' <=> Visible(r, TopOf(r) \o y)
    <3>1. PICK t : t = <<r, y>>
      OBVIOUS
    <3>2. PICK x : x = TopOf(r) \o y
      OBVIOUS
    <3>3. t = <<t[1], t[2]>> /\ t[1] = r /\ t[2] = y /\ At(t) = x
      BY <3>1, <3>2 DEF At
    <3>4. t \in DOMAIN primIndex' <=> Visible(r, x)
      BY <2>1, <3>2, <3>3, PrimsAfter
    <3>. QED  BY <3>1, <3>2, <3>4
  <2>. QED  BY <1>4, <1>5, <1>6, <2>1 DEF PrimsFit
<1>14. StaleFit'
  BY PrimsAfter DEF StaleFit
<1>. QED  BY <1>7, <1>8, <1>9, <1>10, <1>12, <1>13, <1>14 DEF PrimsInv

-----------------------------------------------------------------------------
(* The prims through all steps                                             *)

LEMMA PrimsSteps == RoundInv /\ PrimsInv /\ [InstanceNext]_instanceVars => PrimsInv'
<1>. SUFFICES ASSUME RoundInv, PrimsInv, [InstanceNext]_instanceVars PROVE PrimsInv'
  OBVIOUS
<1>1. IndexInv
  BY DEF RoundInv
<1>2. ASSUME NEW k \in PrimKinds, NEW n \in Names, NEW to \in PrimKinds \cup {Absent},
             Edit(k, n, to)
      PROVE  PrimsInv'
  <2>1. /\ UNCHANGED <<index, prototype, last, source, pendingAdded, pendingRemoved, todo,
                       pathsToRecompose, told, dead, primIndex, stale, phase>>
        /\ index[PseudoRoot] # Nothing
    BY <1>2 DEF Edit, MayEdit, mapVars, pendingVars, composeVars, changeVars, stageVars
  <2>. QED  BY <1>1, <2>1, EditKeepsPrims
<1>3. ASSUME NEW k \in PrimKinds, NEW n \in Names, Touch(k, n)  PROVE PrimsInv'
  <2>1. /\ UNCHANGED <<index, prototype, last, source, pendingAdded, pendingRemoved, todo,
                       pathsToRecompose, told, dead, primIndex, stale, phase>>
        /\ index[PseudoRoot] # Nothing
    BY <1>3 DEF Touch, MayEdit, mapVars, pendingVars, composeVars, changeVars, stageVars
  <2>. QED  BY <1>1, <2>1, EditKeepsPrims
<1>4. CASE Recompose
  BY <1>1, <1>4, RecomposeKeepsPrims
<1>5. ASSUME NEW p \in ScenePaths, Compute(p)  PROVE PrimsInv'
  BY <1>1, <1>5, ComputeKeepsPrims
<1>6. CASE ProcessChanges
  BY <1>1, <1>6, ProcessChangesKeepsPrims
<1>7. CASE RecomposePrims
  BY <1>1, <1>7, RecomposePrimsKeepsPrims
<1>8. CASE UNCHANGED instanceVars
  <2>1. UNCHANGED <<index, prototype, last, source, pendingAdded, pendingRemoved, todo,
                    pathsToRecompose, told, dead, primIndex, stale, phase,
                    didChangeSignificantly>>
    BY <1>8 DEF instanceVars, sceneVars, mapVars, pendingVars, composeVars, changeVars,
                stageVars
  <2>. QED  BY <1>1, <2>1, EditKeepsPrims
<1>. QED  BY <1>2, <1>3, <1>4, <1>5, <1>6, <1>7, <1>8 DEF InstanceNext

(* What a settled stage has                                                *)
LEMMA PrimsSettled ==
    ASSUME IndexInv, PrimsInv, Settled
    PROVE  /\ stale = {}
           /\ \A t \in DOMAIN primIndex :
                  /\ t = <<t[1], t[2]>> /\ t[1] \in Trees /\ t[2] \in Seq(Names)
                  /\ At(t) \in ScenePaths /\ Visible(t[1], At(t)) /\ primIndex[t] = At(t)
           /\ \A t : /\ t = <<t[1], t[2]>> /\ t[1] \in Trees /\ t[2] \in Seq(Names)
                     /\ At(t) \in ScenePaths /\ Visible(t[1], At(t))
                     => t \in DOMAIN primIndex
<1>1. stale = {} /\ dead = {} /\ Changing = {} /\ Untold = Trees
  BY PrimsAtRest DEF Settled
<1>2. ASSUME NEW t, t = <<t[1], t[2]>>, t[1] \in Trees, t[2] \in Seq(Names)
      PROVE  /\ t \in DOMAIN primIndex => At(t) \in ScenePaths /\ primIndex[t] = At(t)
             /\ At(t) \in ScenePaths => (t \in DOMAIN primIndex <=> Visible(t[1], At(t)))
  <2>1. PICK r, y : r = t[1] /\ y = t[2]
    OBVIOUS
  <2>2. r \in Untold /\ y \in Seq(Names) /\ t = <<r, y>>
    BY <1>1, <1>2, <2>1
  <2>3. PICK x : x = TopOf(r) \o y
    OBVIOUS
  <2>4. At(t) = x
    BY <2>1, <2>3 DEF At
  <2>5. <<r, y>> \in DOMAIN primIndex => x \in ScenePaths /\ primIndex[<<r, y>>] = x
    BY <2>2, <2>3 DEF PrimsInv, TreesFit
  <2>6. x \in ScenePaths => (<<r, y>> \in DOMAIN primIndex <=> Visible(r, x))
    BY <1>1, <2>2, <2>3 DEF PrimsInv, PrimsFit
  <2>. QED  BY <2>1, <2>2, <2>4, <2>5, <2>6
<1>3. \A t \in DOMAIN primIndex : t = <<t[1], t[2]>> /\ t[1] \in Trees /\ t[2] \in Seq(Names)
  BY <1>1 DEF PrimsInv, TreesFit
<1>. QED  BY <1>1, <1>2, <1>3

(* Prims show exactly the indexes there are: each is to be in the tree of  *)
(* the source next above it, or of the stage.                              *)
LEMMA ShownAre ==
    ASSUME IndexInv, PrimsInv, Settled, NEW p \in ScenePaths
    PROVE  p \in Shown <=> index[p] \in PrimKinds
<1>1. phase # "compose" /\ didChangeSignificantly = {}
  BY DEF Settled
<1>2. ASSUME p \in Shown  PROVE index[p] \in PrimKinds
  <2>1. PICK t \in DOMAIN primIndex : p = primIndex[t]
    BY <1>2 DEF Shown
  <2>2. Visible(t[1], p)
    BY <2>1, PrimsSettled
  <2>. QED  BY <2>2 DEF Visible
<1>3. ASSUME NEW r \in Trees, IsPrefix(TopOf(r), p), Visible(r, p)  PROVE p \in Shown
  <2>1. TopOf(r) \in Seq(Names) /\ p \in Seq(Names)
    BY TreesAre, PathsAreSeqs
  <2>2. PICK y : y = Rel(TopOf(r), p)
    OBVIOUS
  <2>3. y \in Seq(Names) /\ TopOf(r) \o y = p
    BY <1>3, <2>1, <2>2, RelMeans
  <2>4. PICK t : t = <<r, y>>
    OBVIOUS
  <2>5. t = <<t[1], t[2]>> /\ t[1] = r /\ t[2] = y /\ At(t) = p
    BY <2>3, <2>4 DEF At
  <2>6. t \in DOMAIN primIndex /\ primIndex[t] = p
    BY <1>3, <2>3, <2>5, PrimsSettled
  <2>. QED  BY <2>6 DEF Shown
<1>4. ASSUME index[p] \in PrimKinds  PROVE p \in Shown
  <2>. DEFINE Q == {q \in Ancestors[p] : index[q] \in Instanceable}
  <2>1. CASE Q = {}
    <3>1. Stage \in Trees /\ TopOf(Stage) = PseudoRoot
      BY DEF Trees, TopOf
    <3>2. IsPrefix(PseudoRoot, p)
      BY PathsAreSeqs, EmptySeq, SeqPrefixOrder DEF PseudoRoot
    <3>3. Visible(Stage, p)
      BY <1>4, <2>1, <3>1, <3>2 DEF Visible
    <3>. QED  BY <1>3, <3>1, <3>2, <3>3
  <2>2. CASE Q # {}
    <3>1. PICK q \in Q : \A r \in Q : r = q \/ r \in Ancestors[q]
      <4>1. Q \subseteq Ancestors[p] \cup {p}
        OBVIOUS
      <4>. HIDE DEF Q
      <4>. QED  BY <2>2, <4>1, LowestAbove
    <3>2. q \in Ancestors[p] /\ q \in ScenePaths /\ index[q] \in Instanceable
      BY AncestorsOrder
    <3>3. PICK k \in Instanceable : k = index[q]
      BY <3>2
    <3>4. source[k] = q
      <4>1. WellPlaced(p)
        BY <1>1, <1>4, AtRest, KindsAre
      <4>2. SourceOf(k) = q
        BY <3>2, <3>3, <4>1 DEF WellPlaced
      <4>. QED  BY <1>1, <4>2, AtRest
    <3>5. Proto(k) \in Trees /\ TopOf(Proto(k)) = q
      <4>1. prototype[k] # 0
        BY <1>1, <3>2, <3>4, AtRest, KindsAre
      <4>. QED  BY <3>4, <4>1, ProtoTree
    <3>6. IsPrefix(q, p)
      BY <3>2, PathPrefixesMean
    <3>7. ASSUME NEW c \in Ancestors[p], Inside(Proto(k), c)  PROVE index[c] \notin Instanceable
      <4>1. c \in ScenePaths /\ IsPrefix(q, c) /\ c # q
        BY <3>5, <3>7, AncestorsOrder, ProtoTree DEF Inside
      <4>2. q \in Ancestors[c] /\ c \notin Ancestors[q]
        BY <3>2, <4>1, PathPrefixesMean, AncestorsOrder
      <4>3. c \notin Q
        BY <3>1, <4>1, <4>2
      <4>. QED  BY <4>3
    <3>8. Visible(Proto(k), p)
      BY <1>4, <3>5, <3>6, <3>7 DEF Visible
    <3>. QED  BY <1>3, <3>5, <3>6, <3>8
  <2>. QED  BY <2>1, <2>2
<1>. QED  BY <1>2, <1>4

(* PrimsInv is an invariant: in the middle of a round too, each prim of a  *)
(* tree that the round does not tell of has the path of its index, and     *)
(* outside what is recomposed the prims are those that composition has     *)
(* exposed.                                                                *)
THEOREM InstancePrims == InstanceSpec => []PrimsInv
<1>1. InstanceInit => PrimsInv
  BY PrimsStart
<1>2. RoundInv /\ PrimsInv /\ [InstanceNext]_instanceVars => PrimsInv'
  BY PrimsSteps
<1>. QED  BY <1>1, <1>2, InstanceInvariant, PTL DEF InstanceSpec

(* Once a round has taken up all changes, no prim points to an index that  *)
(* was thrown away or computed since, and each index that is shown is of   *)
(* what the layers now have there.                                         *)
THEOREM InstanceIndexesCurrent == InstanceSpec => []IndexesCurrent
<1>1. IndexInv /\ PrimsInv => IndexesCurrent
  <2>. SUFFICES ASSUME IndexInv, PrimsInv, Settled
                PROVE  stale = {} /\ \A p \in Shown : index[p] # Nothing /\ index[p] = KindAt(p)
    BY DEF IndexesCurrent
  <2>1. ASSUME NEW p \in Shown  PROVE index[p] # Nothing /\ index[p] = KindAt(p)
    <3>1. PICK t \in DOMAIN primIndex : p = primIndex[t]
      BY DEF Shown
    <3>2. p \in ScenePaths
      BY <3>1, PrimsSettled
    <3>3. index[p] # Nothing
      BY <3>2, ShownAre, KindsAre
    <3>. QED  BY <3>2, <3>3, CurrentIndexes DEF Settled
  <2>. QED  BY <2>1, PrimsSettled
<1>. QED  BY <1>1, InstanceInvariant, InstancePrims, PTL DEF RoundInv

(* The instance cache then has registered exactly the instances that prims *)
(* show: none below another instance that is no source, none that is gone, *)
(* and each under its key.                                                 *)
THEOREM InstanceRegisteredExactly == InstanceSpec => []RegisteredExactly
<1>1. IndexInv /\ PrimsInv => RegisteredExactly
  <2>. SUFFICES ASSUME IndexInv, PrimsInv, Settled, NEW p \in ScenePaths
                PROVE  instanceOf[p] = IF p \in Shown /\ KindAt(p) \in Instanceable
                                       THEN KindAt(p) ELSE Nothing
    BY DEF RegisteredExactly
  <2>1. phase # "compose" /\ didChangeSignificantly = {}
    BY DEF Settled
  <2>2. /\ \A k \in Instanceable : instanceOf[p] = k <=> index[p] = k
        /\ instanceOf[p] \in Instanceable \cup {Nothing}
    BY <2>1, AtRest DEF IndexInv, InstanceTyped
  <2>3. p \in Shown <=> index[p] \in PrimKinds
    BY ShownAre
  <2>4. index[p] \in PrimKinds => index[p] = KindAt(p)
    BY <2>1, CurrentIndexes, KindsAre
  <2>5. CASE p \in Shown /\ KindAt(p) \in Instanceable
    BY <2>2, <2>3, <2>4, <2>5
  <2>6. CASE ~(p \in Shown /\ KindAt(p) \in Instanceable)
    <3>1. instanceOf[p] \notin Instanceable
      BY <2>2, <2>3, <2>4, <2>6, KindsAre
    <3>. QED  BY <2>2, <2>6, <3>1
  <2>. QED  BY <2>5, <2>6
<1>. QED  BY <1>1, InstanceInvariant, InstancePrims, PTL DEF RoundInv

(* The prims are then those that _ComposeSubtree makes from the pseudo-    *)
(* root and from the source of each live prototype: what the rounds have   *)
(* left in place is what composing all of it afresh would give.            *)
THEOREM InstancePrimsExact == InstanceSpec => []PrimsExact
<1>1. IndexInv /\ PrimsInv => PrimsExact
  <2>. SUFFICES ASSUME IndexInv, PrimsInv, Settled PROVE PrimsExact
    BY DEF PrimsExact
  <2>. DEFINE R == {<<Stage, PseudoRoot>>}
                       \cup {<<Proto(k), PseudoRoot>> : k \in {k \in Instanceable : prototype[k] # 0}}
              pathOf(s) == IF s[1] = Stage THEN PseudoRoot ELSE source[s[1][1]]
  <2>1. phase # "compose" /\ didChangeSignificantly = {}
    BY DEF Settled
  <2>2. \A r \in Trees : <<r, PseudoRoot>> \in R /\ pathOf(<<r, PseudoRoot>>) = TopOf(r)
    BY DEF Trees, TopOf
  <2>3. \A s \in R : \E r \in Trees : s = <<r, PseudoRoot>>
    BY DEF Trees
  <2>4. ASSUME NEW r \in Trees
        PROVE  LET s == <<r, PseudoRoot>>
               IN  /\ \A t \in DOMAIN Subtree(s, TopOf(r)) : t \in DOMAIN primIndex
                   /\ \A t \in DOMAIN primIndex : t[1] = r => t \in DOMAIN Subtree(s, TopOf(r))
    <3>1. PICK s, b : s = <<r, PseudoRoot>> /\ b = TopOf(r)
      OBVIOUS
    <3>2. /\ b \in ScenePaths /\ b \in Seq(Names) /\ Visible(r, b) /\ b \o PseudoRoot = b
          /\ PseudoRoot \in Seq(Names)
      BY <2>1, <3>1, TreesAre, TopIsVisible, EmptySeq DEF PseudoRoot
    <3>3. s[1] = r /\ s[2] = PseudoRoot /\ s = <<s[1], s[2]>> /\ At(s) = b
      BY <3>1, <3>2 DEF At
    <3>4. \A x \in ScenePaths : x \in SubtreePaths(s, b) <=> Visible(r, x)
      <4>1. ASSUME NEW x \in ScenePaths
            PROVE  x \in SubtreePaths(<<r, PseudoRoot>>, TopOf(r) \o PseudoRoot) <=>
                       IsPrefix(TopOf(r) \o PseudoRoot, x) /\ Visible(r, x)
        BY <2>1, <3>1, <3>2, SubtreeIsVisible
      <4>2. TopOf(r) \o PseudoRoot = b
        BY <3>1, <3>2
      <4>. QED  BY <3>1, <4>1, <4>2 DEF Visible
    <3>5. /\ \A t \in DOMAIN Subtree(s, b) :
                 /\ t = <<r, t[2]>> /\ t[2] \in Seq(Names) /\ At(t) \in SubtreePaths(s, b)
          /\ \A t : t = <<r, t[2]>> /\ t[2] \in Seq(Names) /\ At(t) \in SubtreePaths(s, b) =>
                 t \in DOMAIN Subtree(s, b)
      BY <3>1, <3>2, <3>3, SubtreeInTree
    <3>6. \A t \in DOMAIN Subtree(s, b) : t \in DOMAIN primIndex
      <4>1. ASSUME NEW t \in DOMAIN Subtree(s, b)  PROVE t \in DOMAIN primIndex
        <5>1. t = <<r, t[2]>> /\ t[1] = r /\ t[2] \in Seq(Names) /\ At(t) \in SubtreePaths(s, b)
          BY <3>5
        <5>2. At(t) \in ScenePaths
          BY <5>1 DEF SubtreePaths
        <5>. QED  BY <3>4, <5>1, <5>2, PrimsSettled
      <4>. QED  BY <4>1
    <3>7. \A t \in DOMAIN primIndex : t[1] = r => t \in DOMAIN Subtree(s, b)
      BY <3>4, <3>5, PrimsSettled
    <3>. QED  BY <3>1, <3>6, <3>7
  <2>. HIDE DEF R, pathOf
  <2>5. \A t : t \in DOMAIN primIndex <=> \E s \in R : t \in DOMAIN Subtree(s, pathOf(s))
    <3>1. ASSUME NEW t \in DOMAIN primIndex
          PROVE  \E s \in R : t \in DOMAIN Subtree(s, pathOf(s))
      <4>1. t[1] \in Trees
        BY PrimsSettled
      <4>. QED  BY <2>2, <2>4, <4>1
    <3>2. ASSUME NEW s \in R, NEW t \in DOMAIN Subtree(s, pathOf(s))
          PROVE  t \in DOMAIN primIndex
      BY <2>2, <2>3, <2>4
    <3>. QED  BY <3>1, <3>2
  <2>6. DOMAIN primIndex = UNION {DOMAIN Subtree(s, pathOf(s)) : s \in R}
    BY <2>5
  <2>. QED  BY <2>6 DEF PrimsExact, R, pathOf
<1>. QED  BY <1>1, InstanceInvariant, InstancePrims, PTL DEF RoundInv
===============================================================================
