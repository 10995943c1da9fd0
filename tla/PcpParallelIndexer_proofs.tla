---------------------- MODULE PcpParallelIndexer_proofs ----------------------
(***************************************************************************)
(* Proofs about the parallel indexer for any tree of paths and any number  *)
(* of calls, each given roots that are not below each other.               *)
(***************************************************************************)
EXTENDS PcpParallelIndexer, TLAPS

-----------------------------------------------------------------------------
(* The inductive invariant.                                                *)

(* Where an output is after Push and before its insertion.                 *)
Queued(t) == \E i \in DOMAIN queue : queue[i] = t
Popped(t) == \E w \in Publishers : pc[w] = "insert" /\ item[w] = t
OnItsWay(t) == Queued(t) \/ Popped(t)

(* The tasks that have an index, and those whose index is in the cache.    *)
AfterPush == {"load", "exchange", "pop", "insert", "depend", "published",
              "finish", "done"}
HasIndex(t) == pc[t] \in AfterPush \cup {"replaced"}
InCache(t) == HasIndex(t) /\ ~OnItsWay(t)

Publishing(w) == pc[w] \in {"pop", "insert", "depend", "published"}

(* The path table has the parents of what it has.                          *)
CacheClosed ==
    /\ valid \subseteq {p \in Paths : entry[p] # None}
    /\ \A p \in Paths : entry[p] # None => \A q \in Prefixes[p] : entry[q] # None

(* Below each root, tasks start after those above them have finished.      *)
Active(t) == pc[t] # "none"
Finished(t) == pc[t] = "done"
StartedInOrder ==
    /\ Disjoint(toCompute) /\ checkCache \subseteq {t \in Tasks : Active(t)}
    /\ \A t \in Tasks : Active(t) =>
        /\ RootOf(t) \in toCompute \cap Prefixes[PathOf(t)]
        /\ \A q \in StrictPrefixes(PathOf(t)) :
               RootOf(t) \in Prefixes[q] => Finished(<<q, RootOf(t)>>)

(* There is one publisher at a time, Main when no task runs any more.      *)
OnePublisher ==
    /\ \A v, w \in Publishers : Publishing(v) /\ Publishing(w) => v = w
    /\ \A t \in Tasks : Publishing(t) => isPublishing
    /\ \A t \in Tasks : Running(t) => pc[Main] = "wait"
    /\ pc[Main] \in {"none", "wait", "pop", "insert", "depend"}
    /\ pc[Main] = "none" => queue = <<>>
    /\ \A t \in Tasks : pc[t] # "wait"
    /\ \A w \in Publishers : pc[w] \in {"insert", "depend"} => item[w] \in Tasks

(* Outputs arrive once each, a parent's before those of its descendants.   *)
QueueOrdered ==
    /\ \A t \in Tasks : OnItsWay(t) => pc[t] \in AfterPush /\ t \notin checkCache
    /\ \A i, j \in DOMAIN queue : i < j =>
        queue[i] # queue[j]
        /\ PathOf(queue[j]) \notin StrictPrefixes(PathOf(queue[i]))
    /\ \A t, u \in Tasks : Popped(t) /\ Queued(u) =>
        t # u /\ PathOf(u) \notin StrictPrefixes(PathOf(t))

(* Where a task found nothing, below it there is nothing but what came     *)
(* through the queue; where it found an entry, the entry stays invalid     *)
(* until the task replaces it.                                             *)
Skips(s) == Active(s) /\ s \notin checkCache
NotArrived(t) == ~HasIndex(t) \/ OnItsWay(t)
NothingThere ==
    /\ \A s, t \in Tasks :
        /\ Skips(s) /\ RootOf(t) = RootOf(s) /\ PathOf(s) \in Prefixes[PathOf(t)]
        /\ NotArrived(t)
        => entry[PathOf(t)] = None
    /\ \A t \in Tasks :
        /\ pc[t] = "push" => t \notin checkCache
        /\ pc[t] = "replace" => t \in checkCache
        /\ pc[t] \in {"compute", "replace"} /\ t \in checkCache =>
              entry[PathOf(t)] # None /\ PathOf(t) \notin valid

(* What tasks hold of the cache is what is there, until indexes are blown. *)
UpToDate == pc[Main] # "none" \/ changed = {}
IndexesCurrent ==
    UpToDate =>
        /\ \A r \in toCompute : StrictPrefixes(r) \subseteq valid
        /\ \A t \in Tasks :
            /\ pc[t] \in {"replace", "push"} \/ OnItsWay(t) => index[t] = NodeOf(t)
            /\ HasIndex(t) /\ ~OnItsWay(t) =>
                  index[t] = entry[PathOf(t)] /\ PathOf(t) \in valid
            /\ pc[t] \in {"check", "compute"} /\ PathOf(t) # AbsoluteRoot =>
                  IF PathOf(t) = RootOf(t)
                  THEN parentIndex[t] = entry[Parent[PathOf(t)]]
                  ELSE parentIndex[t] = index[<<Parent[PathOf(t)], RootOf(t)>>]

(* The record has the finished paths that are instanceable.                *)
RecordRight ==
    /\ recorded \subseteq Instanceable
    /\ \A t \in Tasks : Finished(t) /\ PathOf(t) \in Instanceable
                            => PathOf(t) \in recorded

(* A path to be computed has its task, or one above it that is to start it.*)
AllStarted ==
    UpToDate =>
        \A r \in toCompute : \A p \in Subtree(r) :
            \/ Active(<<p, r>>)
            \/ \E q \in StrictPrefixes(p) :
                  /\ r \in Prefixes[q]
                  /\ q \notin expand \/ Running(<<q, r>>)

IndexerInv ==
    /\ TypeOK
    /\ CacheClosed
    /\ StartedInOrder
    /\ OnePublisher
    /\ QueueOrdered
    /\ NothingThere
    /\ IndexesCurrent
    /\ RecordRight
    /\ AllStarted

-----------------------------------------------------------------------------
(* Paths and tasks.                                                        *)

LEMMA Tree ==
    ASSUME NEW p \in Paths
    PROVE  /\ p \in Prefixes[p] /\ Prefixes[p] \subseteq Paths
           /\ p # AbsoluteRoot => Parent[p] \in StrictPrefixes(p)
           /\ \A q \in Prefixes[p] :
                /\ Prefixes[q] \subseteq Prefixes[p]
                /\ q # p => p \notin Prefixes[q]
                /\ q # p /\ p # AbsoluteRoot => q \in Prefixes[Parent[p]]
                /\ \A r \in Prefixes[p] : q \in Prefixes[r] \/ r \in Prefixes[q]
                /\ q # p => \E c \in Prefixes[p] \ {AbsoluteRoot} : Parent[c] = q
<1>1. p \in Prefixes[p] /\ Prefixes[p] \subseteq Paths
  BY PathsAssumption
<1>2. p # AbsoluteRoot => /\ Parent[p] \in Paths /\ p \notin Prefixes[Parent[p]]
                          /\ Prefixes[p] = {p} \cup Prefixes[Parent[p]]
                          /\ Parent[p] \in Prefixes[Parent[p]]
  BY PathsAssumption
<1> QED
  BY <1>1, <1>2, TreeAssumption DEF StrictPrefixes

LEMMA TaskParts ==
    /\ \A t \in Tasks : /\ PathOf(t) \in Paths /\ RootOf(t) \in Paths
                        /\ t = <<PathOf(t), RootOf(t)>> /\ t \in Publishers
                        /\ t # Main /\ t # None
    /\ \A p, r \in Paths : /\ <<p, r>> \in Tasks
                           /\ PathOf(<<p, r>>) = p /\ RootOf(<<p, r>>) = r
    /\ \A w \in Publishers : w \in Tasks \/ w = Main
    /\ Main \in Publishers
BY PathsAssumption DEF Tasks, PathOf, RootOf, Publishers

(* Of two tasks below one path, the roots are the same.                    *)
LEMMA OneRoot ==
    ASSUME Disjoint(toCompute), NEW p \in Paths,
           NEW r \in toCompute, NEW s \in toCompute,
           r \in Prefixes[p], s \in Prefixes[p]
    PROVE  r = s
BY Tree DEF Disjoint, StrictPrefixes

(* The children a task starts, and the nodes of indexes.                   *)
LEMMA ChildParts ==
    ASSUME NEW t \in Tasks, NEW c
    PROVE  c \in ChildTasks(t) <=>
               /\ c \in Tasks /\ RootOf(c) = RootOf(t)
               /\ PathOf(c) # AbsoluteRoot /\ Parent[PathOf(c)] = PathOf(t)
<1>1. DOMAIN Parent = Paths \ {AbsoluteRoot}
  BY PathsAssumption
<1> QED
  BY <1>1, TaskParts DEF ChildTasks, Children

LEMMA NodeParts ==
    ASSUME call \in 0 .. MaxCalls
    PROVE  /\ \A t \in Tasks : NodeOf(t) \in Nodes /\ NodeOf(t) # None
           /\ \A p \in Paths : <<call, p>> \in Nodes /\ <<call, p>> # None
BY NodesAssumption DEF NodeOf, Nodes

-----------------------------------------------------------------------------
(* Every conjunct of the invariant is kept by every step.                  *)

LEMMA InsertedType ==
    ASSUME TypeOK, NEW p \in Paths, NEW node \in Nodes
    PROVE  /\ Inserted(p, node) \in [Paths -> Nodes \cup {None}]
           /\ \A q \in Paths :
                /\ entry[q] # None => Inserted(p, node)[q] = entry[q]
                /\ q \in Prefixes[p] => Inserted(p, node)[q] # None
                /\ q \notin Prefixes[p] => Inserted(p, node)[q] = entry[q]
                /\ q = p /\ entry[q] = None => Inserted(p, node)[q] = node
<1>1. call \in 0 .. MaxCalls /\ entry \in [Paths -> Nodes \cup {None}]
  BY DEF TypeOK
<1>2. node # None /\ \A q \in Paths : <<call, q>> \in Nodes /\ <<call, q>> # None
  BY <1>1, NodeParts, NodesAssumption
<1>3. p \in Prefixes[p]
  BY Tree
<1> QED
  BY <1>1, <1>2, <1>3 DEF Inserted

LEMMA InitHolds == Init => IndexerInv
<1> SUFFICES ASSUME Init PROVE IndexerInv
  OBVIOUS
<1>1. /\ \A w \in Publishers : pc[w] = "none"
      /\ Main \in Publishers /\ Tasks \subseteq Publishers
      /\ \A p \in Paths : entry[p] = None
      /\ queue = <<>> /\ DOMAIN queue = {}
      /\ changed # {}
  BY TaskParts DEF Init
<1>2. TypeOK
  <2>1. /\ entry \in [Paths -> Nodes \cup {None}] /\ deps \in [Paths -> Nat]
        /\ queue \in Seq(Tasks) /\ item \in [Publishers -> Tasks \cup {None}]
    BY DEF Init
  <2>2. /\ parentIndex \in [Tasks -> Nodes \cup {None}]
        /\ index \in [Tasks -> Nodes \cup {None}]
        /\ call \in 0 .. MaxCalls /\ changed \subseteq Paths
    BY PathsAssumption, BoundAssumption DEF Init
  <2> QED
    BY <2>1, <2>2 DEF Init, TypeOK, Places
<1>3. CacheClosed
  BY <1>1 DEF CacheClosed, Init
<1>4. StartedInOrder
  BY <1>1 DEF StartedInOrder, Init, Disjoint, Active
<1>5. OnePublisher
  BY <1>1 DEF OnePublisher, Publishing, Running
<1>6. QueueOrdered
  BY <1>1 DEF QueueOrdered, OnItsWay, Popped, Queued
<1>7. NothingThere
  BY <1>1 DEF NothingThere, Skips, Active
<1>8. IndexesCurrent /\ AllStarted
  BY <1>1 DEF IndexesCurrent, AllStarted, UpToDate
<1>9. RecordRight
  BY <1>1 DEF RecordRight, Init, Finished
<1> QED
  BY <1>2, <1>3, <1>4, <1>5, <1>6, <1>7, <1>8, <1>9 DEF IndexerInv

(* The steps, by what they do to the cache and to the queue.               *)
QuietStep(t) == CheckCache(t) \/ Compute(t) \/ LoadIsPublishing(t)
                    \/ TakePublishing(t) \/ StopPublishing(t)
Blow(p) == RemovePrimCache(p) \/ RemovePrimAndPropertyCaches(p)

LEMMA NextCases ==
    ASSUME Next
    PROVE  \/ \E t \in Tasks : QuietStep(t) \/ Replace(t) \/ Replaced(t)
                                  \/ Push(t) \/ Finish(t)
           \/ \E w \in Publishers : PublisherNext(w)
           \/ Wait
           \/ \E roots, preds \in SUBSET Paths : Begin(roots, preds)
           \/ \E p \in Paths : Blow(p)
BY TaskParts DEF Next, TaskNext, MainNext, QuietStep, Blow

LEMMA PlaceType ==
    ASSUME TypeOK, NEW w \in Publishers, NEW from, NEW to \in Places,
           Goes(w, from, to)
    PROVE  /\ pc' \in [Publishers -> Places]
           /\ pc[w] = from /\ pc'[w] = to
           /\ \A v \in Publishers \ {w} : pc'[v] = pc[v]
BY DEF TypeOK, Goes

(* What a call begins with, part by part.                                  *)
ComputedFirst(roots) == (UNION {StrictPrefixes(r) : r \in roots}) \ valid
RootTasks(roots) == {<<r, r>> : r \in roots}
BeginParts(roots, preds) ==
    /\ pc[Main] = "none" /\ call < MaxCalls
    /\ Disjoint(roots) \/ Overlapping
    /\ call' = call + 1 /\ toCompute' = roots /\ expand' = preds
    /\ entry' = [p \in Paths |-> IF p \in ComputedFirst(roots) /\ entry[p] = None
                                 THEN <<call', p>> ELSE entry[p]]
    /\ valid' = valid \cup ComputedFirst(roots)
    /\ deps' = Adding(ComputedFirst(roots))
    /\ recorded' = {} /\ changed' = {} /\ checkCache' = RootTasks(roots)
    /\ pc' = [w \in Publishers |->
                 IF w = Main THEN "wait"
                 ELSE IF w \in RootTasks(roots) THEN "check" ELSE "none"]
    /\ parentIndex' = [t \in Tasks |->
           IF t \in RootTasks(roots) /\ PathOf(t) # AbsoluteRoot
           THEN entry'[Parent[PathOf(t)]] ELSE None]
    /\ index' = [t \in Tasks |-> None]
    /\ UNCHANGED publishVars

LEMMA BeginDoes ==
    ASSUME NEW roots \in SUBSET Paths, NEW preds \in SUBSET Paths, Begin(roots, preds)
    PROVE  BeginParts(roots, preds)
<1> USE DEF Begin, ComputedFirst, RootTasks
<1>1. pc[Main] = "none" /\ call < MaxCalls /\ (Disjoint(roots) \/ Overlapping)
  OBVIOUS
<1>2. call' = call + 1 /\ toCompute' = roots /\ expand' = preds
  OBVIOUS
<1>3. entry' = [p \in Paths |-> IF p \in ComputedFirst(roots) /\ entry[p] = None
                               THEN <<call', p>> ELSE entry[p]]
  BY Zenon
<1>4. /\ valid' = valid \cup ComputedFirst(roots)
      /\ deps' = Adding(ComputedFirst(roots))
  BY Zenon
<1>5. recorded' = {} /\ changed' = {} /\ checkCache' = RootTasks(roots)
  BY Zenon
<1>6. pc' = [w \in Publishers |->
               IF w = Main THEN "wait"
               ELSE IF w \in RootTasks(roots) THEN "check" ELSE "none"]
  BY Zenon
<1>7. parentIndex' = [t \in Tasks |->
           IF t \in RootTasks(roots) /\ PathOf(t) # AbsoluteRoot
           THEN entry'[Parent[PathOf(t)]] ELSE None]
  BY Zenon
<1>8. index' = [t \in Tasks |-> None] /\ UNCHANGED publishVars
  BY Zenon
<1> QED
  BY <1>1, <1>2, <1>3, <1>4, <1>5, <1>6, <1>7, <1>8 DEF BeginParts

LEMMA TypeStep == ASSUME TypeOK, OnePublisher, Next PROVE TypeOK'
<1> USE TaskParts DEF Places
<1>0. /\ entry \in [Paths -> Nodes \cup {None}] /\ deps \in [Paths -> Nat]
      /\ call \in 0 .. MaxCalls /\ queue \in Seq(Tasks)
      /\ \A t \in Tasks : NodeOf(t) \in Nodes
      /\ \A p \in Paths : <<call, p>> \in Nodes
      /\ \A t \in Tasks : index[t] \in Nodes \cup {None}
  BY NodeParts DEF TypeOK
<1>1. \A ps \in SUBSET Paths : Adding(ps) \in [Paths -> Nat]
  BY <1>0 DEF Adding
<1>a. \A t \in Tasks : Adding({PathOf(t)}) \in [Paths -> Nat]
  BY <1>1
<1>2. \A t \in Tasks : Inserted(PathOf(t), NodeOf(t)) \in [Paths -> Nodes \cup {None}]
  BY <1>0, InsertedType
<1>3. ASSUME NEW t \in Tasks, QuietStep(t) PROVE TypeOK'
  <2>1. CASE CheckCache(t)
    <3>1. entry[PathOf(t)] \in Nodes \cup {None}
      BY <1>0
    <3>2. pc' \in [Publishers -> Places] /\ index' \in [Tasks -> Nodes \cup {None}]
      BY <2>1, <3>1 DEF CheckCache, TypeOK
    <3> QED
      BY <2>1, <3>2 DEF CheckCache, TypeOK, cacheVars, publishVars, callVars
  <2>2. CASE Compute(t)
    BY <2>2, <1>0, PlaceType DEF Compute, TypeOK, cacheVars, publishVars, callVars
  <2>3. CASE LoadIsPublishing(t) \/ TakePublishing(t) \/ StopPublishing(t)
    BY <2>3, <1>0, PlaceType DEF LoadIsPublishing, TakePublishing, StopPublishing,
       TypeOK, cacheVars, publishVars, taskVars, callVars
  <2> QED
    BY <1>3, <2>1, <2>2, <2>3 DEF QuietStep
<1>4. ASSUME NEW t \in Tasks, Replace(t) \/ Replaced(t) PROVE TypeOK'
  <2>1. CASE Replace(t)
    BY <2>1, <1>0, <1>2, PlaceType DEF Replace, InsertIndex, TypeOK, publishVars, callVars
  <2>2. CASE Replaced(t)
    BY <2>2, <1>0, <1>a, PlaceType
       DEF Replaced, AddDependencies, TypeOK, publishVars, taskVars, callVars
  <2> QED
    BY <1>4, <2>1, <2>2
<1>5. ASSUME NEW t \in Tasks, Push(t) PROVE TypeOK'
  <2>1. queue' \in Seq(Tasks)
    BY <1>0, <1>5 DEF Push
  <2> QED
    BY <1>5, <2>1, <1>0, PlaceType DEF Push, TypeOK, cacheVars, taskVars, callVars
<1>6. ASSUME NEW t \in Tasks, Finish(t) PROVE TypeOK'
  BY <1>6, <1>0, ChildParts
     DEF Finish, StartChildren, TypeOK, cacheVars, publishVars, callVars
<1>7. ASSUME NEW w \in Publishers, PublisherNext(w) PROVE TypeOK'
  <2>1. CASE TryPop(w)
    <3>1. queue' \in Seq(Tasks) /\ Head(queue) \in Tasks
      BY <1>0, <2>1 DEF TryPop
    <3> QED
      BY <2>1, <3>1, PlaceType DEF TryPop, TypeOK, cacheVars, taskVars, callVars
  <2>2. CASE Publish(w) \/ Depend(w)
    <3>1. item[w] \in Tasks
      BY <2>2 DEF Publish, Depend, Goes, OnePublisher
    <3>2. CASE Publish(w)
      BY <3>1, <3>2, <1>2, PlaceType
         DEF Publish, InsertIndex, TypeOK, publishVars, taskVars, callVars
    <3>3. CASE Depend(w)
      BY <3>1, <3>3, <1>a, PlaceType
         DEF Depend, AddDependencies, TypeOK, publishVars, taskVars, callVars
    <3> QED
      BY <2>2, <3>2, <3>3
  <2>3. CASE QueueEmpty(w)
    BY <2>3, PlaceType DEF QueueEmpty, TypeOK, cacheVars, publishVars, taskVars, callVars
  <2> QED
    BY <1>7, <2>1, <2>2, <2>3 DEF PublisherNext
<1>8. ASSUME Wait PROVE TypeOK'
  BY <1>8, PlaceType DEF Wait, TypeOK, cacheVars, publishVars, taskVars, callVars
<1>9. ASSUME NEW roots \in SUBSET Paths, NEW preds \in SUBSET Paths, Begin(roots, preds)
      PROVE  TypeOK'
  <2>1. /\ ComputedFirst(roots) \in SUBSET Paths
        /\ RootTasks(roots) \subseteq Tasks
    BY Tree DEF StrictPrefixes, ComputedFirst, RootTasks
  <2>2. BeginParts(roots, preds)
    BY <1>9, BeginDoes
  <2> USE DEF BeginParts
  <2>3. call' \in 0 .. MaxCalls
    BY <1>0, <2>2, BoundAssumption
  <2>4. \A p \in Paths : <<call', p>> \in Nodes
    BY <2>3 DEF Nodes
  <2>5. entry' \in [Paths -> Nodes \cup {None}]
    BY <1>0, <2>2, <2>4
  <2>6. parentIndex' \in [Tasks -> Nodes \cup {None}]
    BY <2>2, <2>5, PathsAssumption
  <2>7. pc' \in [Publishers -> Places] /\ index' \in [Tasks -> Nodes \cup {None}]
    BY <2>2
  <2>8. deps' \in [Paths -> Nat] /\ valid' \subseteq Paths
    BY <1>1, <2>1, <2>2 DEF TypeOK
  <2> QED
    BY <2>1, <2>2, <2>3, <2>5, <2>6, <2>7, <2>8 DEF TypeOK, publishVars
<1>10. ASSUME NEW p \in Paths, Blow(p) PROVE TypeOK'
  <2>1. entry' \in [Paths -> Nodes \cup {None}] /\ deps' \in [Paths -> Nat]
    <3>1. CASE RemovePrimCache(p)
      BY <3>1, <1>0 DEF RemovePrimCache
    <3>2. CASE RemovePrimAndPropertyCaches(p)
      BY <3>2, <1>0 DEF RemovePrimAndPropertyCaches
    <3> QED
      BY <1>10, <3>1, <3>2 DEF Blow
  <2>2. /\ valid' \subseteq Paths /\ changed' \subseteq Paths
        /\ UNCHANGED <<publishVars, taskVars, toCompute, expand, call, recorded, pc>>
    BY <1>10 DEF Blow, RemovePrimCache, RemovePrimAndPropertyCaches, BetweenCalls, TypeOK
  <2> QED
    BY <2>1, <2>2 DEF TypeOK, publishVars, taskVars
<1> QED
  BY NextCases, <1>3, <1>4, <1>5, <1>6, <1>7, <1>8, <1>9, <1>10

(* Insertion, as its caller finds and leaves the cache.                    *)
LEMMA InsertKeepsClosed ==
    ASSUME TypeOK, CacheClosed, NEW t \in Tasks, InsertIndex(t)
    PROVE  /\ CacheClosed'
           /\ \A p \in Paths :
                /\ entry[p] # None => entry'[p] = entry[p]
                /\ p \notin Prefixes[PathOf(t)] => entry'[p] = entry[p]
                /\ p = PathOf(t) /\ entry[p] = None => entry'[p] = NodeOf(t)
           /\ entry'[PathOf(t)] # None /\ valid' = valid \cup {PathOf(t)}
<1>1. PathOf(t) \in Paths /\ NodeOf(t) \in Nodes
  BY TaskParts, NodeParts DEF TypeOK
<1>2. \A p \in Paths :
        /\ entry[p] # None => entry'[p] = entry[p]
        /\ p \in Prefixes[PathOf(t)] => entry'[p] # None
        /\ p \notin Prefixes[PathOf(t)] => entry'[p] = entry[p]
        /\ p = PathOf(t) /\ entry[p] = None => entry'[p] = NodeOf(t)
  BY <1>1, InsertedType DEF InsertIndex
<1>3. PathOf(t) \in Prefixes[PathOf(t)]
  BY <1>1, Tree
<1>4. valid' \subseteq {p \in Paths : entry'[p] # None}
  BY <1>1, <1>2, <1>3 DEF CacheClosed, InsertIndex
<1>5. ASSUME NEW p \in Paths, entry'[p] # None, NEW q \in Prefixes[p]
      PROVE  entry'[q] # None
  <2>1. q \in Paths /\ (p \in Prefixes[PathOf(t)] => q \in Prefixes[PathOf(t)])
    BY <1>1, Tree
  <2> QED
    BY <1>2, <1>5, <2>1 DEF CacheClosed
<1> QED
  BY <1>1, <1>2, <1>3, <1>4, <1>5 DEF CacheClosed, InsertIndex

(* Who inserts, and which steps leave entries and their validity alone.    *)
LEMMA CacheMoves ==
    ASSUME Next, OnePublisher
    PROVE  \/ UNCHANGED <<entry, valid>>
           \/ \E t \in Tasks : InsertIndex(t)
           \/ \E roots, preds \in SUBSET Paths : Begin(roots, preds)
           \/ \E p \in Paths : Blow(p)
<1>1. ASSUME NEW t \in Tasks, QuietStep(t) \/ Replaced(t) \/ Push(t) \/ Finish(t)
      PROVE  UNCHANGED <<entry, valid>>
  BY <1>1 DEF QuietStep, CheckCache, Compute, LoadIsPublishing, TakePublishing,
     StopPublishing, Replaced, AddDependencies, Push, Finish, cacheVars
<1>2. ASSUME NEW w \in Publishers, PublisherNext(w)
      PROVE  UNCHANGED <<entry, valid>> \/ \E t \in Tasks : InsertIndex(t)
  BY <1>2 DEF PublisherNext, TryPop, Publish, Depend, QueueEmpty, AddDependencies,
     cacheVars, Goes, OnePublisher
<1>3. ASSUME NEW t \in Tasks, Replace(t) PROVE InsertIndex(t)
  BY <1>3 DEF Replace
<1>4. Wait => UNCHANGED <<entry, valid>>
  BY DEF Wait, cacheVars
<1> QED
  BY <1>1, <1>2, <1>3, <1>4, NextCases

LEMMA CacheStep == ASSUME TypeOK, CacheClosed, OnePublisher, Next PROVE CacheClosed'
<1>1. ASSUME UNCHANGED <<entry, valid>> PROVE CacheClosed'
  BY <1>1 DEF CacheClosed
<1>2. ASSUME NEW roots \in SUBSET Paths, NEW preds \in SUBSET Paths, Begin(roots, preds)
      PROVE  CacheClosed'
  <2>1. BeginParts(roots, preds) /\ call \in 0 .. MaxCalls
    BY <1>2, BeginDoes DEF TypeOK
  <2>2. call' \in 0 .. MaxCalls
    BY <2>1, BoundAssumption DEF BeginParts
  <2>3. \A p \in Paths : <<call', p>> # None
    BY <2>2, NodesAssumption DEF Nodes
  <2>4. ComputedFirst(roots) \subseteq Paths
    BY Tree DEF StrictPrefixes, ComputedFirst
  <2>5. \A p \in Paths : entry'[p] # None <=> entry[p] # None \/ p \in ComputedFirst(roots)
    BY <2>1, <2>3 DEF BeginParts
  <2>6. ASSUME NEW p \in ComputedFirst(roots), NEW q \in Prefixes[p]
        PROVE  q \in ComputedFirst(roots) \/ q \in valid
    <3>1. PICK r \in roots : p \in StrictPrefixes(r)
      BY <2>6 DEF ComputedFirst
    <3>2. q \in StrictPrefixes(r)
      BY <3>1, Tree DEF StrictPrefixes
    <3> QED
      BY <3>2 DEF ComputedFirst
  <2>7. \A p \in Paths : Prefixes[p] \subseteq Paths
    BY Tree
  <2>8. valid' \subseteq {p \in Paths : entry'[p] # None}
    BY <2>1, <2>4, <2>5 DEF BeginParts, CacheClosed
  <2>9. ASSUME NEW p \in Paths, entry'[p] # None, NEW q \in Prefixes[p]
        PROVE  entry'[q] # None
    BY <2>5, <2>6, <2>7, <2>9 DEF CacheClosed
  <2> QED
    BY <2>8, <2>9 DEF CacheClosed
<1>3. ASSUME NEW p \in Paths, Blow(p) PROVE CacheClosed'
  <2>1. CASE RemovePrimCache(p)
    BY <2>1 DEF RemovePrimCache, CacheClosed
  <2>2. CASE RemovePrimAndPropertyCaches(p)
    <3>1. /\ valid' = valid \ Subtree(p)
          /\ \A q \in Paths : entry'[q] = IF q \in Subtree(p) THEN None ELSE entry[q]
      BY <2>2 DEF RemovePrimAndPropertyCaches
    <3>2. \A q \in Paths : \A r \in Prefixes[q] :
              r \in Paths /\ (r \in Subtree(p) => q \in Subtree(p))
      BY Tree DEF Subtree
    <3> QED
      BY <3>1, <3>2 DEF CacheClosed
  <2> QED
    BY <1>3, <2>1, <2>2 DEF Blow
<1> QED
  BY <1>1, <1>2, <1>3, CacheMoves, InsertKeepsClosed

(* A step of a running task or publisher starts and finishes no task,      *)
(* other than Finish, and leaves alone what belongs to the call.           *)
Ordinary == \/ \E t \in Tasks : QuietStep(t) \/ Replace(t) \/ Replaced(t) \/ Push(t)
            \/ \E w \in Publishers : PublisherNext(w)
            \/ Wait

LEMMA OrdinaryKeeps ==
    ASSUME TypeOK, Ordinary
    PROVE  /\ UNCHANGED <<callVars, recorded, parentIndex>>
           /\ checkCache' \subseteq checkCache
           /\ \A t \in Tasks : /\ Active(t)' <=> Active(t)
                               /\ Finished(t)' <=> Finished(t)
                               /\ Running(t)' <=> Running(t)
<1> USE TaskParts DEF Active, Finished, Running, Places
<1>1. ASSUME NEW t \in Tasks, QuietStep(t) \/ Replace(t) \/ Replaced(t) \/ Push(t)
      PROVE  /\ UNCHANGED <<callVars, recorded, parentIndex>>
             /\ checkCache' \subseteq checkCache
             /\ pc[t] \notin {"none", "done"} /\ pc'[t] \notin {"none", "done"}
             /\ \A v \in Publishers \ {t} : pc'[v] = pc[v]
  <2>1. CASE CheckCache(t)
    BY <2>1 DEF CheckCache, TypeOK
  <2>2. CASE ~CheckCache(t)
    BY <1>1, <2>2, PlaceType DEF QuietStep, Compute, LoadIsPublishing, TakePublishing,
       StopPublishing, Replace, Replaced, Push, taskVars
  <2> QED
    BY <2>1, <2>2
<1>2. ASSUME NEW w \in Publishers, PublisherNext(w)
      PROVE  /\ UNCHANGED <<callVars, recorded, taskVars>>
             /\ pc[w] \notin {"none", "done"}
             /\ w # Main => pc'[w] \notin {"none", "done"}
             /\ \A v \in Publishers \ {w} : pc'[v] = pc[v]
  BY <1>2, PlaceType DEF PublisherNext, TryPop, Publish, Depend, QueueEmpty
<1>3. ASSUME Wait
      PROVE  /\ UNCHANGED <<callVars, recorded, taskVars>>
             /\ \A v \in Publishers \ {Main} : pc'[v] = pc[v]
  BY <1>3, PlaceType DEF Wait
<1> QED
  BY <1>1, <1>2, <1>3 DEF Ordinary, taskVars

LEMMA StepKinds ==
    ASSUME Next
    PROVE  \/ Ordinary
           \/ \E t \in Tasks : Finish(t)
           \/ \E roots, preds \in SUBSET Paths : Begin(roots, preds)
           \/ \E p \in Paths : Blow(p)
BY NextCases DEF Ordinary

(* What Finish does to the places of tasks: t is done, and the children it *)
(* starts, which were not there yet, are to check the cache.               *)
Started(t) == IF PathOf(t) \in expand THEN ChildTasks(t) ELSE {}

LEMMA FinishDoes ==
    ASSUME TypeOK, StartedInOrder, NEW t \in Tasks, Finish(t)
    PROVE  /\ pc[t] = "finish" /\ pc'[t] = "done"
           /\ Started(t) \subseteq Tasks /\ t \notin Started(t)
           /\ \A c \in Started(t) :
                 pc[c] = "none" /\ pc'[c] = "check" /\ c \notin checkCache
                 /\ RootOf(c) = RootOf(t) /\ PathOf(c) # AbsoluteRoot
                 /\ Parent[PathOf(c)] = PathOf(t)
           /\ \A w \in Publishers : w # t /\ w \notin Started(t) => pc'[w] = pc[w]
           /\ checkCache' = IF t \in checkCache THEN checkCache \cup Started(t)
                            ELSE checkCache
           /\ \A c \in Tasks : parentIndex'[c] = IF c \in Started(t) THEN index[t]
                                                 ELSE parentIndex[c]
           /\ recorded' = recorded \cup ({PathOf(t)} \cap Instanceable)
           /\ UNCHANGED <<cacheVars, publishVars, index, callVars>>
<1>1. /\ pc[t] = "finish"
      /\ pc' = [w \in Publishers |-> IF w = t THEN "done"
                                     ELSE IF w \in Started(t) THEN "check" ELSE pc[w]]
      /\ parentIndex' = [c \in Tasks |-> IF c \in Started(t) THEN index[t]
                                         ELSE parentIndex[c]]
      /\ checkCache' = IF t \in checkCache THEN checkCache \cup Started(t) ELSE checkCache
      /\ recorded' = recorded \cup ({PathOf(t)} \cap Instanceable)
      /\ UNCHANGED <<cacheVars, publishVars, index, callVars>>
  BY Zenon DEF Finish, StartChildren, Started
<1>2. Active(t) /\ RootOf(t) \in Prefixes[PathOf(t)]
  BY <1>1 DEF Active, StartedInOrder
<1>3. ASSUME NEW c \in Started(t)
      PROVE  /\ c \in Tasks /\ c # t /\ pc[c] = "none" /\ c \notin checkCache
             /\ RootOf(c) = RootOf(t) /\ PathOf(c) # AbsoluteRoot
             /\ Parent[PathOf(c)] = PathOf(t)
  <2>1. /\ c \in Tasks /\ RootOf(c) = RootOf(t) /\ PathOf(c) # AbsoluteRoot
        /\ Parent[PathOf(c)] = PathOf(t) /\ PathOf(c) \in Paths
    BY <1>3, ChildParts, TaskParts DEF Started
  <2>2. PathOf(t) \in StrictPrefixes(PathOf(c)) /\ PathOf(c) # PathOf(t)
    BY <2>1, Tree DEF StrictPrefixes
  <2>3. t = <<PathOf(t), RootOf(c)>>
    BY <2>1, TaskParts
  <2>4. ~Active(c)
    BY <1>1, <1>2, <2>1, <2>2, <2>3 DEF StartedInOrder, Finished
  <2> QED
    BY <2>1, <2>2, <2>4 DEF Active, StartedInOrder
<1> QED
  BY <1>1, <1>3, TaskParts

LEMMA StartedStep ==
    ASSUME TypeOK, StartedInOrder, Next, ~Overlapping
    PROVE  StartedInOrder'
<1>1. ASSUME Ordinary PROVE StartedInOrder'
  <2>1. toCompute' = toCompute
    BY <1>1, OrdinaryKeeps DEF callVars
  <2> QED
    BY <1>1, <2>1, OrdinaryKeeps, TaskParts, Tree DEF StartedInOrder, Disjoint, StrictPrefixes
<1>2. ASSUME NEW t \in Tasks, Finish(t) PROVE StartedInOrder'
  <2>1. /\ toCompute' = toCompute /\ Active(t)
        /\ \A u \in Tasks : Finished(u) => Finished(u)'
        /\ \A u \in Tasks : Active(u) => Active(u)'
        /\ \A u \in Tasks : Active(u)' <=> Active(u) \/ u \in Started(t)
        /\ checkCache' \subseteq checkCache \cup Started(t) /\ Finished(t)'
    BY <1>2, FinishDoes, TaskParts DEF callVars, Active, Finished
  <2>2. ASSUME NEW c \in Started(t)
        PROVE  /\ RootOf(c) \in toCompute \cap Prefixes[PathOf(c)]
               /\ \A q \in StrictPrefixes(PathOf(c)) :
                      RootOf(c) \in Prefixes[q] => Finished(<<q, RootOf(c)>>)'
    <3>1. /\ c \in Tasks /\ RootOf(c) = RootOf(t) /\ PathOf(c) # AbsoluteRoot
          /\ Parent[PathOf(c)] = PathOf(t) /\ PathOf(c) \in Paths
      BY <1>2, FinishDoes, TaskParts
    <3>2. /\ PathOf(t) \in Prefixes[PathOf(c)]
          /\ Prefixes[PathOf(t)] \subseteq Prefixes[PathOf(c)]
          /\ StrictPrefixes(PathOf(c)) \subseteq StrictPrefixes(PathOf(t)) \cup {PathOf(t)}
          /\ StrictPrefixes(PathOf(c)) \subseteq Paths
      BY <3>1, Tree DEF StrictPrefixes
    <3>3. RootOf(t) \in toCompute \cap Prefixes[PathOf(t)]
      BY <2>1 DEF StartedInOrder
    <3>4. ASSUME NEW q \in StrictPrefixes(PathOf(c)), RootOf(c) \in Prefixes[q]
          PROVE  Finished(<<q, RootOf(c)>>)'
      <4>1. CASE q = PathOf(t)
        BY <2>1, <3>1, <4>1, TaskParts
      <4>2. CASE q \in StrictPrefixes(PathOf(t))
        <5>1. Finished(<<q, RootOf(t)>>) /\ <<q, RootOf(t)>> \in Tasks
          BY <2>1, <3>1, <3>2, <3>4, <4>2, TaskParts DEF StartedInOrder
        <5> QED
          BY <2>1, <3>1, <5>1
      <4> QED
        BY <3>2, <4>1, <4>2
    <3> QED
      BY <3>1, <3>2, <3>3, <3>4
  <2>3. \A u \in Tasks : \A q \in StrictPrefixes(PathOf(u)) : <<q, RootOf(u)>> \in Tasks
    BY TaskParts, Tree DEF StrictPrefixes
  <2>4. Started(t) \subseteq Tasks
    BY <1>2, FinishDoes
  <2> QED
    BY <2>1, <2>2, <2>3, <2>4 DEF StartedInOrder, Disjoint
<1>3. ASSUME NEW roots \in SUBSET Paths, NEW preds \in SUBSET Paths, Begin(roots, preds)
      PROVE  StartedInOrder'
  <2>1. BeginParts(roots, preds)
    BY <1>3, BeginDoes
  <2>2. RootTasks(roots) \subseteq Tasks
    BY TaskParts DEF RootTasks
  <2>3. \A t \in Tasks : Active(t)' <=> t \in RootTasks(roots)
    BY <2>1, TaskParts DEF BeginParts, Active
  <2>4. \A t \in RootTasks(roots) :
           PathOf(t) = RootOf(t) /\ RootOf(t) \in roots
    BY TaskParts DEF RootTasks
  <2>5. \A r \in roots : /\ r \in Prefixes[r]
                         /\ \A q \in StrictPrefixes(r) : r \notin Prefixes[q]
    BY Tree DEF StrictPrefixes
  <2>6. toCompute' = roots /\ Disjoint(roots) /\ checkCache' = RootTasks(roots)
    BY <2>1 DEF BeginParts
  <2> QED
    BY <2>2, <2>3, <2>4, <2>5, <2>6 DEF StartedInOrder
<1>4. ASSUME NEW p \in Paths, Blow(p) PROVE StartedInOrder'
  <2>1. toCompute' = toCompute /\ pc' = pc /\ checkCache' = checkCache
    BY <1>4 DEF Blow, RemovePrimCache, RemovePrimAndPropertyCaches, BetweenCalls, taskVars
  <2> QED
    BY <2>1 DEF StartedInOrder, Disjoint, Active, Finished
<1> QED
  BY <1>1, <1>2, <1>3, <1>4, StepKinds

LEMMA PublisherStep ==
    ASSUME TypeOK, StartedInOrder, OnePublisher, Next
    PROVE  OnePublisher'
<1> USE TaskParts DEF Places
<1>0. /\ item \in [Publishers -> Tasks \cup {None}] /\ queue \in Seq(Tasks)
      /\ isPublishing \in BOOLEAN
  BY DEF TypeOK
<1>1. ASSUME NEW t \in Tasks, QuietStep(t) \/ Replace(t) \/ Replaced(t) \/ Push(t)
      PROVE  OnePublisher'
  <2>1. /\ pc[t] \notin {"none", "done", "pop", "insert", "depend"}
        /\ pc'[t] \notin {"none", "done", "insert", "depend", "wait"}
        /\ \A v \in Publishers \ {t} : pc'[v] = pc[v]
        /\ item' = item
    <3>1. CASE CheckCache(t)
      BY <3>1 DEF CheckCache, TypeOK, publishVars
    <3>2. CASE ~CheckCache(t)
      BY <1>1, <3>2, PlaceType DEF QuietStep, Compute, LoadIsPublishing, TakePublishing,
         StopPublishing, Replace, Replaced, Push, publishVars
    <3> QED
      BY <3>1, <3>2
  <2>2. Running(t) /\ pc[Main] = "wait" /\ pc'[Main] = "wait"
    BY <2>1 DEF Running, OnePublisher
  <2>3. CASE TakePublishing(t)
    <3>1. /\ isPublishing' = TRUE
          /\ pc'[t] = IF isPublishing THEN "finish" ELSE "pop"
      BY <2>3, PlaceType DEF TakePublishing
    <3> QED
      BY <1>0, <2>1, <2>2, <3>1 DEF OnePublisher, Publishing, Running
  <2>4. CASE StopPublishing(t)
    <3>1. pc[t] = "published" /\ pc'[t] = "finish"
      BY <2>4, PlaceType DEF StopPublishing
    <3> QED
      BY <1>0, <2>1, <2>2, <3>1 DEF OnePublisher, Publishing, Running
  <2>5. CASE ~TakePublishing(t) /\ ~StopPublishing(t)
    <3>1. ~Publishing(t)' /\ isPublishing' = isPublishing
      <4>1. CASE CheckCache(t)
        BY <4>1 DEF CheckCache, TypeOK, publishVars, Publishing
      <4>2. CASE ~CheckCache(t)
        BY <1>1, <2>5, <4>2, PlaceType DEF QuietStep, Compute, LoadIsPublishing,
           Replace, Replaced, Push, publishVars, Publishing
      <4> QED
        BY <4>1, <4>2
    <3> QED
      BY <1>0, <2>1, <2>2, <3>1 DEF OnePublisher, Publishing, Running
  <2> QED
    BY <2>3, <2>4, <2>5
<1>2. ASSUME NEW t \in Tasks, Finish(t) PROVE OnePublisher'
  <2>1. /\ pc[t] = "finish" /\ pc'[t] = "done" /\ Started(t) \subseteq Tasks
        /\ \A c \in Started(t) : pc[c] = "none" /\ pc'[c] = "check"
        /\ \A w \in Publishers : w # t /\ w \notin Started(t) => pc'[w] = pc[w]
        /\ UNCHANGED <<queue, isPublishing, item>>
    BY <1>2, FinishDoes DEF publishVars
  <2>2. Running(t) /\ pc[Main] = "wait" /\ pc'[Main] = "wait"
    BY <2>1 DEF Running, OnePublisher
  <2>3. \A w \in Publishers : Publishing(w)' => Publishing(w) /\ pc'[w] = pc[w]
    BY <2>1 DEF Publishing
  <2> QED
    BY <1>0, <2>1, <2>2, <2>3 DEF OnePublisher, Running, Publishing
<1>3. ASSUME NEW w \in Publishers, PublisherNext(w) PROVE OnePublisher'
  <2>1. /\ Publishing(w)
        /\ pc'[w] \in {"pop", "insert", "depend", "published", "none"}
        /\ pc'[w] = "none" => w = Main /\ queue' = <<>>
        /\ pc'[w] = "published" => w # Main
        /\ \A v \in Publishers \ {w} : pc'[v] = pc[v]
        /\ isPublishing' = isPublishing
        /\ pc[w] # "published"
    BY <1>3, PlaceType
       DEF PublisherNext, TryPop, Publish, Depend, QueueEmpty, Publishing, publishVars
  <2>2. \A v \in Publishers : pc'[v] \in {"insert", "depend"} => item'[v] \in Tasks
    <3>1. CASE TryPop(w)
      <4>1. Head(queue) \in Tasks
        BY <1>0, <3>1 DEF TryPop
      <4> QED
        BY <1>0, <2>1, <3>1, <4>1 DEF TryPop, OnePublisher
    <3>2. CASE Publish(w) \/ QueueEmpty(w)
      BY <2>1, <3>2, PlaceType DEF Publish, QueueEmpty, OnePublisher, publishVars
    <3>3. CASE Depend(w)
      <4>1. pc'[w] = "pop" /\ \A v \in Publishers \ {w} : item'[v] = item[v]
        BY <1>0, <3>3, PlaceType DEF Depend
      <4> QED
        BY <2>1, <4>1 DEF OnePublisher
    <3> QED
      BY <1>3, <3>1, <3>2, <3>3 DEF PublisherNext
  <2>3. CASE w = Main
    <3>1. \A t \in Tasks : ~Running(t) /\ pc'[t] = pc[t]
      BY <2>1, <2>3 DEF OnePublisher, Publishing
    <3> QED
      BY <2>1, <2>2, <2>3, <3>1 DEF OnePublisher, Publishing, Running
  <2>4. CASE w \in Tasks
    <3>1. pc[Main] = "wait" /\ pc'[Main] = "wait" /\ isPublishing
      BY <2>1, <2>4 DEF OnePublisher, Publishing, Running
    <3> QED
      BY <2>1, <2>2, <2>4, <3>1 DEF OnePublisher, Publishing, Running
  <2> QED
    BY <2>3, <2>4
<1>4. ASSUME Wait PROVE OnePublisher'
  <2>1. /\ \A t \in Tasks : ~Running(t) /\ pc'[t] = pc[t]
        /\ pc[Main] = "wait" /\ pc'[Main] = "pop"
        /\ UNCHANGED <<queue, isPublishing, item>>
    BY <1>4, PlaceType DEF Wait, publishVars
  <2> QED
    BY <2>1 DEF OnePublisher, Publishing, Running
<1>5. ASSUME NEW roots \in SUBSET Paths, NEW preds \in SUBSET Paths, Begin(roots, preds)
      PROVE  OnePublisher'
  <2>1. BeginParts(roots, preds)
    BY <1>5, BeginDoes
  <2>2. /\ pc'[Main] = "wait" /\ \A t \in Tasks : pc'[t] \in {"check", "none"}
        /\ UNCHANGED <<queue, isPublishing, item>>
    BY <2>1 DEF BeginParts, publishVars
  <2> QED
    BY <2>2 DEF OnePublisher, Publishing, Running
<1>6. ASSUME NEW p \in Paths, Blow(p) PROVE OnePublisher'
  <2>1. UNCHANGED <<queue, isPublishing, item, pc>>
    BY <1>6 DEF Blow, RemovePrimCache, RemovePrimAndPropertyCaches, BetweenCalls,
       publishVars
  <2> QED
    BY <2>1 DEF OnePublisher, Publishing, Running
<1> QED
  BY NextCases, <1>1, <1>2, <1>3, <1>4, <1>5, <1>6

(* How outputs move: pushed, popped, inserted, or not at all.              *)
LEMMA PushMoves ==
    ASSUME TypeOK, NEW t \in Tasks, Push(t)
    PROVE  \A u \in Tasks : /\ Queued(u)' <=> Queued(u) \/ u = t
                            /\ Popped(u)' <=> Popped(u)
<1>1. /\ queue \in Seq(Tasks) /\ queue' = Append(queue, t) /\ item' = item
      /\ pc[t] = "push" /\ pc'[t] = "load"
      /\ \A v \in Publishers \ {t} : pc'[v] = pc[v]
  BY PlaceType DEF Push, TypeOK, Places, Publishers
<1>2. /\ DOMAIN queue = 1 .. Len(queue) /\ Len(queue) \in Nat
      /\ DOMAIN queue' = 1 .. Len(queue) + 1
      /\ \A i \in DOMAIN queue : queue'[i] = queue[i]
      /\ queue'[Len(queue) + 1] = t
  BY <1>1
<1>3. \A u \in Tasks : Queued(u)' <=> Queued(u) \/ u = t
  BY <1>2 DEF Queued
<1> QED
  BY <1>1, <1>3 DEF Popped

LEMMA PopMoves ==
    ASSUME TypeOK, OnePublisher, QueueOrdered, NEW w \in Publishers, TryPop(w)
    PROVE  /\ Head(queue) \in Tasks /\ Queued(Head(queue))
           /\ \A i \in DOMAIN queue \ {1} :
                PathOf(queue[i]) \notin StrictPrefixes(PathOf(Head(queue)))
           /\ DOMAIN queue' = 1 .. Len(queue) - 1 /\ DOMAIN queue = 1 .. Len(queue)
           /\ Len(queue) \in Nat
           /\ \A i \in DOMAIN queue' : queue'[i] = queue[i + 1]
           /\ \A u \in Tasks : /\ Queued(u) <=> Queued(u)' \/ u = Head(queue)
                               /\ Queued(u)' => u # Head(queue)
                               /\ ~Popped(u)
                               /\ Popped(u)' <=> u = Head(queue)
<1>1. /\ queue \in Seq(Tasks) /\ queue # <<>> /\ queue' = Tail(queue)
      /\ pc[w] = "pop" /\ pc'[w] = "insert"
      /\ \A v \in Publishers \ {w} : pc'[v] = pc[v] /\ item'[v] = item[v]
      /\ item'[w] = Head(queue)
  BY PlaceType DEF TryPop, TypeOK, Places
<1>2. /\ DOMAIN queue = 1 .. Len(queue) /\ Len(queue) \in Nat /\ 1 \in DOMAIN queue
      /\ DOMAIN queue' = 1 .. Len(queue) - 1
      /\ \A i \in DOMAIN queue' : queue'[i] = queue[i + 1] /\ i + 1 \in DOMAIN queue
      /\ Head(queue) = queue[1] /\ Head(queue) \in Tasks
  BY <1>1
<1>3. \A i \in DOMAIN queue : i # 1 => i - 1 \in DOMAIN queue' /\ (i - 1) + 1 = i
  BY <1>2
<1>4. \A i \in DOMAIN queue \ {1} :
          queue[i] # Head(queue)
          /\ PathOf(queue[i]) \notin StrictPrefixes(PathOf(Head(queue)))
  BY <1>2 DEF QueueOrdered
<1>5. \A v \in Publishers : pc[v] # "insert"
  BY <1>1 DEF OnePublisher, Publishing
<1>6. \A u \in Tasks : Queued(u) <=> Queued(u)' \/ u = Head(queue)
  <2>1. ASSUME NEW u \in Tasks, Queued(u), u # Head(queue) PROVE Queued(u)'
    <3>1. PICK i \in DOMAIN queue : queue[i] = u
      BY <2>1 DEF Queued
    <3>2. i - 1 \in DOMAIN queue' /\ queue'[i - 1] = u
      BY <1>2, <1>3, <2>1, <3>1
    <3> QED
      BY <3>2 DEF Queued
  <2>2. ASSUME NEW u \in Tasks, Queued(u)' PROVE Queued(u)
    BY <1>2, <2>2 DEF Queued
  <2> QED
    BY <1>2, <2>1, <2>2 DEF Queued
<1>7. Queued(Head(queue)) /\ \A u \in Tasks : Queued(u)' => u # Head(queue)
  <2>1. \A i \in DOMAIN queue' : i + 1 # 1
    BY <1>2
  <2> QED
    BY <1>2, <1>4, <2>1 DEF Queued
<1>8. \A u \in Tasks : ~Popped(u) /\ (Popped(u)' <=> u = Head(queue))
  BY <1>1, <1>5 DEF Popped
<1> QED
  BY <1>2, <1>4, <1>6, <1>7, <1>8

LEMMA PublishMoves ==
    ASSUME TypeOK, OnePublisher, NEW w \in Publishers, Publish(w)
    PROVE  /\ item[w] \in Tasks /\ Popped(item[w]) /\ InsertIndex(item[w])
           /\ UNCHANGED <<queue, taskVars, callVars, recorded>>
           /\ \A u \in Tasks : /\ Queued(u)' <=> Queued(u)
                               /\ Popped(u) <=> u = item[w]
                               /\ ~Popped(u)'
<1>1. /\ pc[w] = "insert" /\ pc'[w] = "depend" /\ queue' = queue /\ item' = item
      /\ \A v \in Publishers \ {w} : pc'[v] = pc[v]
      /\ UNCHANGED <<taskVars, callVars, recorded>> /\ InsertIndex(item[w])
  BY PlaceType DEF Publish, publishVars, Places
<1>2. item[w] \in Tasks /\ \A v \in Publishers \ {w} : pc[v] # "insert"
  BY <1>1 DEF OnePublisher, Publishing
<1> QED
  BY <1>1, <1>2 DEF Queued, Popped

LEMMA NothingMoves ==
    ASSUME TypeOK, StartedInOrder, Next, \A t \in Tasks : ~Push(t),
           \A w \in Publishers : ~TryPop(w) /\ ~Publish(w)
    PROVE  /\ queue' = queue
           /\ OnePublisher => \A u \in Tasks : /\ Queued(u)' <=> Queued(u)
                                               /\ Popped(u)' <=> Popped(u)
<1> USE TaskParts DEF Places
<1> SUFFICES /\ queue' = queue
             /\ OnePublisher => \A v \in Publishers :
                    /\ pc'[v] = "insert" <=> pc[v] = "insert"
                    /\ pc[v] = "insert" => item'[v] = item[v]
  BY DEF Queued, Popped
<1>1. ASSUME NEW t \in Tasks, QuietStep(t) \/ Replace(t) \/ Replaced(t)
      PROVE  /\ UNCHANGED <<queue, item>>
             /\ \A v \in Publishers : pc'[v] = "insert" <=> pc[v] = "insert"
  <2>1. CASE CheckCache(t)
    BY <2>1 DEF CheckCache, TypeOK, publishVars
  <2>2. CASE ~CheckCache(t)
    BY <1>1, <2>2, PlaceType DEF QuietStep, Compute, LoadIsPublishing, TakePublishing,
       StopPublishing, Replace, Replaced, publishVars
  <2> QED
    BY <2>1, <2>2
<1>2. ASSUME NEW t \in Tasks, Finish(t)
      PROVE  /\ UNCHANGED <<queue, item>>
             /\ \A v \in Publishers : pc'[v] = "insert" <=> pc[v] = "insert"
  BY <1>2, FinishDoes DEF publishVars
<1>3. ASSUME NEW w \in Publishers, Depend(w) \/ QueueEmpty(w)
      PROVE  /\ queue' = queue
             /\ \A v \in Publishers : /\ pc'[v] = "insert" <=> pc[v] = "insert"
                                      /\ pc[v] = "insert" => item'[v] = item[v]
  <2>1. CASE Depend(w)
    BY <2>1, PlaceType DEF Depend, TypeOK
  <2>2. CASE QueueEmpty(w)
    BY <2>2, PlaceType DEF QueueEmpty, publishVars
  <2> QED
    BY <1>3, <2>1, <2>2
<1>4. ASSUME Wait
      PROVE  /\ UNCHANGED <<queue, item>>
             /\ \A v \in Publishers : pc'[v] = "insert" <=> pc[v] = "insert"
  BY <1>4, PlaceType DEF Wait, publishVars
<1>5. ASSUME NEW roots \in SUBSET Paths, NEW preds \in SUBSET Paths, Begin(roots, preds)
      PROVE  /\ UNCHANGED <<queue, item>>
             /\ OnePublisher =>
                    \A v \in Publishers : pc'[v] = "insert" <=> pc[v] = "insert"
  <2>1. BeginParts(roots, preds)
    BY <1>5, BeginDoes
  <2>2. /\ \A v \in Publishers : pc'[v] # "insert"
        /\ UNCHANGED <<queue, item>> /\ pc[Main] = "none"
    BY <2>1 DEF BeginParts, publishVars
  <2> QED
    BY <2>2 DEF OnePublisher, Running
<1>6. ASSUME NEW p \in Paths, Blow(p) PROVE UNCHANGED <<queue, item, pc>>
  BY <1>6 DEF Blow, RemovePrimCache, RemovePrimAndPropertyCaches, BetweenCalls, publishVars
<1> QED
  BY NextCases, <1>1, <1>2, <1>3, <1>4, <1>5, <1>6 DEF PublisherNext

(* A task that has an index keeps it to the end of the call.               *)
LEMMA IndexStays ==
    ASSUME TypeOK, StartedInOrder, Next,
           \A roots, preds \in SUBSET Paths : ~Begin(roots, preds)
    PROVE  \A u \in Tasks : /\ pc[u] \in AfterPush => pc'[u] \in AfterPush
                            /\ HasIndex(u) => HasIndex(u)'
<1> USE TaskParts DEF Places, AfterPush, HasIndex
<1>1. ASSUME NEW t \in Tasks, QuietStep(t) \/ Replace(t) \/ Replaced(t) \/ Push(t)
      PROVE  /\ pc[t] \in AfterPush => pc'[t] \in AfterPush
             /\ HasIndex(t) => HasIndex(t)'
             /\ \A v \in Publishers \ {t} : pc'[v] = pc[v]
  <2>1. CASE CheckCache(t)
    BY <2>1 DEF CheckCache, TypeOK
  <2>2. CASE ~CheckCache(t)
    BY <1>1, <2>2, PlaceType DEF QuietStep, Compute, LoadIsPublishing, TakePublishing,
       StopPublishing, Replace, Replaced, Push
  <2> QED
    BY <2>1, <2>2
<1>2. ASSUME NEW t \in Tasks, Finish(t)
      PROVE  \A u \in Tasks : /\ pc[u] \in AfterPush => pc'[u] \in AfterPush
                              /\ HasIndex(u) => HasIndex(u)'
  BY <1>2, FinishDoes
<1>3. ASSUME NEW w \in Publishers, PublisherNext(w)
      PROVE  /\ w # Main => pc'[w] \in AfterPush
             /\ \A v \in Publishers \ {w} : pc'[v] = pc[v]
  BY <1>3, PlaceType DEF PublisherNext, TryPop, Publish, Depend, QueueEmpty
<1>4. ASSUME Wait PROVE \A t \in Tasks : pc'[t] = pc[t]
  BY <1>4, PlaceType DEF Wait
<1>5. ASSUME NEW p \in Paths, Blow(p) PROVE pc' = pc
  BY <1>5 DEF Blow, RemovePrimCache, RemovePrimAndPropertyCaches, BetweenCalls
<1> QED
  BY NextCases, <1>1, <1>2, <1>3, <1>4, <1>5

(* A task above another that was started has finished.                     *)
LEMMA AboveFinished ==
    ASSUME StartedInOrder, NEW t \in Tasks, NEW u \in Tasks,
           RootOf(t) \in toCompute, RootOf(t) \in Prefixes[PathOf(t)],
           Active(u), PathOf(t) \in Prefixes[PathOf(u)]
    PROVE  RootOf(t) = RootOf(u) /\ (t = u \/ Finished(t))
<1>1. PathOf(t) \in Paths /\ PathOf(u) \in Paths
  BY TaskParts
<1>2. RootOf(t) \in Prefixes[PathOf(u)] /\ RootOf(u) \in Prefixes[PathOf(u)]
      /\ RootOf(u) \in toCompute /\ Disjoint(toCompute)
  BY <1>1, Tree DEF StartedInOrder
<1>3. RootOf(t) = RootOf(u)
  BY <1>1, <1>2, OneRoot
<1>4. CASE PathOf(t) = PathOf(u)
  BY <1>3, <1>4, TaskParts
<1>5. CASE PathOf(t) \in StrictPrefixes(PathOf(u))
  <2>1. Finished(<<PathOf(t), RootOf(u)>>)
    BY <1>3, <1>5 DEF StartedInOrder
  <2> QED
    BY <1>3, <2>1, TaskParts
<1> QED
  BY <1>3, <1>4, <1>5 DEF StrictPrefixes

LEMMA QueueStep ==
    ASSUME TypeOK, StartedInOrder, OnePublisher, QueueOrdered, NothingThere, Next
    PROVE  QueueOrdered'
<1>1. ASSUME NEW t \in Tasks, Push(t) PROVE QueueOrdered'
  <2>1. /\ queue \in Seq(Tasks) /\ queue' = Append(queue, t) /\ pc[t] = "push"
        /\ checkCache' = checkCache
        /\ \A roots, preds \in SUBSET Paths : ~Begin(roots, preds)
    BY <1>1, TaskParts DEF Push, TypeOK, Goes, taskVars, Begin, OnePublisher, Running
  <2>2. /\ DOMAIN queue = 1 .. Len(queue) /\ Len(queue) \in Nat
        /\ DOMAIN queue' = 1 .. Len(queue) + 1
        /\ \A i \in DOMAIN queue : queue'[i] = queue[i] /\ queue[i] \in Tasks
        /\ queue'[Len(queue) + 1] = t
    BY <2>1
  <2>3. t \notin checkCache /\ pc'[t] \in AfterPush
    BY <1>1, <2>1, PlaceType, TaskParts DEF NothingThere, Push, Places, AfterPush
  <2>4. \A u \in Tasks : pc[u] \in AfterPush => pc'[u] \in AfterPush
    BY <2>1, IndexStays
  <2>5. ASSUME NEW u \in Tasks, OnItsWay(u)
        PROVE  t # u /\ PathOf(t) \notin StrictPrefixes(PathOf(u))
    <3>1. Active(u) /\ t # u /\ ~Finished(t)
      BY <2>1, <2>5 DEF QueueOrdered, AfterPush, Active, Finished
    <3>2. /\ RootOf(t) \in toCompute /\ RootOf(t) \in Prefixes[PathOf(t)]
          /\ PathOf(u) \in Paths
      BY <2>1, TaskParts DEF StartedInOrder, Active
    <3>3. PathOf(t) \in StrictPrefixes(PathOf(u)) => PathOf(t) \in Prefixes[PathOf(u)]
      BY DEF StrictPrefixes
    <3> QED
      BY <3>1, <3>2, <3>3, AboveFinished
  <2>6. \A i \in DOMAIN queue : Queued(queue[i])
    BY <2>2 DEF Queued
  <2>7. \A i, j \in DOMAIN queue' : i < j =>
            queue'[i] # queue'[j]
            /\ PathOf(queue'[j]) \notin StrictPrefixes(PathOf(queue'[i]))
    <3> SUFFICES ASSUME NEW i \in DOMAIN queue', NEW j \in DOMAIN queue', i < j
                 PROVE  /\ queue'[i] # queue'[j]
                        /\ PathOf(queue'[j]) \notin StrictPrefixes(PathOf(queue'[i]))
      OBVIOUS
    <3>1. i \in DOMAIN queue /\ (j \in DOMAIN queue \/ j = Len(queue) + 1)
      BY <2>2
    <3>2. CASE j \in DOMAIN queue
      BY <2>2, <3>1, <3>2 DEF QueueOrdered
    <3>3. CASE j = Len(queue) + 1
      BY <2>2, <2>5, <2>6, <3>1, <3>3 DEF OnItsWay
    <3> QED
      BY <3>1, <3>2, <3>3
  <2>8. \A u \in Tasks : OnItsWay(u)' <=> OnItsWay(u) \/ u = t
    BY <1>1, PushMoves DEF OnItsWay
  <2>9. \A u, v \in Tasks : Popped(u)' /\ Queued(v)' =>
            u # v /\ PathOf(v) \notin StrictPrefixes(PathOf(u))
    BY <1>1, <2>5, PushMoves DEF QueueOrdered, OnItsWay
  <2> QED
    BY <2>1, <2>3, <2>4, <2>7, <2>8, <2>9 DEF QueueOrdered
<1>2. ASSUME NEW w \in Publishers, TryPop(w) PROVE QueueOrdered'
  <2>1. checkCache' = checkCache /\ \A roots, preds \in SUBSET Paths : ~Begin(roots, preds)
    BY <1>2, TaskParts DEF TryPop, Goes, taskVars, Begin, OnePublisher, Running
  <2>2. \A u \in Tasks : pc[u] \in AfterPush => pc'[u] \in AfterPush
    BY <2>1, IndexStays
  <2>3. \A u \in Tasks : OnItsWay(u)' => OnItsWay(u)
    BY <1>2, PopMoves DEF OnItsWay
  <2>4. \A i, j \in DOMAIN queue' : i < j =>
            queue'[i] # queue'[j]
            /\ PathOf(queue'[j]) \notin StrictPrefixes(PathOf(queue'[i]))
    <3> SUFFICES ASSUME NEW i \in DOMAIN queue', NEW j \in DOMAIN queue', i < j
                 PROVE  /\ queue'[i] # queue'[j]
                        /\ PathOf(queue'[j]) \notin StrictPrefixes(PathOf(queue'[i]))
      OBVIOUS
    <3>1. /\ i + 1 \in DOMAIN queue /\ j + 1 \in DOMAIN queue /\ i + 1 < j + 1
          /\ queue'[i] = queue[i + 1] /\ queue'[j] = queue[j + 1]
      BY <1>2, PopMoves
    <3> QED
      BY <3>1 DEF QueueOrdered
  <2>5. \A u, v \in Tasks : Popped(u)' /\ Queued(v)' =>
            u # v /\ PathOf(v) \notin StrictPrefixes(PathOf(u))
    <3> SUFFICES ASSUME NEW v \in Tasks, Queued(v)'
                 PROVE  /\ Head(queue) # v
                        /\ PathOf(v) \notin StrictPrefixes(PathOf(Head(queue)))
      BY <1>2, PopMoves
    <3>1. PICK i \in DOMAIN queue' : queue'[i] = v
      BY DEF Queued
    <3>2. i + 1 \in DOMAIN queue \ {1} /\ queue[i + 1] = v
      BY <1>2, <3>1, PopMoves
    <3> QED
      BY <1>2, <3>2, PopMoves
  <2> QED
    BY <2>1, <2>2, <2>3, <2>4, <2>5 DEF QueueOrdered
<1>3. ASSUME NEW w \in Publishers, Publish(w) PROVE QueueOrdered'
  <2>1. /\ checkCache' = checkCache /\ queue' = queue
        /\ \A roots, preds \in SUBSET Paths : ~Begin(roots, preds)
    BY <1>3, TaskParts
       DEF Publish, Goes, publishVars, taskVars, Begin, OnePublisher, Running
  <2>2. \A u \in Tasks : pc[u] \in AfterPush => pc'[u] \in AfterPush
    BY <2>1, IndexStays
  <2> QED
    BY <1>3, <2>1, <2>2, PublishMoves DEF QueueOrdered, OnItsWay
<1>4. ASSUME \A t \in Tasks : ~Push(t), \A w \in Publishers : ~TryPop(w) /\ ~Publish(w),
             \A roots, preds \in SUBSET Paths : ~Begin(roots, preds)
      PROVE  QueueOrdered'
  <2>1. /\ queue' = queue
        /\ \A u \in Tasks : (Queued(u)' <=> Queued(u)) /\ (Popped(u)' <=> Popped(u))
    BY <1>4, NothingMoves
  <2>2. \A u \in Tasks : pc[u] \in AfterPush => pc'[u] \in AfterPush
    BY <1>4, IndexStays
  <2>3. \A u \in Tasks : u \in checkCache' => u \in checkCache \/ pc[u] = "none"
    <3>1. CASE Ordinary
      BY <3>1, OrdinaryKeeps
    <3>2. ASSUME NEW t \in Tasks, Finish(t)
          PROVE  \A u \in Tasks : u \in checkCache' => u \in checkCache \/ pc[u] = "none"
      BY <3>2, FinishDoes
    <3>3. ASSUME NEW p \in Paths, Blow(p) PROVE checkCache' = checkCache
      BY <3>3 DEF Blow, RemovePrimCache, RemovePrimAndPropertyCaches, BetweenCalls, taskVars
    <3> QED
      BY <1>4, <3>1, <3>2, <3>3, StepKinds
  <2> QED
    BY <2>1, <2>2, <2>3 DEF QueueOrdered, OnItsWay, AfterPush
<1>5. ASSUME NEW roots \in SUBSET Paths, NEW preds \in SUBSET Paths, Begin(roots, preds)
      PROVE  QueueOrdered'
  <2>1. BeginParts(roots, preds)
    BY <1>5, BeginDoes
  <2>2. /\ \A v \in Publishers : pc'[v] # "insert"
        /\ queue' = queue /\ queue = <<>>
    BY <2>1 DEF BeginParts, publishVars, OnePublisher
  <2>3. DOMAIN queue' = {}
    BY <2>2
  <2> QED
    BY <2>2, <2>3 DEF QueueOrdered, OnItsWay, Queued, Popped
<1> QED
  BY <1>1, <1>2, <1>3, <1>4, <1>5

(* What has arrived in the cache has arrived.                              *)
LEMMA ArrivedStays ==
    ASSUME TypeOK, StartedInOrder, OnePublisher, QueueOrdered, Next,
           \A roots, preds \in SUBSET Paths : ~Begin(roots, preds)
    PROVE  \A u \in Tasks : NotArrived(u)' => NotArrived(u)
<1>1. \A u \in Tasks : HasIndex(u) => HasIndex(u)'
  BY IndexStays
<1>2. ASSUME NEW t \in Tasks, Push(t)
      PROVE  \A u \in Tasks : OnItsWay(u)' => OnItsWay(u) \/ ~HasIndex(u)
  <2>1. ~HasIndex(t)
    BY <1>2 DEF Push, Goes, HasIndex, AfterPush
  <2> QED
    BY <1>2, <2>1, PushMoves DEF OnItsWay
<1>3. ASSUME NEW w \in Publishers, TryPop(w)
      PROVE  \A u \in Tasks : OnItsWay(u)' => OnItsWay(u)
  BY <1>3, PopMoves DEF OnItsWay
<1>4. ASSUME NEW w \in Publishers, Publish(w)
      PROVE  \A u \in Tasks : OnItsWay(u)' => OnItsWay(u)
  BY <1>4, PublishMoves DEF OnItsWay
<1>5. ASSUME \A t \in Tasks : ~Push(t), \A w \in Publishers : ~TryPop(w) /\ ~Publish(w)
      PROVE  \A u \in Tasks : OnItsWay(u)' => OnItsWay(u)
  BY <1>5, NothingMoves DEF OnItsWay
<1> QED
  BY <1>1, <1>2, <1>3, <1>4, <1>5 DEF NotArrived

(* The places a running task comes from.                                   *)
LEMMA WhereFrom ==
    ASSUME TypeOK, StartedInOrder, OnePublisher, Next, NEW t \in Tasks,
           pc'[t] \in {"compute", "replace", "push"}
    PROVE  \/ CheckCache(t) /\ pc'[t] = "compute"
           \/ /\ Compute(t)
              /\ pc'[t] = IF t \in checkCache THEN "replace" ELSE "push"
              /\ UNCHANGED <<entry, valid, checkCache>>
           \/ pc'[t] = pc[t] /\ (t \in checkCache' => t \in checkCache)
              /\ (t \notin checkCache' => t \notin checkCache)
<1> USE TaskParts DEF Places
<1>1. ASSUME NEW u \in Tasks, QuietStep(u) \/ Replace(u) \/ Replaced(u) \/ Push(u)
      PROVE  \/ CheckCache(t) /\ pc'[t] = "compute"
             \/ /\ Compute(t)
                /\ pc'[t] = IF t \in checkCache THEN "replace" ELSE "push"
                /\ UNCHANGED <<entry, valid, checkCache>>
             \/ pc'[t] = pc[t] /\ (t \in checkCache' <=> t \in checkCache)
  <2>1. CASE CheckCache(u)
    <3>1. /\ \A v \in Publishers \ {u} : pc'[v] = pc[v]
          /\ pc'[u] \in {"finish", "compute"}
      BY <2>1 DEF CheckCache, TypeOK
    <3>2. u # t => (t \in checkCache' <=> t \in checkCache)
      BY <2>1 DEF CheckCache
    <3> QED
      BY <2>1, <3>1, <3>2
  <2>2. CASE Compute(u)
    BY <2>2, PlaceType DEF Compute, cacheVars
  <2>3. CASE ~CheckCache(u) /\ ~Compute(u)
    BY <1>1, <2>3, PlaceType DEF QuietStep, LoadIsPublishing, TakePublishing,
       StopPublishing, Replace, Replaced, Push, taskVars
  <2> QED
    BY <2>1, <2>2, <2>3
<1>2. ASSUME NEW u \in Tasks, Finish(u)
      PROVE  pc'[t] = pc[t] /\ (t \in checkCache' <=> t \in checkCache)
  BY <1>2, FinishDoes
<1>3. ASSUME NEW w \in Publishers, PublisherNext(w)
      PROVE  pc'[t] = pc[t] /\ checkCache' = checkCache
  BY <1>3, PlaceType DEF PublisherNext, TryPop, Publish, Depend, QueueEmpty, taskVars
<1>4. ASSUME Wait PROVE pc'[t] = pc[t] /\ checkCache' = checkCache
  BY <1>4, PlaceType DEF Wait, taskVars
<1>5. ASSUME NEW roots \in SUBSET Paths, NEW preds \in SUBSET Paths, Begin(roots, preds)
      PROVE  FALSE
  <2>1. BeginParts(roots, preds)
    BY <1>5, BeginDoes
  <2> QED
    BY <2>1 DEF BeginParts
<1>6. ASSUME NEW p \in Paths, Blow(p) PROVE pc' = pc /\ checkCache' = checkCache
  BY <1>6 DEF Blow, RemovePrimCache, RemovePrimAndPropertyCaches, BetweenCalls, taskVars
<1> QED
  BY NextCases, <1>1, <1>2, <1>3, <1>4, <1>5, <1>6

(* Whose entry an insertion makes or makes valid: no task's that has still *)
(* to replace it.                                                          *)
LEMMA InsertsOwn ==
    ASSUME TypeOK, StartedInOrder, OnePublisher, QueueOrdered, Next, NEW t \in Tasks,
           pc'[t] \in {"compute", "replace"}, PathOf(t) \in valid'
    PROVE  PathOf(t) \in valid
<1>1. ASSUME NEW u \in Tasks, Replace(u) \/ \E w \in Publishers : Publish(w) /\ u = item[w],
             PathOf(u) = PathOf(t)
      PROVE  FALSE
  <2>1. Active(u) /\ pc[u] \in AfterPush \cup {"replace"}
    <3>1. CASE Replace(u)
      BY <3>1 DEF Replace, Goes, Active
    <3>2. ASSUME NEW w \in Publishers, Publish(w), u = item[w]
          PROVE  Active(u) /\ pc[u] \in AfterPush
      <4>1. OnItsWay(u)
        BY <3>2, PublishMoves DEF OnItsWay
      <4> QED
        BY <4>1 DEF QueueOrdered, Active, AfterPush
    <3> QED
      BY <1>1, <3>1, <3>2
  <2>2. Running(t) /\ Active(t)
    BY WhereFrom DEF CheckCache, Compute, Goes, Running, Active
  <2>3. PathOf(t) \in Prefixes[PathOf(u)]
    BY <1>1, TaskParts, Tree
  <2>4. t = u
    BY <2>1, <2>2, <2>3, AboveFinished DEF StartedInOrder, Running, Finished
  <2>5. CASE Replace(u)
    BY <2>4, <2>5, PlaceType, TaskParts DEF Replace, Places
  <2>6. ASSUME NEW w \in Publishers, Publish(w), u = item[w] PROVE FALSE
    <3>1. OnItsWay(t) /\ \A roots, preds \in SUBSET Paths : ~Begin(roots, preds)
      BY <2>4, <2>6, PublishMoves, TaskParts
         DEF OnItsWay, Publish, Goes, Begin, OnePublisher, Running
    <3>2. pc'[t] \in AfterPush
      BY <3>1, IndexStays DEF QueueOrdered
    <3> QED
      BY <3>2 DEF AfterPush
  <2> QED
    BY <1>1, <2>5, <2>6
<1>2. CASE UNCHANGED valid
  BY <1>2
<1>3. ASSUME NEW u \in Tasks, Replace(u) PROVE PathOf(t) \in valid
  BY <1>1, <1>3 DEF Replace, InsertIndex
<1>4. ASSUME NEW w \in Publishers, Publish(w) PROVE PathOf(t) \in valid
  <2>1. item[w] \in Tasks /\ valid' = valid \cup {PathOf(item[w])}
    BY <1>4, PublishMoves DEF InsertIndex
  <2> QED
    BY <1>1, <1>4, <2>1
<1>5. ASSUME NEW roots \in SUBSET Paths, NEW preds \in SUBSET Paths, Begin(roots, preds)
      PROVE  FALSE
  <2>1. BeginParts(roots, preds)
    BY <1>5, BeginDoes
  <2> QED
    BY <2>1, TaskParts DEF BeginParts
<1>6. ASSUME NEW p \in Paths, Blow(p) PROVE valid' \subseteq valid
  BY <1>6 DEF Blow, RemovePrimCache, RemovePrimAndPropertyCaches
<1>7. ASSUME NEW u \in Tasks, QuietStep(u) \/ Replaced(u) \/ Push(u) \/ Finish(u)
      PROVE  UNCHANGED valid
  BY <1>7 DEF QuietStep, CheckCache, Compute, LoadIsPublishing, TakePublishing,
     StopPublishing, Replaced, AddDependencies, Push, Finish, cacheVars
<1>8. ASSUME NEW w \in Publishers, TryPop(w) \/ Depend(w) \/ QueueEmpty(w)
      PROVE  UNCHANGED valid
  BY <1>8 DEF TryPop, Depend, QueueEmpty, AddDependencies, cacheVars
<1>9. Wait => UNCHANGED valid
  BY DEF Wait, cacheVars
<1> QED
  BY NextCases, <1>2, <1>3, <1>4, <1>5, <1>6, <1>7, <1>8, <1>9 DEF PublisherNext

(* Whoever skips the cache after a step skipped it before, or found no     *)
(* entry just now, or was started by one that skips it.                    *)
LEMMA SkipsFrom ==
    ASSUME TypeOK, StartedInOrder, Next, NEW s \in Tasks, Skips(s)',
           \A roots, preds \in SUBSET Paths : ~Begin(roots, preds)
    PROVE  \/ Skips(s)
           \/ CheckCache(s) /\ entry[PathOf(s)] = None
           \/ \E u \in Tasks : Finish(u) /\ s \in Started(u) /\ Skips(u)
<1>1. CASE Ordinary
  <2>1. Active(s)
    BY <1>1, OrdinaryKeeps DEF Skips
  <2>2. ASSUME NEW u \in Tasks, CheckCache(u)
        PROVE  checkCache' = IF entry[PathOf(u)] = None THEN checkCache \ {u}
                             ELSE checkCache
    BY <2>2 DEF CheckCache
  <2>3. ASSUME NEW u \in Tasks,
               (QuietStep(u) /\ ~CheckCache(u)) \/ Replace(u) \/ Replaced(u) \/ Push(u)
        PROVE  checkCache' = checkCache
    BY <2>3 DEF QuietStep, Compute, LoadIsPublishing, TakePublishing, StopPublishing,
       Replace, Replaced, Push, taskVars
  <2>4. ASSUME NEW w \in Publishers, PublisherNext(w) PROVE checkCache' = checkCache
    BY <2>4 DEF PublisherNext, TryPop, Publish, Depend, QueueEmpty, taskVars
  <2>5. Wait => checkCache' = checkCache
    BY DEF Wait, taskVars
  <2> QED
    BY <1>1, <2>1, <2>2, <2>3, <2>4, <2>5 DEF Ordinary, Skips
<1>2. ASSUME NEW u \in Tasks, Finish(u)
      PROVE  Skips(s) \/ (s \in Started(u) /\ Skips(u))
  <2>1. Active(s) \/ s \in Started(u)
    BY <1>2, FinishDoes, TaskParts DEF Skips, Active
  <2>2. Active(u)
    BY <1>2, FinishDoes DEF Active
  <2> QED
    BY <1>2, <2>1, <2>2, FinishDoes DEF Skips
<1>3. ASSUME NEW p \in Paths, Blow(p) PROVE Skips(s)
  <2>1. pc' = pc /\ checkCache' = checkCache
    BY <1>3 DEF Blow, RemovePrimCache, RemovePrimAndPropertyCaches, BetweenCalls, taskVars
  <2> QED
    BY <2>1 DEF Skips, Active
<1> QED
  BY <1>1, <1>2, <1>3, StepKinds

(* An insertion makes no entry for a path below one that skips the cache,  *)
(* but that of an output that arrives with it.                             *)
LEMMA ArrivalIsInTurn ==
    ASSUME TypeOK, StartedInOrder, OnePublisher, QueueOrdered, Next,
           NEW s \in Tasks, Skips(s), NEW t \in Tasks, RootOf(t) = RootOf(s),
           PathOf(s) \in Prefixes[PathOf(t)], NotArrived(t)',
           NEW w \in Publishers, Publish(w)
    PROVE  PathOf(t) \notin Prefixes[PathOf(item[w])]
<1> SUFFICES ASSUME PathOf(t) \in Prefixes[PathOf(item[w])] PROVE FALSE
  OBVIOUS
<1>1. PICK u \in Tasks : u = item[w]
  BY PublishMoves
<1>2. /\ Popped(u) /\ ~Popped(t)' /\ Active(u) /\ HasIndex(u)
      /\ Queued(t)' => Queued(t)
      /\ ~Queued(u)
  BY <1>1, PublishMoves DEF QueueOrdered, OnItsWay, Active, AfterPush, HasIndex
<1>3. /\ RootOf(t) \in toCompute /\ RootOf(t) \in Prefixes[PathOf(t)]
      /\ PathOf(t) \in Prefixes[PathOf(u)]
  BY <1>1, TaskParts, Tree DEF StartedInOrder, Skips
<1>4. RootOf(t) = RootOf(u) /\ (t = u \/ Finished(t))
  BY <1>2, <1>3, AboveFinished
<1>5. HasIndex(t)
  BY <1>2, <1>4 DEF Finished, HasIndex, AfterPush
<1>6. \A roots, preds \in SUBSET Paths : ~Begin(roots, preds)
  BY TaskParts DEF Publish, Goes, Begin, OnePublisher, Running
<1>7. HasIndex(t)'
  BY <1>5, <1>6, IndexStays
<1>8. Queued(t)
  BY <1>2, <1>7 DEF NotArrived, OnItsWay
<1>9. t # u /\ PathOf(t) \notin StrictPrefixes(PathOf(u))
  BY <1>2, <1>8
     DEF QueueOrdered
<1>10. PathOf(t) # PathOf(u)
  BY <1>4, <1>9, TaskParts
<1> QED
  BY <1>3, <1>9, <1>10 DEF StrictPrefixes

LEMMA NothingStep ==
    ASSUME TypeOK, CacheClosed, StartedInOrder, OnePublisher, QueueOrdered, NothingThere,
           Next
    PROVE  NothingThere'
<1>1. ASSUME NEW roots \in SUBSET Paths, NEW preds \in SUBSET Paths, Begin(roots, preds)
      PROVE  NothingThere'
  <2>1. BeginParts(roots, preds)
    BY <1>1, BeginDoes
  <2>2. \A s \in Tasks : /\ pc'[s] \in {"check", "none"}
                         /\ pc'[s] = "check" => s \in checkCache'
    BY <2>1, TaskParts DEF BeginParts
  <2> QED
    BY <2>2 DEF NothingThere, Skips, Active
<1>2. ASSUME \A roots, preds \in SUBSET Paths : ~Begin(roots, preds),
             NEW s \in Tasks, NEW t \in Tasks, Skips(s)', RootOf(t) = RootOf(s),
             PathOf(s) \in Prefixes[PathOf(t)], NotArrived(t)'
      PROVE  entry'[PathOf(t)] = None
  <2>0. PathOf(t) \in Paths /\ PathOf(s) \in Paths
    BY TaskParts
  <2>1. NotArrived(t)
    BY <1>2, ArrivedStays
  <2>2. entry[PathOf(t)] = None
    <3>1. CASE Skips(s)
      BY <1>2, <2>1, <3>1 DEF NothingThere
    <3>2. CASE CheckCache(s) /\ entry[PathOf(s)] = None
      BY <1>2, <2>0, <3>2 DEF CacheClosed
    <3>3. ASSUME NEW u \in Tasks, Finish(u), s \in Started(u), Skips(u)
          PROVE  entry[PathOf(t)] = None
      <4>1. /\ RootOf(s) = RootOf(u) /\ PathOf(s) # AbsoluteRoot
            /\ Parent[PathOf(s)] = PathOf(u)
        BY <3>3, FinishDoes
      <4>2. PathOf(u) \in Prefixes[PathOf(s)]
        BY <2>0, <4>1, Tree DEF StrictPrefixes
      <4>3. PathOf(u) \in Prefixes[PathOf(t)]
        BY <1>2, <2>0, <4>2, Tree
      <4> QED
        BY <1>2, <2>1, <3>3, <4>1, <4>3 DEF NothingThere
    <3> QED
      BY <1>2, <3>1, <3>2, <3>3, SkipsFrom
  <2>3. CASE UNCHANGED entry
    BY <2>2, <2>3
  <2>4. ASSUME NEW u \in Tasks, Replace(u) PROVE entry'[PathOf(t)] = None
    <3>1. entry[PathOf(u)] # None /\ InsertIndex(u) /\ PathOf(u) \in Paths
      BY <2>4, TaskParts DEF Replace, Goes, NothingThere
    <3>2. PathOf(t) \notin Prefixes[PathOf(u)]
      BY <2>2, <3>1 DEF CacheClosed
    <3> QED
      BY <2>0, <2>2, <3>1, <3>2, InsertKeepsClosed
  <2>5. ASSUME NEW w \in Publishers, Publish(w) PROVE entry'[PathOf(t)] = None
    <3>1. Skips(s)
      <4>1. Ordinary /\ checkCache' = checkCache
        BY <2>5 DEF Ordinary, PublisherNext, Publish, taskVars
      <4> QED
        BY <1>2, <4>1, OrdinaryKeeps DEF Skips
    <3>2. PathOf(t) \notin Prefixes[PathOf(item[w])]
      BY <1>2, <2>5, <3>1, ArrivalIsInTurn
    <3>3. item[w] \in Tasks /\ InsertIndex(item[w])
      BY <2>5, PublishMoves
    <3> QED
      BY <2>0, <2>2, <3>2, <3>3, InsertKeepsClosed
  <2>6. ASSUME NEW p \in Paths, Blow(p) PROVE entry'[PathOf(t)] = None
    <3>1. CASE RemovePrimCache(p)
      BY <2>2, <3>1 DEF RemovePrimCache
    <3>2. CASE RemovePrimAndPropertyCaches(p)
      BY <2>0, <2>2, <3>2 DEF RemovePrimAndPropertyCaches
    <3> QED
      BY <2>6, <3>1, <3>2 DEF Blow
  <2>7. ASSUME NEW u \in Tasks, QuietStep(u) \/ Replaced(u) \/ Push(u) \/ Finish(u)
        PROVE  UNCHANGED entry
    BY <2>7 DEF QuietStep, CheckCache, Compute, LoadIsPublishing, TakePublishing,
       StopPublishing, Replaced, AddDependencies, Push, Finish, cacheVars
  <2>8. ASSUME NEW w \in Publishers, TryPop(w) \/ Depend(w) \/ QueueEmpty(w)
        PROVE  UNCHANGED entry
    BY <2>8 DEF TryPop, Depend, QueueEmpty, AddDependencies, cacheVars
  <2>9. Wait => UNCHANGED entry
    BY DEF Wait, cacheVars
  <2> QED
    BY <1>2, NextCases, <2>3, <2>4, <2>5, <2>6, <2>7, <2>8, <2>9 DEF PublisherNext
<1>3. ASSUME NEW t \in Tasks
      PROVE  /\ pc'[t] = "push" => t \notin checkCache'
             /\ pc'[t] = "replace" => t \in checkCache'
  BY WhereFrom DEF NothingThere
<1>4. ASSUME NEW t \in Tasks, pc'[t] \in {"compute", "replace"}, t \in checkCache'
      PROVE  entry'[PathOf(t)] # None /\ PathOf(t) \notin valid'
  <2>0. PathOf(t) \in Paths
    BY TaskParts
  <2>1. entry[PathOf(t)] # None /\ PathOf(t) \notin valid
    <3>1. CASE CheckCache(t) /\ pc'[t] = "compute"
      BY <1>4, <3>1, TaskParts DEF CheckCache, TypeOK
    <3>2. CASE Compute(t) /\ UNCHANGED <<entry, valid, checkCache>>
      BY <1>4, <3>2 DEF Compute, Goes, NothingThere
    <3>3. CASE pc'[t] = pc[t] /\ t \in checkCache
      BY <1>4, <3>3 DEF NothingThere
    <3> QED
      BY <1>4, <3>1, <3>2, <3>3, WhereFrom
  <2>2. PathOf(t) \notin valid'
    BY <1>4, <2>1, InsertsOwn
  <2>3. entry'[PathOf(t)] # None
    <3>1. ASSUME NEW u \in Tasks, InsertIndex(u) PROVE entry'[PathOf(t)] # None
      BY <2>0, <2>1, <3>1, InsertKeepsClosed
    <3>2. ASSUME NEW roots \in SUBSET Paths, NEW preds \in SUBSET Paths,
                 Begin(roots, preds)
          PROVE  FALSE
      <4>1. BeginParts(roots, preds)
        BY <3>2, BeginDoes
      <4> QED
        BY <1>4, <4>1, TaskParts DEF BeginParts
    <3>3. ASSUME NEW p \in Paths, Blow(p) PROVE FALSE
      BY <1>4, <3>3 DEF Blow, RemovePrimCache, RemovePrimAndPropertyCaches, BetweenCalls,
         OnePublisher, Running
    <3> QED
      BY <2>1, <3>1, <3>2, <3>3, CacheMoves
  <2> QED
    BY <2>2, <2>3
<1> QED
  BY <1>1, <1>2, <1>3, <1>4 DEF NothingThere

(* How tasks come by their index.                                          *)
LEMMA IndexMoves ==
    ASSUME TypeOK, StartedInOrder, Ordinary \/ \E u \in Tasks : Finish(u), NEW t \in Tasks
    PROVE  /\ \/ /\ CheckCache(t) /\ pc'[t] = "finish"
                 /\ index'[t] = entry[PathOf(t)] /\ PathOf(t) \in valid
              \/ Compute(t) /\ index'[t] = NodeOf(t) /\ pc'[t] \in {"replace", "push"}
              \/ Replace(t) /\ index'[t] = entry'[PathOf(t)] /\ pc'[t] = "replaced"
              \/ index'[t] = index[t]
           /\ HasIndex(t)' => \/ HasIndex(t) \/ Push(t) \/ Replace(t)
                              \/ /\ CheckCache(t) /\ PathOf(t) \in valid
                                 /\ index'[t] = entry[PathOf(t)]
           /\ HasIndex(t) => index'[t] = index[t]
<1> USE TaskParts DEF Places, HasIndex, AfterPush
<1>0. index \in [Tasks -> Nodes \cup {None}] /\ pc \in [Publishers -> Places]
  BY DEF TypeOK
<1>1. ASSUME NEW u \in Tasks, CheckCache(u)
      PROVE  /\ u # t => index'[t] = index[t] /\ pc'[t] = pc[t]
             /\ \/ /\ pc'[u] = "finish" /\ index'[u] = entry[PathOf(u)]
                   /\ PathOf(u) \in valid
                \/ pc'[u] = "compute" /\ index' = index
             /\ pc[u] = "check"
  BY <1>0, <1>1 DEF CheckCache
<1>2. ASSUME NEW u \in Tasks, Compute(u)
      PROVE  /\ u # t => index'[t] = index[t] /\ pc'[t] = pc[t]
             /\ index'[u] = NodeOf(u) /\ pc'[u] \in {"replace", "push"}
             /\ pc[u] = "compute"
  BY <1>0, <1>2, PlaceType DEF Compute
<1>3. ASSUME NEW u \in Tasks, Replace(u)
      PROVE  /\ u # t => index'[t] = index[t] /\ pc'[t] = pc[t]
             /\ index'[u] = entry'[PathOf(u)] /\ pc'[u] = "replaced"
             /\ pc[u] = "replace"
  BY <1>0, <1>3, PlaceType DEF Replace
<1>4. ASSUME NEW u \in Tasks, Push(u) \/ Replaced(u) \/ LoadIsPublishing(u)
                                \/ TakePublishing(u) \/ StopPublishing(u)
      PROVE  /\ index' = index /\ (u # t => pc'[t] = pc[t])
             /\ HasIndex(t)' => HasIndex(t) \/ Push(t)
  BY <1>4, PlaceType DEF Push, Replaced, LoadIsPublishing, TakePublishing,
     StopPublishing, taskVars
<1>5. ASSUME NEW w \in Publishers, PublisherNext(w)
      PROVE  index' = index /\ (HasIndex(t)' => HasIndex(t))
  BY <1>5, PlaceType DEF PublisherNext, TryPop, Publish, Depend, QueueEmpty, taskVars
<1>6. ASSUME Wait PROVE index' = index /\ pc'[t] = pc[t]
  BY <1>6, PlaceType DEF Wait, taskVars
<1>7. ASSUME NEW u \in Tasks, Finish(u)
      PROVE  index' = index /\ (HasIndex(t)' => HasIndex(t))
  BY <1>7, FinishDoes
<1> QED
  BY <1>1, <1>2, <1>3, <1>4, <1>5, <1>6, <1>7 DEF Ordinary, QuietStep

(* An entry that is there stays during a call, and so does its validity.   *)
LEMMA EntryStays ==
    ASSUME TypeOK, CacheClosed, OnePublisher, Next,
           \A roots, preds \in SUBSET Paths : ~Begin(roots, preds),
           \A p \in Paths : ~Blow(p)
    PROVE  /\ valid \subseteq valid'
           /\ \A p \in Paths : entry[p] # None => entry'[p] = entry[p]
<1>1. ASSUME NEW t \in Tasks, InsertIndex(t)
      PROVE  /\ valid \subseteq valid'
             /\ \A p \in Paths : entry[p] # None => entry'[p] = entry[p]
  BY <1>1, InsertKeepsClosed
<1> QED
  BY <1>1, CacheMoves

(* While anything of a call goes on, its indexes are up to date.           *)
LEMMA CallGoesOn ==
    ASSUME TypeOK, OnePublisher, Ordinary \/ \E u \in Tasks : Finish(u)
    PROVE  /\ UpToDate
           /\ \A roots, preds \in SUBSET Paths : ~Begin(roots, preds)
           /\ \A p \in Paths : ~Blow(p)
<1> USE TaskParts
<1>1. ASSUME NEW t \in Tasks,
             QuietStep(t) \/ Replace(t) \/ Replaced(t) \/ Push(t) \/ Finish(t)
      PROVE  Running(t)
  BY <1>1 DEF QuietStep, CheckCache, Compute, LoadIsPublishing, TakePublishing,
     StopPublishing, Replace, Replaced, Push, Finish, StartChildren, Goes, Running
<1>2. ASSUME NEW w \in Publishers, PublisherNext(w) PROVE pc[w] \notin {"none", "done"}
  BY <1>2 DEF PublisherNext, TryPop, Publish, Depend, QueueEmpty, Goes
<1>3. Wait => pc[Main] = "wait"
  BY DEF Wait, Goes
<1>4. pc[Main] # "none"
  BY <1>1, <1>2, <1>3 DEF Ordinary, OnePublisher, Running
<1> QED
  BY <1>4 DEF UpToDate, Begin, Blow, RemovePrimCache, RemovePrimAndPropertyCaches,
     BetweenCalls

LEMMA IndexStep ==
    ASSUME IndexerInv, Next
    PROVE  IndexesCurrent'
<1> USE TaskParts
<1>0. /\ TypeOK /\ CacheClosed /\ StartedInOrder /\ OnePublisher /\ QueueOrdered
      /\ NothingThere /\ IndexesCurrent
  BY DEF IndexerInv
<1>1. ASSUME NEW roots \in SUBSET Paths, NEW preds \in SUBSET Paths, Begin(roots, preds)
      PROVE  IndexesCurrent'
  <2>1. BeginParts(roots, preds)
    BY <1>1, BeginDoes
  <2>2. \A r \in toCompute' : StrictPrefixes(r) \subseteq valid'
    BY <2>1 DEF BeginParts, ComputedFirst
  <2>3. \A t \in Tasks : /\ pc'[t] \in {"check", "none"}
                         /\ ~OnItsWay(t)'
    <3>1. /\ \A v \in Publishers : pc'[v] # "insert"
          /\ queue' = <<>> /\ \A t \in Tasks : pc'[t] \in {"check", "none"}
      BY <1>0, <2>1 DEF BeginParts, publishVars, OnePublisher
    <3>2. DOMAIN queue' = {}
      BY <3>1
    <3> QED
      BY <3>1, <3>2 DEF OnItsWay, Queued, Popped
  <2>4. \A t \in Tasks : pc'[t] = "check" /\ PathOf(t) # AbsoluteRoot =>
             PathOf(t) = RootOf(t) /\ parentIndex'[t] = entry'[Parent[PathOf(t)]]
    BY <2>1 DEF BeginParts, RootTasks
  <2> QED
    BY <2>2, <2>3, <2>4 DEF IndexesCurrent, HasIndex, AfterPush
<1>2. ASSUME NEW p \in Paths, Blow(p) PROVE IndexesCurrent'
  <2>1. pc'[Main] = "none" /\ changed' # {}
    BY <1>2 DEF Blow, RemovePrimCache, RemovePrimAndPropertyCaches, BetweenCalls
  <2> QED
    BY <2>1 DEF IndexesCurrent, UpToDate
<1>3. ASSUME Ordinary \/ \E u \in Tasks : Finish(u) PROVE IndexesCurrent'
  <2>1. /\ UpToDate
        /\ \A roots, preds \in SUBSET Paths : ~Begin(roots, preds)
        /\ \A p \in Paths : ~Blow(p)
    BY <1>0, <1>3, CallGoesOn
  <2>2. toCompute' = toCompute /\ call' = call
    BY <1>0, <1>3, OrdinaryKeeps, FinishDoes DEF callVars
  <2>3. /\ valid \subseteq valid'
        /\ \A p \in Paths : entry[p] # None => entry'[p] = entry[p]
        /\ \A p \in valid : entry[p] # None
    BY <1>0, <2>1, EntryStays DEF CacheClosed
  <2>4. \A r \in toCompute : StrictPrefixes(r) \subseteq valid'
    BY <1>0, <2>1, <2>3 DEF IndexesCurrent
  <2>5. ASSUME NEW t \in Tasks, pc'[t] \in {"replace", "push"} \/ OnItsWay(t)'
        PROVE  index'[t] = NodeOf(t)
    <3>1. CASE pc'[t] \in {"replace", "push"}
      <4>1. Compute(t) \/ (pc'[t] = pc[t])
        BY <1>0, <3>1, WhereFrom
      <4>2. CASE Compute(t)
        BY <1>0, <4>2 DEF Compute, TypeOK
      <4>3. CASE pc'[t] = pc[t]
        <5>1. index'[t] = index[t]
          BY <1>0, <1>3, <3>1, <4>3, IndexMoves DEF CheckCache, Compute, Goes
        <5> QED
          BY <1>0, <2>1, <3>1, <4>3, <5>1 DEF IndexesCurrent
      <4> QED
        BY <4>1, <4>2, <4>3
    <3>2. CASE OnItsWay(t)'
      <4>1. OnItsWay(t) \/ Push(t)
        <5>1. ASSUME NEW u \in Tasks, Push(u) PROVE OnItsWay(t) \/ t = u
          BY <1>0, <3>2, <5>1, PushMoves DEF OnItsWay
        <5>2. ASSUME NEW w \in Publishers, TryPop(w) PROVE OnItsWay(t)
          BY <1>0, <3>2, <5>2, PopMoves DEF OnItsWay
        <5>3. ASSUME NEW w \in Publishers, Publish(w) PROVE OnItsWay(t)
          BY <1>0, <3>2, <5>3, PublishMoves DEF OnItsWay
        <5>4. ASSUME \A u \in Tasks : ~Push(u),
                     \A w \in Publishers : ~TryPop(w) /\ ~Publish(w)
              PROVE  OnItsWay(t)
          BY <1>0, <3>2, <5>4, NothingMoves DEF OnItsWay
        <5> QED
          BY <5>1, <5>2, <5>3, <5>4
      <4>2. CASE OnItsWay(t)
        <5>1. HasIndex(t)
          BY <1>0, <4>2 DEF QueueOrdered, HasIndex
        <5> QED
          BY <1>0, <1>3, <2>1, <4>2, <5>1, IndexMoves DEF IndexesCurrent
      <4>3. CASE Push(t)
        BY <1>0, <2>1, <4>3 DEF Push, Goes, taskVars, IndexesCurrent
      <4> QED
        BY <4>1, <4>2, <4>3
    <3> QED
      BY <2>5, <3>1, <3>2
  <2>6. ASSUME NEW t \in Tasks, HasIndex(t)', ~OnItsWay(t)'
        PROVE  index'[t] = entry'[PathOf(t)] /\ PathOf(t) \in valid'
    <3>0. PathOf(t) \in Paths
      OBVIOUS
    <3>1. CASE HasIndex(t) /\ ~OnItsWay(t)
      <4>1. index'[t] = index[t]
        BY <1>0, <1>3, <3>1, IndexMoves
      <4> QED
        BY <1>0, <2>1, <2>3, <3>0, <3>1, <4>1 DEF IndexesCurrent
    <3>2. CASE HasIndex(t) /\ OnItsWay(t)
      <4>1. PICK w \in Publishers : Publish(w) /\ t = item[w]
        <5>1. ASSUME NEW u \in Tasks, Push(u) PROVE FALSE
          BY <1>0, <2>6, <3>2, <5>1, PushMoves DEF OnItsWay
        <5>2. ASSUME NEW w \in Publishers, TryPop(w) PROVE FALSE
          BY <1>0, <2>6, <3>2, <5>2, PopMoves DEF OnItsWay
        <5>3. ASSUME \A w \in Publishers : ~TryPop(w) /\ ~Publish(w),
                     \A u \in Tasks : ~Push(u)
              PROVE  FALSE
          BY <1>0, <2>6, <3>2, <5>3, NothingMoves DEF OnItsWay
        <5>4. ASSUME NEW w \in Publishers, Publish(w) PROVE t = item[w]
          BY <1>0, <2>6, <3>2, <5>4, PublishMoves DEF OnItsWay
        <5> QED
          BY <5>1, <5>2, <5>3, <5>4
      <4>2. InsertIndex(t)
        BY <4>1 DEF Publish
      <4>3. index'[t] = NodeOf(t)
        BY <1>0, <1>3, <2>1, <3>2, IndexMoves DEF IndexesCurrent
      <4>4. Skips(t)
        BY <1>0, <3>2 DEF QueueOrdered, Skips, Active, AfterPush
      <4>5. entry[PathOf(t)] = None
        <5>1. PathOf(t) \in Prefixes[PathOf(t)] /\ NotArrived(t)
          BY <3>0, <3>2, Tree DEF NotArrived
        <5> QED
          BY <1>0, <4>4, <5>1 DEF NothingThere
      <4> QED
        BY <1>0, <3>0, <4>2, <4>3, <4>5, InsertKeepsClosed
    <3>3. CASE ~HasIndex(t)
      <4>1. CASE Push(t)
        BY <1>0, <2>6, <4>1, PushMoves DEF OnItsWay
      <4>2. CASE Replace(t)
        <5>1. valid' = valid \cup {PathOf(t)}
          BY <4>2 DEF Replace, InsertIndex
        <5>2. index'[t] = entry'[PathOf(t)]
          BY <1>0, <4>2 DEF Replace, TypeOK
        <5> QED
          BY <5>1, <5>2
      <4>3. CASE PathOf(t) \in valid /\ index'[t] = entry[PathOf(t)]
        BY <2>3, <3>0, <4>3
      <4> QED
        BY <1>0, <1>3, <2>6, <3>3, <4>1, <4>2, <4>3, IndexMoves
    <3> QED
      BY <3>1, <3>2, <3>3
  <2>7. ASSUME NEW t \in Tasks, pc'[t] \in {"check", "compute"}, PathOf(t) # AbsoluteRoot
        PROVE  IF PathOf(t) = RootOf(t)
               THEN parentIndex'[t] = entry'[Parent[PathOf(t)]]
               ELSE parentIndex'[t] = index'[<<Parent[PathOf(t)], RootOf(t)>>]
    <3> DEFINE parent == Parent[PathOf(t)]
    <3>0. /\ PathOf(t) \in Paths /\ parent \in StrictPrefixes(PathOf(t))
          /\ parent \in Paths /\ <<parent, RootOf(t)>> \in Tasks
      BY <2>7, Tree DEF StrictPrefixes
    <3> HIDE DEF parent
    <3>1. CASE pc[t] \in {"check", "compute"} /\ parentIndex'[t] = parentIndex[t]
      <4>1. Active(t) /\ RootOf(t) \in toCompute
        BY <1>0, <3>1 DEF Active, StartedInOrder
      <4>2. CASE PathOf(t) = RootOf(t)
        <5>1. parent \in valid /\ parentIndex[t] = entry[parent]
          BY <1>0, <2>1, <2>7, <3>0, <3>1, <4>1, <4>2 DEF IndexesCurrent, parent
        <5> QED
          BY <2>3, <3>0, <3>1, <4>2, <5>1 DEF parent
      <4>3. CASE PathOf(t) # RootOf(t)
        <5>1. parentIndex[t] = index[<<parent, RootOf(t)>>]
          BY <1>0, <2>1, <2>7, <3>1, <4>3 DEF IndexesCurrent, parent
        <5>2. RootOf(t) \in Prefixes[parent]
          BY <1>0, <2>7, <3>0, <4>1, <4>3, Tree DEF StartedInOrder, parent
        <5>3. Finished(<<parent, RootOf(t)>>)
          BY <1>0, <3>0, <4>1, <5>2 DEF StartedInOrder
        <5>4. index'[<<parent, RootOf(t)>>] = index[<<parent, RootOf(t)>>]
          BY <1>0, <1>3, <3>0, <5>3, IndexMoves DEF Finished, HasIndex, AfterPush
        <5> QED
          BY <3>1, <4>3, <5>1, <5>4 DEF parent
      <4> QED
        BY <4>2, <4>3
    <3>2. ASSUME NEW u \in Tasks, Finish(u), t \in Started(u)
          PROVE  PathOf(t) # RootOf(t) /\ parentIndex'[t] = index'[<<parent, RootOf(t)>>]
      <4>1. /\ RootOf(t) = RootOf(u) /\ parent = PathOf(u)
            /\ parentIndex'[t] = index[u] /\ index' = index /\ pc[u] = "finish"
        BY <1>0, <3>2, FinishDoes DEF parent
      <4>2. u = <<parent, RootOf(t)>> /\ RootOf(u) \in Prefixes[PathOf(u)]
        BY <1>0, <4>1 DEF StartedInOrder, Active
      <4>3. PathOf(t) \notin Prefixes[PathOf(u)]
        BY <3>0, <4>1, Tree DEF StrictPrefixes
      <4> QED
        BY <4>1, <4>2, <4>3
    <3>3. CASE Ordinary
      <4>1. parentIndex' = parentIndex
        BY <1>0, <3>3, OrdinaryKeeps
      <4>2. pc[t] \in {"check", "compute"}
        <5>1. CASE pc'[t] = "compute"
          BY <1>0, <5>1, WhereFrom DEF CheckCache, Compute, Goes
        <5>2. CASE pc'[t] = "check"
          <6>1. ASSUME NEW u \in Tasks,
                       QuietStep(u) \/ Replace(u) \/ Replaced(u) \/ Push(u)
                PROVE  pc[t] = "check"
            <7>1. CASE CheckCache(u)
              BY <1>0, <5>2, <7>1 DEF CheckCache, TypeOK
            <7>2. CASE ~CheckCache(u)
              BY <1>0, <5>2, <6>1, <7>2, PlaceType DEF QuietStep, Compute,
                 LoadIsPublishing, TakePublishing, StopPublishing, Replace, Replaced,
                 Push, Places
            <7> QED
              BY <7>1, <7>2
          <6>2. ASSUME NEW w \in Publishers, PublisherNext(w) PROVE pc[t] = "check"
            BY <1>0, <5>2, <6>2, PlaceType DEF PublisherNext, TryPop, Publish, Depend,
               QueueEmpty, Places
          <6>3. Wait => pc[t] = "check"
            BY <1>0, <5>2, PlaceType DEF Wait, Places
          <6> QED
            BY <3>3, <6>1, <6>2, <6>3 DEF Ordinary
        <5> QED
          BY <2>7, <5>1, <5>2
      <4> QED
        BY <3>1, <4>1, <4>2
    <3>4. ASSUME NEW u \in Tasks, Finish(u), t \notin Started(u)
          PROVE  pc[t] \in {"check", "compute"} /\ parentIndex'[t] = parentIndex[t]
      BY <1>0, <2>7, <3>4, FinishDoes
    <3> QED
      BY <1>3, <3>1, <3>2, <3>3, <3>4 DEF parent
  <2>8. \A t \in Tasks : NodeOf(t)' = NodeOf(t)
    BY <2>2 DEF NodeOf
  <2> QED
    BY <2>2, <2>4, <2>5, <2>6, <2>7, <2>8 DEF IndexesCurrent
<1> QED
  BY <1>1, <1>2, <1>3, StepKinds

LEMMA RecordStep == ASSUME IndexerInv, Next PROVE RecordRight'
<1>0. TypeOK /\ StartedInOrder /\ RecordRight
  BY DEF IndexerInv
<1>1. ASSUME Ordinary PROVE RecordRight'
  BY <1>0, <1>1, OrdinaryKeeps DEF RecordRight
<1>2. ASSUME NEW t \in Tasks, Finish(t) PROVE RecordRight'
  <2>1. \A u \in Tasks : Finished(u)' => Finished(u) \/ u = t
    BY <1>0, <1>2, FinishDoes, TaskParts DEF Finished
  <2> QED
    BY <1>0, <1>2, <2>1, FinishDoes DEF RecordRight
<1>3. ASSUME NEW roots \in SUBSET Paths, NEW preds \in SUBSET Paths, Begin(roots, preds)
      PROVE  RecordRight'
  <2>1. BeginParts(roots, preds)
    BY <1>3, BeginDoes
  <2>2. recorded' = {} /\ \A t \in Tasks : pc'[t] # "done"
    BY <2>1, TaskParts DEF BeginParts
  <2> QED
    BY <2>2 DEF RecordRight, Finished
<1>4. ASSUME NEW p \in Paths, Blow(p) PROVE RecordRight'
  <2>1. recorded' = recorded /\ pc' = pc
    BY <1>4 DEF Blow, RemovePrimCache, RemovePrimAndPropertyCaches, BetweenCalls
  <2> QED
    BY <1>0, <2>1 DEF RecordRight, Finished
<1> QED
  BY <1>1, <1>2, <1>3, <1>4, StepKinds

LEMMA AllStartedStep == ASSUME IndexerInv, Next PROVE AllStarted'
<1>0. TypeOK /\ StartedInOrder /\ OnePublisher /\ AllStarted
  BY DEF IndexerInv
<1>1. ASSUME Ordinary PROVE AllStarted'
  <2>1. toCompute' = toCompute /\ expand' = expand /\ UpToDate
    BY <1>0, <1>1, OrdinaryKeeps, CallGoesOn DEF callVars
  <2>2. \A r \in toCompute : \A p \in Subtree(r) :
            /\ <<p, r>> \in Tasks
            /\ \A q \in StrictPrefixes(p) : <<q, r>> \in Tasks
    BY <1>0, TaskParts, Tree DEF Subtree, StrictPrefixes, TypeOK
  <2>3. \A t \in Tasks : (Active(t)' <=> Active(t)) /\ (Running(t)' <=> Running(t))
    BY <1>0, <1>1, OrdinaryKeeps
  <2> QED
    BY <1>0, <2>1, <2>2, <2>3 DEF AllStarted
<1>2. ASSUME NEW t \in Tasks, Finish(t) PROVE AllStarted'
  <2>1. toCompute' = toCompute /\ expand' = expand /\ UpToDate
    BY <1>0, <1>2, FinishDoes, CallGoesOn DEF callVars
  <2>2. /\ \A u \in Tasks : Active(u) => Active(u)'
        /\ \A u \in Tasks \ {t} : Running(u) => Running(u)'
        /\ \A c \in Started(t) : Running(c)' /\ Active(c)'
    BY <1>0, <1>2, FinishDoes, TaskParts DEF Active, Running
  <2>3. ASSUME NEW r \in toCompute, NEW p \in Subtree(r), ~Active(<<p, r>>)'
        PROVE  \E q \in StrictPrefixes(p) :
                  r \in Prefixes[q] /\ (q \notin expand \/ Running(<<q, r>>)')
    <3>0. p \in Paths /\ r \in Paths /\ r \in Prefixes[p]
      BY <1>0 DEF Subtree, TypeOK
    <3>1. PICK q \in StrictPrefixes(p) :
             r \in Prefixes[q] /\ (q \notin expand \/ Running(<<q, r>>))
      BY <1>0, <2>1, <2>2, <2>3, <3>0, TaskParts DEF AllStarted
    <3>2. q \in Paths /\ <<q, r>> \in Tasks
      BY <3>0, Tree, TaskParts DEF StrictPrefixes
    <3>3. CASE q \notin expand \/ <<q, r>> # t
      BY <2>2, <3>1, <3>2, <3>3
    <3>4. CASE q \in expand /\ <<q, r>> = t
      <4>1. PICK c \in Prefixes[p] \ {AbsoluteRoot} : Parent[c] = q
        BY <3>0, <3>1, Tree DEF StrictPrefixes
      <4>2. c \in Paths /\ q \in Prefixes[c] /\ r \in Prefixes[c]
        BY <3>0, <3>1, <4>1, Tree DEF StrictPrefixes
      <4>3. <<c, r>> \in Started(t)
        BY <3>0, <3>2, <3>4, <4>1, <4>2, TaskParts, ChildParts DEF Started
      <4>4. c # p
        BY <2>2, <2>3, <4>3
      <4> QED
        BY <2>2, <4>1, <4>2, <4>3, <4>4 DEF StrictPrefixes
    <3> QED
      BY <3>3, <3>4
  <2> QED
    BY <2>1, <2>3 DEF AllStarted
<1>3. ASSUME NEW roots \in SUBSET Paths, NEW preds \in SUBSET Paths, Begin(roots, preds)
      PROVE  AllStarted'
  <2>1. BeginParts(roots, preds)
    BY <1>3, BeginDoes
  <2>2. \A r \in roots : <<r, r>> \in Tasks /\ pc'[<<r, r>>] = "check"
    BY <2>1, TaskParts DEF BeginParts, RootTasks
  <2>3. \A r \in roots : Active(<<r, r>>)' /\ Running(<<r, r>>)'
    BY <2>2 DEF Active, Running
  <2>4. \A r \in roots : r \in Prefixes[r]
    BY Tree
  <2>5. \A r \in roots : \A p \in Subtree(r) : p = r \/ r \in StrictPrefixes(p)
    BY DEF Subtree, StrictPrefixes
  <2> QED
    BY <2>1, <2>3, <2>4, <2>5 DEF AllStarted, BeginParts
<1>4. ASSUME NEW p \in Paths, Blow(p) PROVE AllStarted'
  <2>1. pc'[Main] = "none" /\ changed' # {}
    BY <1>4 DEF Blow, RemovePrimCache, RemovePrimAndPropertyCaches, BetweenCalls
  <2> QED
    BY <2>1 DEF AllStarted, UpToDate
<1> QED
  BY <1>1, <1>2, <1>3, <1>4, StepKinds

LEMMA StutterKeeps == ASSUME IndexerInv, UNCHANGED vars PROVE IndexerInv'
<1> USE DEF vars, cacheVars, publishVars, taskVars, callVars
<1>1. TypeOK' /\ CacheClosed' /\ OnePublisher' /\ RecordRight'
  BY DEF IndexerInv, TypeOK, CacheClosed, OnePublisher, Publishing, Running, RecordRight,
     Finished
<1>2. StartedInOrder'
  BY DEF IndexerInv, StartedInOrder, Disjoint, Active, Finished
<1>3. \A t \in Tasks : (Queued(t)' <=> Queued(t)) /\ (Popped(t)' <=> Popped(t))
  BY DEF Queued, Popped
<1>4. QueueOrdered' /\ NothingThere'
  BY <1>3 DEF IndexerInv, QueueOrdered, NothingThere, OnItsWay, Skips, Active, NotArrived,
     HasIndex
<1>5. IndexesCurrent' /\ AllStarted'
  BY <1>3 DEF IndexerInv, IndexesCurrent, AllStarted, UpToDate, OnItsWay, HasIndex, NodeOf,
     Active, Running
<1> QED
  BY <1>1, <1>2, <1>4, <1>5 DEF IndexerInv

-----------------------------------------------------------------------------
(* The theorems, for calls whose roots are not below each other.           *)

(* IndexerInv holds in every reachable state.                              *)
THEOREM IndexerInvariant ==
    ASSUME ~Overlapping
    PROVE  Spec => []IndexerInv
<1>1. Init => IndexerInv
  BY InitHolds
<1>2. IndexerInv /\ [Next]_vars => IndexerInv'
  <2>1. ASSUME IndexerInv, Next PROVE IndexerInv'
    <3>1. IndexesCurrent' /\ RecordRight' /\ AllStarted'
      BY <2>1, IndexStep, RecordStep, AllStartedStep
    <3> QED
      BY <2>1, <3>1, TypeStep, CacheStep, StartedStep, PublisherStep, QueueStep,
         NothingStep DEF IndexerInv
  <2> QED
    BY <2>1, StutterKeeps
<1> QED
  BY <1>1, <1>2, PTL DEF Spec

(* An output finds no entry in its place, not even one that its            *)
(* descendants made by coming first; what is replaced is invalid.          *)
THEOREM IndexerNothingReplaced ==
    ASSUME ~Overlapping
    PROVE  Spec => []NothingReplaced
<1>1. ASSUME IndexerInv PROVE NothingReplaced
  <2>1. ASSUME NEW w \in Publishers, pc[w] = "insert"
        PROVE  entry[PathOf(item[w])] = None
    <3>1. PICK t \in Tasks : t = item[w]
      BY <1>1, <2>1 DEF IndexerInv, OnePublisher
    <3>2. OnItsWay(t)
      BY <2>1, <3>1 DEF OnItsWay, Popped
    <3>3. Skips(t) /\ NotArrived(t)
      BY <1>1, <3>2 DEF IndexerInv, QueueOrdered, Skips, Active, AfterPush, NotArrived
    <3>4. PathOf(t) \in Prefixes[PathOf(t)]
      BY TaskParts, Tree
    <3> QED
      BY <1>1, <3>1, <3>3, <3>4 DEF IndexerInv, NothingThere
  <2>2. \A t \in Tasks : pc[t] = "replace" =>
            entry[PathOf(t)] # None /\ PathOf(t) \notin valid
    BY <1>1 DEF IndexerInv, NothingThere
  <2> QED
    BY <2>1, <2>2 DEF NothingReplaced
<1> QED
  BY <1>1, IndexerInvariant, PTL

(* The index that a task reads as its parent's has not been freed.         *)
THEOREM IndexerParentsInUseAreLive ==
    ASSUME ~Overlapping
    PROVE  Spec => []ParentsInUseAreLive
<1>1. ASSUME IndexerInv PROVE ParentsInUseAreLive
  <2> SUFFICES ASSUME NEW t \in Tasks, pc[t] \in {"check", "compute"},
                      PathOf(t) # AbsoluteRoot
               PROVE  parentIndex[t] \in LiveNodes
    BY DEF ParentsInUseAreLive
  <2> DEFINE parent == Parent[PathOf(t)]
  <2>1. /\ PathOf(t) \in Paths /\ parent \in StrictPrefixes(PathOf(t))
        /\ parent \in Paths /\ <<parent, RootOf(t)>> \in Tasks
    BY TaskParts, Tree DEF StrictPrefixes
  <2>2. Running(t) /\ Active(t) /\ UpToDate
    BY <1>1 DEF Running, Active, IndexerInv, OnePublisher, UpToDate
  <2>3. CASE PathOf(t) = RootOf(t)
    BY <1>1, <2>1, <2>2, <2>3 DEF IndexerInv, IndexesCurrent, LiveNodes
  <2>4. CASE PathOf(t) # RootOf(t)
    <3>1. PICK a \in Tasks : a = <<parent, RootOf(t)>>
      BY <2>1
    <3>2. parentIndex[t] = index[a]
      BY <1>1, <2>2, <2>4, <3>1 DEF IndexerInv, IndexesCurrent
    <3>3. RootOf(t) \in Prefixes[parent]
      BY <1>1, <2>1, <2>2, <2>4, Tree DEF IndexerInv, StartedInOrder
    <3>4. Finished(a)
      BY <1>1, <2>1, <2>2, <3>1, <3>3 DEF IndexerInv, StartedInOrder
    <3>5. CASE OnItsWay(a)
      <4>1. index[a] = NodeOf(a)
        BY <1>1, <2>2, <3>5 DEF IndexerInv, IndexesCurrent
      <4>2. CASE Queued(a)
        BY <3>2, <4>1, <4>2 DEF Queued, LiveNodes
      <4>3. CASE Popped(a)
        BY <3>2, <4>1, <4>3, TaskParts DEF Popped, LiveNodes
      <4> QED
        BY <3>5, <4>2, <4>3 DEF OnItsWay
    <3>6. CASE ~OnItsWay(a)
      <4>1. index[a] = entry[PathOf(a)] /\ PathOf(a) \in Paths
        BY <1>1, <2>2, <3>4, <3>6, TaskParts
           DEF IndexerInv, IndexesCurrent, HasIndex, Finished, AfterPush
      <4> QED
        BY <3>2, <4>1 DEF LiveNodes
    <3> QED
      BY <3>5, <3>6
  <2> QED
    BY <2>3, <2>4
<1> QED
  BY <1>1, IndexerInvariant, PTL

(* A task that computes an index is told the truth about all ancestors.    *)
THEOREM IndexerAncestorsAnswerRight ==
    ASSUME ~Overlapping
    PROVE  Spec => []AncestorsAnswerRight
<1>1. ASSUME IndexerInv PROVE AncestorsAnswerRight
  <2> SUFFICES ASSUME NEW t \in Tasks, pc[t] = "compute",
                      NEW a \in StrictPrefixes(PathOf(t))
               PROVE  SaysInstanceable(a) <=> a \in Instanceable
    BY DEF AncestorsAnswerRight
  <2>1. /\ PathOf(t) \in Paths /\ a \in Prefixes[PathOf(t)] /\ a \in Paths
        /\ Prefixes[a] \subseteq Prefixes[PathOf(t)]
    BY TaskParts, Tree DEF StrictPrefixes
  <2>2. /\ Active(t) /\ UpToDate /\ Disjoint(toCompute)
        /\ RootOf(t) \in toCompute /\ RootOf(t) \in Prefixes[PathOf(t)]
    BY <1>1 DEF Running, Active, IndexerInv, OnePublisher, UpToDate, StartedInOrder
  <2>3. CASE Prefixes[a] \cap toCompute # {}
    <3>1. RootOf(t) \in Prefixes[a]
      BY <2>1, <2>2, <2>3, OneRoot
    <3>2. Finished(<<a, RootOf(t)>>)
      BY <1>1, <2>2, <3>1 DEF IndexerInv, StartedInOrder
    <3>3. <<a, RootOf(t)>> \in Tasks /\ PathOf(<<a, RootOf(t)>>) = a
      BY <2>1, TaskParts
    <3> QED
      BY <1>1, <2>3, <3>2, <3>3 DEF IndexerInv, RecordRight, SaysInstanceable
  <2>4. CASE Prefixes[a] \cap toCompute = {}
    <3>1. RootOf(t) \notin Prefixes[a] /\ a \in Prefixes[RootOf(t)] /\ a # RootOf(t)
      BY <2>1, <2>2, <2>4, Tree
    <3>2. a \in valid
      BY <1>1, <2>2, <3>1 DEF IndexerInv, IndexesCurrent, StrictPrefixes
    <3> QED
      BY <2>4, <3>2 DEF SaysInstanceable
  <2> QED
    BY <2>3, <2>4
<1> QED
  BY <1>1, IndexerInvariant, PTL

(* When a call returns, all it was to compute is in the cache, and nothing *)
(* is left in the queue.                                                   *)
THEOREM IndexerAllPublished ==
    ASSUME ~Overlapping
    PROVE  Spec => []AllPublished
<1>1. ASSUME IndexerInv PROVE AllPublished
  <2> SUFFICES ASSUME pc[Main] = "none", changed = {}
               PROVE  Wanted \subseteq valid /\ queue = <<>>
    BY DEF AllPublished
  <2>1. /\ queue = <<>> /\ UpToDate
        /\ \A t \in Tasks : ~Running(t)
    BY <1>1 DEF IndexerInv, OnePublisher, UpToDate
  <2>2. \A w \in Publishers : pc[w] # "insert"
    BY <2>1, TaskParts DEF Running
  <2>3. \A t \in Tasks : ~OnItsWay(t)
    <3>1. DOMAIN queue = {}
      BY <2>1
    <3> QED
      BY <2>2, <3>1 DEF OnItsWay, Queued, Popped
  <2>4. ASSUME NEW p \in Wanted PROVE p \in valid
    <3>1. PICK r \in toCompute :
             r \in Prefixes[p] /\ \A q \in Prefixes[p] :
                 q = p \/ r \notin Prefixes[q] \/ q \in expand
      BY DEF Wanted
    <3>2. p \in Paths /\ r \in Paths /\ p \in Subtree(r) /\ <<p, r>> \in Tasks
          /\ PathOf(<<p, r>>) = p
      BY <1>1, <3>1, TaskParts DEF Wanted, Subtree, IndexerInv, TypeOK
    <3>3. \A q \in StrictPrefixes(p) : <<q, r>> \in Tasks
      BY <3>2, Tree, TaskParts DEF StrictPrefixes
    <3>4. Active(<<p, r>>)
      BY <1>1, <2>1, <3>1, <3>2, <3>3 DEF IndexerInv, AllStarted, StrictPrefixes
    <3>5. HasIndex(<<p, r>>)
      BY <2>1, <3>2, <3>4 DEF Active, Running, HasIndex, AfterPush
    <3> QED
      BY <1>1, <2>1, <2>3, <3>2, <3>5 DEF IndexerInv, IndexesCurrent
  <2> QED
    BY <2>1, <2>4
<1> QED
  BY <1>1, IndexerInvariant, PTL

=============================================================================
