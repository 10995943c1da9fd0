------------------------- MODULE PcpParallelIndexer -------------------------
(***************************************************************************)
(* PcpCache::_ParallelIndexer: prim indexes are computed by tasks, one per *)
(* path, that start the tasks of their children, and reach the cache       *)
(* through a queue that whoever takes _isPublishing empties                *)
(* (pxr/usd/pcp/cache.cpp; the cache is an SdfPathTable).                  *)
(*                                                                         *)
(* A task is named <<path, root>>, the root of the call being the one it   *)
(* descends from.  A node, the memory of one index, is named by the call   *)
(* and the task that made it.  What an index contains is left out but for  *)
(* whether it is instanceable; what composition asks of other indexes is   *)
(* asked in one action.  Between calls the cache's indexes are blown.      *)
(***************************************************************************)
EXTENDS Naturals, Sequences, FiniteSets

CONSTANTS
    Paths,
    AbsoluteRoot,
    Parent,        \* GetParentPath of every path but AbsoluteRoot
    Prefixes,      \* per path, itself and its ancestors
    Instanceable,  \* the paths whose indexes are instanceable
    Main,          \* the thread that calls
    None,
    Overlapping,   \* whether a call may be given roots below each other
    MaxCalls       \* bound on the calls

ASSUME PathsAssumption ==
    /\ AbsoluteRoot \in Paths /\ Instanceable \subseteq Paths
    /\ Main \notin Paths \X Paths /\ None \notin Paths /\ None \notin Paths \X Paths
    /\ Parent \in [Paths \ {AbsoluteRoot} -> Paths]
    /\ Prefixes \in [Paths -> SUBSET Paths]
    /\ Prefixes[AbsoluteRoot] = {AbsoluteRoot}
    /\ \A p \in Paths \ {AbsoluteRoot} :
           p \notin Prefixes[Parent[p]] /\ Prefixes[p] = {p} \cup Prefixes[Parent[p]]

ASSUME BoundAssumption == MaxCalls \in Nat /\ Overlapping \in BOOLEAN

(* The order of paths by prefix is that of a tree.                         *)
ASSUME TreeAssumption ==
    \A p \in Paths : \A q \in Prefixes[p] :
        /\ Prefixes[q] \subseteq Prefixes[p]
        /\ p \in Prefixes[q] => p = q
        /\ \A r \in Prefixes[p] : q \in Prefixes[r] \/ r \in Prefixes[q]
        /\ q # p => \E c \in Prefixes[p] \ {AbsoluteRoot} : Parent[c] = q

Tasks == Paths \X Paths
PathOf(t) == t[1]
RootOf(t) == t[2]
Publishers == Tasks \cup {Main}
Nodes == (0 .. MaxCalls) \X (Tasks \cup Paths)   \* of a path: made serially
ASSUME NodesAssumption == None \notin Nodes

Children(p) == {q \in DOMAIN Parent : Parent[q] = p}
Subtree(p) == {q \in Paths : p \in Prefixes[q]}
ChildTasks(t) == {<<q, RootOf(t)>> : q \in Children(PathOf(t))}

VARIABLES
    entry,         \* _primIndexCache: per path, the node it holds, or None
    valid,         \* the paths whose entry is an index that was computed
    deps,          \* _primDependencies: per path, how often its index is in
    queue,         \* _toPublish: the tasks whose nodes are in it
    isPublishing,  \* _isPublishing
    recorded,      \* _indexIsInstanceable
    toCompute,     \* _toCompute: the roots of the call
    pc,            \* per task and for Main
    checkCache,    \* the tasks that must look into the cache
    parentIndex,   \* per task, the node of its parent's index
    index,         \* per task, the node of its own
    item,          \* per publisher, the task whose node it popped
    expand,        \* the paths for which the children predicate holds
    call,          \* how many calls there were
    changed        \* the paths blown since the last call

cacheVars == <<entry, valid, deps>>
publishVars == <<queue, isPublishing, item>>
taskVars == <<checkCache, parentIndex, index>>
callVars == <<toCompute, expand, call, changed>>
vars == <<cacheVars, publishVars, taskVars, callVars, recorded, pc>>

Init ==
    /\ entry = [p \in Paths |-> None] /\ valid = {}
    /\ deps = [p \in Paths |-> 0]
    /\ queue = <<>> /\ isPublishing = FALSE
    /\ item = [w \in Publishers |-> None]
    /\ recorded = {} /\ toCompute = {} /\ expand = {}
    /\ pc = [w \in Publishers |-> "none"]
    /\ checkCache = {}
    /\ parentIndex = [t \in Tasks |-> None] /\ index = [t \in Tasks |-> None]
    /\ call = 0
    /\ changed = {AbsoluteRoot}

----------------------------------------------------------------------------
(* The cache                                                               *)

NodeOf(t) == <<call, t>>

(* SdfPathTable::insert adds what the parents lack, as invalid entries.    *)
Inserted(p, node) ==
    [q \in Paths |-> IF entry[q] # None \/ q \notin Prefixes[p] THEN entry[q]
                     ELSE IF q = p THEN node ELSE <<call, q>>]

Adding(ps) == [p \in Paths |-> IF p \in ps THEN deps[p] + 1 ELSE deps[p]]

(* _PublishOneOutput under the mutex, and the dependencies after it.       *)
InsertIndex(t) ==
    /\ entry' = Inserted(PathOf(t), NodeOf(t))
    /\ valid' = valid \cup {PathOf(t)}
    /\ UNCHANGED deps

AddDependencies(t) ==
    /\ deps' = Adding({PathOf(t)})
    /\ UNCHANGED <<entry, valid>>

----------------------------------------------------------------------------
(* A task: _ComputeIndex                                                   *)

Goes(w, from, to) == pc[w] = from /\ pc' = [pc EXCEPT ![w] = to]

CheckCache(t) ==
    LET p == PathOf(t)
    IN  /\ pc[t] = "check"
        /\ checkCache' = IF entry[p] = None THEN checkCache \ {t} ELSE checkCache
        /\ IF t \in checkCache /\ p \in valid
           THEN pc' = [pc EXCEPT ![t] = "finish"]
                /\ index' = [index EXCEPT ![t] = entry[p]]
           ELSE pc' = [pc EXCEPT ![t] = "compute"] /\ UNCHANGED index
        /\ UNCHANGED <<cacheVars, publishVars, parentIndex, callVars, recorded>>

(* PcpComputePrimIndex, into a new node.  With the cache to check, the     *)
(* entry in the way is invalid and is replaced at once.                    *)
Compute(t) ==
    /\ Goes(t, "compute", IF t \in checkCache THEN "replace" ELSE "push")
    /\ index' = [index EXCEPT ![t] = NodeOf(t)]
    /\ UNCHANGED <<cacheVars, publishVars, checkCache, parentIndex, callVars, recorded>>

(* Faulty: goes on with the node it made instead of the one in the cache.  *)
ReplaceKeepsNode(t) ==
    /\ Goes(t, "replace", "replaced")
    /\ InsertIndex(t)
    /\ UNCHANGED <<publishVars, taskVars, callVars, recorded>>

Replace(t) ==
    /\ Goes(t, "replace", "replaced")
    /\ InsertIndex(t)
    /\ index' = [index EXCEPT ![t] = entry'[PathOf(t)]]
    /\ UNCHANGED <<publishVars, checkCache, parentIndex, callVars, recorded>>

Replaced(t) ==
    /\ Goes(t, "replaced", "finish")
    /\ AddDependencies(t)
    /\ UNCHANGED <<publishVars, taskVars, callVars, recorded>>

Push(t) ==
    /\ Goes(t, "push", "load")
    /\ queue' = Append(queue, t)
    /\ UNCHANGED <<cacheVars, isPublishing, item, taskVars, callVars, recorded>>

LoadIsPublishing(t) ==
    /\ Goes(t, "load", IF isPublishing THEN "finish" ELSE "exchange")
    /\ UNCHANGED <<cacheVars, publishVars, taskVars, callVars, recorded>>

(* Faulty: publishes on the strength of the load.                          *)
StorePublishing(t) ==
    /\ Goes(t, "exchange", "pop")
    /\ isPublishing' = TRUE
    /\ UNCHANGED <<cacheVars, queue, item, taskVars, callVars, recorded>>

TakePublishing(t) ==
    /\ Goes(t, "exchange", IF isPublishing THEN "finish" ELSE "pop")
    /\ isPublishing' = TRUE
    /\ UNCHANGED <<cacheVars, queue, item, taskVars, callVars, recorded>>

StopPublishing(t) ==
    /\ Goes(t, "published", "finish")
    /\ isPublishing' = FALSE
    /\ UNCHANGED <<cacheVars, queue, item, taskVars, callVars, recorded>>

(* _indexIsInstanceable is told, then the predicate is asked and the tasks *)
(* of the children are run.                                                *)
StartChildren(t) ==
    LET started == IF PathOf(t) \in expand THEN ChildTasks(t) ELSE {}
    IN  /\ pc[t] = "finish"
        /\ pc' = [w \in Publishers |->
                     IF w = t THEN "done" ELSE IF w \in started THEN "check" ELSE pc[w]]
        /\ parentIndex' = [c \in Tasks |-> IF c \in started THEN index[t] ELSE parentIndex[c]]
        /\ checkCache' = IF t \in checkCache THEN checkCache \cup started ELSE checkCache

(* Faulty: leaves the record to the publishing.                            *)
FinishUnrecorded(t) ==
    /\ StartChildren(t)
    /\ recorded' = recorded \cup (valid \cap Instanceable)
    /\ UNCHANGED <<cacheVars, publishVars, index, callVars>>

Finish(t) ==
    /\ StartChildren(t)
    /\ recorded' = recorded \cup ({PathOf(t)} \cap Instanceable)
    /\ UNCHANGED <<cacheVars, publishVars, index, callVars>>

----------------------------------------------------------------------------
(* _PublishOutputs, by the task that took _isPublishing or by Main         *)

TryPop(w) ==
    /\ queue # <<>>
    /\ Goes(w, "pop", "insert")
    /\ item' = [item EXCEPT ![w] = Head(queue)]
    /\ queue' = Tail(queue)
    /\ UNCHANGED <<cacheVars, isPublishing, taskVars, callVars, recorded>>

Publish(w) ==
    /\ Goes(w, "insert", "depend")
    /\ InsertIndex(item[w])
    /\ UNCHANGED <<publishVars, taskVars, callVars, recorded>>

Depend(w) ==
    /\ Goes(w, "depend", "pop")
    /\ AddDependencies(item[w])
    /\ item' = [item EXCEPT ![w] = None]
    /\ UNCHANGED <<queue, isPublishing, taskVars, callVars, recorded>>

QueueEmpty(w) ==
    /\ queue = <<>>
    /\ Goes(w, "pop", IF w = Main THEN "none" ELSE "published")
    /\ UNCHANGED <<cacheVars, publishVars, taskVars, callVars, recorded>>

----------------------------------------------------------------------------
(* Main: _ComputePrimIndexesInParallel, and what happens between two calls *)

StrictPrefixes(p) == Prefixes[p] \ {p}
Disjoint(roots) == \A r \in roots : StrictPrefixes(r) \cap roots = {}

(* A client recomputes what was blown (UsdStage::_RecomposePrims).         *)
Covering(roots) == \A p \in changed : Prefixes[p] \cap roots # {}

(* The parents of the roots are computed serially, and so their ancestors. *)
Begin(roots, preds) ==
    LET ancestors == UNION {StrictPrefixes(r) : r \in roots}
        computed == ancestors \ valid
        started == {<<r, r>> : r \in roots}
    IN  /\ pc[Main] = "none" /\ call < MaxCalls
        /\ (Disjoint(roots) \/ Overlapping) /\ Covering(roots)
        /\ call' = call + 1
        /\ toCompute' = roots /\ expand' = preds
        /\ entry' = [p \in Paths |-> IF p \in computed /\ entry[p] = None
                                     THEN <<call', p>> ELSE entry[p]]
        /\ valid' = valid \cup computed
        /\ deps' = Adding(computed)
        /\ recorded' = {} /\ changed' = {}
        /\ pc' = [w \in Publishers |-> IF w = Main THEN "wait"
                                       ELSE IF w \in started THEN "check" ELSE "none"]
        /\ checkCache' = started
        /\ parentIndex' = [t \in Tasks |->
               IF t \in started /\ PathOf(t) # AbsoluteRoot
               THEN entry'[Parent[PathOf(t)]] ELSE None]
        /\ index' = [t \in Tasks |-> None]
        /\ UNCHANGED publishVars

Running(t) == pc[t] \notin {"none", "done"}

(* Faulty: what is left in the queue stays there.                          *)
WaitOnly ==
    /\ \A t \in Tasks : ~Running(t)
    /\ Goes(Main, "wait", "none")
    /\ UNCHANGED <<cacheVars, publishVars, taskVars, callVars, recorded>>

(* The dispatcher's Wait; the remaining outputs are published after it.    *)
Wait ==
    /\ \A t \in Tasks : ~Running(t)
    /\ Goes(Main, "wait", "pop")
    /\ UNCHANGED <<cacheVars, publishVars, taskVars, callVars, recorded>>

BetweenCalls(p) ==
    /\ pc[Main] = "none" /\ 0 < call /\ call < MaxCalls
    /\ entry[p] # None
    /\ changed' = changed \cup {p}
    /\ UNCHANGED <<publishVars, taskVars, toCompute, expand, call, recorded, pc>>

RemovePrimCache(p) ==
    /\ BetweenCalls(p)
    /\ valid' = valid \ {p}
    /\ deps' = [deps EXCEPT ![p] = 0]
    /\ UNCHANGED entry

RemovePrimAndPropertyCaches(p) ==
    LET under(q) == q \in Subtree(p)
    IN  /\ BetweenCalls(p)
        /\ valid' = valid \ Subtree(p)
        /\ deps' = [q \in Paths |-> IF under(q) THEN 0 ELSE deps[q]]
        /\ entry' = [q \in Paths |-> IF under(q) THEN None ELSE entry[q]]

----------------------------------------------------------------------------

PublisherNext(w) == TryPop(w) \/ Publish(w) \/ Depend(w) \/ QueueEmpty(w)

TaskNext(t) ==
    \/ CheckCache(t) \/ Compute(t) \/ Replace(t) \/ Replaced(t)
    \/ Push(t) \/ LoadIsPublishing(t) \/ TakePublishing(t) \/ StopPublishing(t)
    \/ Finish(t) \/ PublisherNext(t)

MainNext == Wait \/ PublisherNext(Main)

Next ==
    \/ \E t \in Tasks : TaskNext(t)
    \/ MainNext
    \/ \E roots, preds \in SUBSET Paths : Begin(roots, preds)
    \/ \E p \in Paths : RemovePrimCache(p) \/ RemovePrimAndPropertyCaches(p)

Spec == Init /\ [][Next]_vars

----------------------------------------------------------------------------
(* Properties                                                              *)

Places == {"none", "check", "compute", "replace", "replaced", "push", "load",
           "exchange", "pop", "insert", "depend", "published", "finish", "done",
           "wait"}

TypeOK ==
    /\ entry \in [Paths -> Nodes \cup {None}]
    /\ valid \subseteq Paths
    /\ deps \in [Paths -> Nat]
    /\ queue \in Seq(Tasks) /\ isPublishing \in BOOLEAN
    /\ item \in [Publishers -> Tasks \cup {None}]
    /\ recorded \subseteq Paths /\ toCompute \subseteq Paths /\ expand \subseteq Paths
    /\ pc \in [Publishers -> Places]
    /\ checkCache \subseteq Tasks
    /\ parentIndex \in [Tasks -> Nodes \cup {None}]
    /\ index \in [Tasks -> Nodes \cup {None}]
    /\ call \in 0 .. MaxCalls /\ changed \subseteq Paths

(* The TF_VERIFY of _PublishOneOutput: an index from the queue finds no    *)
(* entry, not even one that its children made by arriving first; one that  *)
(* is published at once finds an invalid entry.                            *)
NothingReplaced ==
    /\ \A w \in Publishers : pc[w] = "insert" => entry[PathOf(item[w])] = None
    /\ \A t \in Tasks : pc[t] = "replace" =>
           entry[PathOf(t)] # None /\ PathOf(t) \notin valid

(* The nodes whose memory is held: by the cache, by an output on its way   *)
(* to it, or by the task that computed it.                                 *)
LiveNodes ==
    {entry[p] : p \in Paths}
        \cup {NodeOf(queue[i]) : i \in DOMAIN queue}
        \cup {NodeOf(item[w]) : w \in {w \in Publishers : item[w] # None}}
        \cup {NodeOf(t) : t \in {t \in Tasks : pc[t] \in {"replace", "push"}}}

(* The index a task is to read as its parent's has not been freed.         *)
ParentsInUseAreLive ==
    \A t \in Tasks : pc[t] \in {"check", "compute"} =>
        parentIndex[t] \in LiveNodes \/ PathOf(t) = AbsoluteRoot

(* _IsAncestorIndexInstanceable, as the task of path p would be answered.  *)
SaysInstanceable(a) ==
    IF Prefixes[a] \cap toCompute # {}
    THEN a \in recorded
    ELSE a \in valid /\ a \in Instanceable

(* A task that computes an index is told the truth about every ancestor,   *)
(* whether it is in the cache, in the queue or on the way there.           *)
AncestorsAnswerRight ==
    \A t \in Tasks : pc[t] = "compute" =>
        \A a \in StrictPrefixes(PathOf(t)) :
            SaysInstanceable(a) <=> a \in Instanceable

(* When the call returns, every index it was to compute is in the cache    *)
(* and nothing is left in the queue.                                       *)
Wanted == {p \in Paths : \E r \in toCompute :
              r \in Prefixes[p] /\ \A q \in Prefixes[p] :
                  q = p \/ r \notin Prefixes[q] \/ q \in expand}
AllPublished ==
    pc[Main] = "none" /\ changed = {} => Wanted \subseteq valid /\ queue = <<>>

(* Between calls the dependencies of every index in the cache have been    *)
(* added once, and no others.                                              *)
DependenciesExact ==
    pc[Main] = "none" =>
        \A p \in Paths : deps[p] = IF p \in valid THEN 1 ELSE 0

=============================================================================
