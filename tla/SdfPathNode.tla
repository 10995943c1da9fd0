----------------------------- MODULE SdfPathNode -----------------------------
(***************************************************************************)
(* The table of prim path nodes behind SdfPath (pxr/usd/sdf/pathNode.{h,   *)
(* cpp}, path.h, pool.h).  A path is a counted handle on a node; nodes are *)
(* unique, so that paths compare by pointer; a node counts itself in its   *)
(* parent.                                                                 *)
(*                                                                         *)
(* Counts are dropped without a lock.  The thread that takes a count to    *)
(* zero destroys the node in several steps, and meanwhile the table still  *)
(* shows it: the lock of the table's shard protects only the look-up, and  *)
(* the destructor's removal.  Memory comes from a pool and is reused.      *)
(*                                                                         *)
(* Property nodes are left out: their handles do not count, and they are   *)
(* never destroyed.                                                        *)
(***************************************************************************)
EXTENDS Integers, Sequences, FiniteSets

CONSTANTS
    Threads,
    Nodes,      \* the elements of Sdf_PathPrimPartPool
    Names,      \* element names
    Root,       \* the root node, which is never destroyed
    None,       \* no node, no token
    MaxHeld,    \* paths to one node that one thread holds at a time
    MaxDepth    \* elements of a path

ASSUME PathConstants ==
    /\ Root \notin Nodes /\ None \notin Nodes \cup {Root}
    /\ MaxHeld \in Nat /\ MaxDepth \in Nat
    /\ IsFiniteSet(Threads) /\ IsFiniteSet(Nodes)

VARIABLES
    table,       \* _primNodes: which node a parent and a name have
    allocated,   \* the pool elements in use
    parent, name, refCount,   \* _parent, _name, _refCount of a node
    path,        \* the path a node was created for
    token,       \* _pathTokenTable's entry of the node
    held,        \* how many SdfPaths of a thread refer to a node
    dtor,        \* where the thread's destructor is
    dying        \* the nodes a thread destroys, innermost last

nodeVars == <<parent, name, path>>
pathNodeVars == <<table, allocated, nodeVars, refCount, token, held, dtor, dying>>

Parents == Nodes \cup {Root}
Paths == UNION {[1 .. d -> Names] : d \in 0 .. MaxDepth}
Key(n) == <<parent[n], name[n]>>

PathNodeTypeOK ==
    /\ table \in [Parents \X Names -> Nodes \cup {None}]
    /\ allocated \subseteq Nodes
    /\ parent \in [Nodes -> Parents] /\ name \in [Nodes -> Names]
    /\ path \in [Nodes -> Paths]
    /\ refCount \in [Nodes -> Nat]
    /\ token \in [Nodes -> Paths \cup {None}]
    /\ held \in [Threads -> [Nodes -> 0 .. MaxHeld]]
    /\ dtor \in [Threads -> {"idle", "remove", "token", "parent", "free"}]
    /\ dying \in [Threads -> Seq(Nodes)]
    /\ \A t \in Threads : dtor[t] = "idle" <=> dying[t] = <<>>

PathNodeInit ==
    /\ table = [k \in Parents \X Names |-> None]
    /\ allocated = {}
    /\ parent = [n \in Nodes |-> Root]
    /\ name \in {[n \in Nodes |-> e] : e \in Names}
    /\ path = [n \in Nodes |-> <<>>]
    /\ refCount = [n \in Nodes |-> 0]
    /\ token = [n \in Nodes |-> None]
    /\ held = [t \in Threads |-> [n \in Nodes |-> 0]]
    /\ dtor = [t \in Threads |-> "idle"]
    /\ dying = [t \in Threads |-> <<>>]

PathOf(p) == IF p = Root THEN <<>> ELSE path[p]
Holds(t, p) == IF p = Root THEN TRUE ELSE held[t][p] > 0

(* The thread's new path to n.                                             *)
Hold(t, n) ==
    /\ held[t][n] < MaxHeld
    /\ held' = [held EXCEPT ![t][n] = @ + 1]

-----------------------------------------------------------------------------
(* _FindOrCreate, under the shard's lock.                                  *)

(* There is an entry, and the count that fetch_add found is not zero.      *)
Find(t, p, e) ==
    LET n == table[<<p, e>>] IN
    /\ dtor[t] = "idle" /\ Holds(t, p)
    /\ n # None /\ refCount[n] # 0
    /\ refCount' = [refCount EXCEPT ![n] = @ + 1]
    /\ Hold(t, n)
    /\ UNCHANGED <<table, allocated, nodeVars, token, dtor, dying>>

(* There is none, or its node has begun dying: its count is left at one,   *)
(* and a new node takes the entry.                                         *)
Create(t, p, e) ==
    LET old == table[<<p, e>>] IN
    /\ dtor[t] = "idle" /\ Holds(t, p)
    /\ Len(PathOf(p)) < MaxDepth
    /\ old # None => refCount[old] = 0
    /\ \E n \in Nodes \ allocated :
          /\ allocated' = allocated \cup {n}
          /\ table' = [table EXCEPT ![<<p, e>>] = n]
          /\ parent' = [parent EXCEPT ![n] = p]
          /\ name' = [name EXCEPT ![n] = e]
          /\ path' = [path EXCEPT ![n] = Append(PathOf(p), e)]
          /\ refCount' = [m \in Nodes |->
                CASE m = n -> 1
                  [] m = old \/ m = p -> refCount[m] + 1
                  [] OTHER -> refCount[m]]
          /\ Hold(t, n)
    /\ UNCHANGED <<token, dtor, dying>>

(* Copying a path that this or another thread holds.                       *)
Copy(t, n) ==
    /\ dtor[t] = "idle"
    /\ \E u \in Threads : held[u][n] > 0
    /\ refCount' = [refCount EXCEPT ![n] = @ + 1]
    /\ Hold(t, n)
    /\ UNCHANGED <<table, allocated, nodeVars, token, dtor, dying>>

(* GetPathToken: the token made for this node's address, or a new one.     *)
GetPathToken(t, n) ==
    /\ dtor[t] = "idle" /\ held[t][n] > 0
    /\ token' = [token EXCEPT ![n] = IF @ = None THEN path[n] ELSE @]
    /\ UNCHANGED <<table, allocated, nodeVars, refCount, held, dtor, dying>>

-----------------------------------------------------------------------------
(* TfDelegatedCountDecrement, and the destructor.                          *)

Dec(t, n, next) ==
    /\ refCount' = [refCount EXCEPT ![n] = @ - 1]
    /\ IF refCount[n] = 1
       THEN /\ dying' = [dying EXCEPT ![t] = Append(@, n)]
            /\ dtor' = [dtor EXCEPT ![t] = "remove"]
       ELSE /\ dtor' = [dtor EXCEPT ![t] = next]
            /\ UNCHANGED dying

Release(t, n) ==
    /\ dtor[t] = "idle" /\ held[t][n] > 0
    /\ held' = [held EXCEPT ![t][n] = @ - 1]
    /\ Dec(t, n, "idle")
    /\ UNCHANGED <<table, allocated, nodeVars, token>>

Top(t) == dying[t][Len(dying[t])]

(* _Remove: the entry goes only if it is still this node's.                *)
RemoveKey(t) ==
    /\ dtor[t] = "remove"
    /\ table' = [table EXCEPT ![Key(Top(t))] = None]
    /\ dtor' = [dtor EXCEPT ![t] = "token"]
    /\ UNCHANGED <<allocated, nodeVars, refCount, token, held, dying>>

Remove(t) ==
    /\ dtor[t] = "remove"
    /\ table' = [table EXCEPT ![Key(Top(t))] = IF @ = Top(t) THEN None ELSE @]
    /\ dtor' = [dtor EXCEPT ![t] = "token"]
    /\ UNCHANGED <<allocated, nodeVars, refCount, token, held, dying>>

KeepToken(t) ==
    /\ dtor[t] = "token"
    /\ dtor' = [dtor EXCEPT ![t] = "parent"]
    /\ UNCHANGED <<table, allocated, nodeVars, refCount, token, held, dying>>

RemovePathToken(t) ==
    /\ dtor[t] = "token"
    /\ token' = [token EXCEPT ![Top(t)] = None]
    /\ dtor' = [dtor EXCEPT ![t] = "parent"]
    /\ UNCHANGED <<table, allocated, nodeVars, refCount, held, dying>>

(* The member _parent is destroyed last, and may destroy the parent.       *)
DropParent(t) ==
    /\ dtor[t] = "parent"
    /\ IF parent[Top(t)] = Root
       THEN dtor' = [dtor EXCEPT ![t] = "free"] /\ UNCHANGED <<refCount, dying>>
       ELSE Dec(t, parent[Top(t)], "free")
    /\ UNCHANGED <<table, allocated, nodeVars, token, held>>

(* operator delete, back in the child whose destructor destroyed this one. *)
Free(t) ==
    /\ dtor[t] = "free"
    /\ allocated' = allocated \ {Top(t)}
    /\ dying' = [dying EXCEPT ![t] = SubSeq(@, 1, Len(@) - 1)]
    /\ dtor' = [dtor EXCEPT ![t] = IF Len(dying[t]) = 1 THEN "idle" ELSE "free"]
    /\ UNCHANGED <<table, nodeVars, refCount, token, held>>

PathNodeNext == \E t \in Threads :
    \/ \E p \in Parents, e \in Names : Find(t, p, e) \/ Create(t, p, e)
    \/ \E n \in Nodes : Copy(t, n) \/ GetPathToken(t, n) \/ Release(t, n)
    \/ Remove(t) \/ RemovePathToken(t) \/ DropParent(t) \/ Free(t)

PathNodeSpec == PathNodeInit /\ [][PathNodeNext]_pathNodeVars

-----------------------------------------------------------------------------
(* Properties.                                                             *)

Dying(n) == \E t \in Threads : \E i \in DOMAIN dying[t] : dying[t][i] = n
Live(n) == n \in allocated /\ ~Dying(n)

(* Paths compare by pointer: two nodes that are alive never stand for the  *)
(* same path, whatever dies and is created again meanwhile.                *)
PathsAreUnique ==
    \A n, m \in Nodes : Live(n) /\ Live(m) /\ path[n] = path[m] => n = m

(* A path in hand refers to a node, and through its parents to nodes, that *)
(* nobody destroys, and no node is destroyed twice.                        *)
HeldNodesLive ==
    /\ \A t \in Threads, n \in Nodes : held[t][n] > 0 => Live(n)
    /\ \A n \in Nodes : Live(n) /\ parent[n] # Root =>
          Live(parent[n]) /\ path[n] = Append(path[parent[n]], name[n])
    /\ \A t, u \in Threads : \A i \in DOMAIN dying[t], j \in DOMAIN dying[u] :
          dying[t][i] = dying[u][j] => t = u /\ i = j

(* The table shows nodes that are not freed, under their own keys, and     *)
(* shows every node that is alive: an entry is neither stale nor lost.     *)
TableExact ==
    /\ \A k \in Parents \X Names :
          table[k] # None => table[k] \in allocated /\ Key(table[k]) = k
    /\ \A n \in Nodes : Live(n) => table[Key(n)] = n

(* The children that count in n: they have not dropped their parent.       *)
DroppedParent(n) == \E t \in Threads : \E i \in DOMAIN dying[t] :
    dying[t][i] = n /\ (i < Len(dying[t]) \/ dtor[t] = "free")
Children(n) == {c \in allocated : parent[c] = n /\ ~DroppedParent(c)}

(* The string of a path is the string of this path, not of an earlier one  *)
(* whose node had the same address.                                        *)
TokensAreCurrent ==
    \A n \in Nodes : Live(n) /\ token[n] # None => token[n] = path[n]

(* Nothing leaks: when no path is left and no destructor runs, no node is  *)
(* left, and no table entry.                                               *)
NothingLeaks ==
    (\A t \in Threads : dtor[t] = "idle" /\ \A n \in Nodes : held[t][n] = 0) =>
        /\ allocated = {}
        /\ \A k \in Parents \X Names : table[k] = None
        /\ \A n \in Nodes : token[n] = None

=============================================================================
