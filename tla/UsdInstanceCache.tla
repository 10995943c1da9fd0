-------------------------- MODULE UsdInstanceCache --------------------------
(***************************************************************************)
(* Usd_InstanceCache with the recomposition of a stage that drives it:     *)
(* which prim indexes are computed, which of them become the sources of    *)
(* prototypes, and which prims of the stage and of its prototypes point to *)
(* which index (pxr/usd/usd/instanceCache.cpp, UsdStage::_RecomposePrims   *)
(* and below in stage.cpp).                                                *)
(*                                                                         *)
(* A prim's content is that of its kind; kinds of Instanceable are         *)
(* instancing keys.  Paths are sequences of names.  A prototype is named   *)
(* by its key and a number.  Composition is that of PcpParallelIndexer,    *)
(* one task an action, which finds or computes an index and registers it.  *)
(***************************************************************************)
EXTENDS Naturals, Sequences, FiniteSets, SequencesExt

CONSTANTS
    Names,         \* numbers
    ScenePaths,    \* bound: the paths there may be
    StageKind,     \* the kind of the pseudo-root
    Instanceable,
    Plain,
    Absent,        \* the kind of what is not there
    Nothing,
    Contents,      \* per kind, what its children may be
    Start,         \* the scenes to start with
    MaxEdits       \* bound on the edits

PrimKinds == {StageKind} \cup Instanceable \cup Plain
PseudoRoot == <<>>
Stage == <<StageKind, 0>>     \* prims of the stage: <<Stage, path>>

ASSUME ContentAssumption ==
    /\ Names \subseteq Nat
    /\ ScenePaths \subseteq Seq(Names) /\ IsFiniteSet(ScenePaths)
    /\ PseudoRoot \in ScenePaths
    /\ \A p \in ScenePaths \ {PseudoRoot} : Front(p) \in ScenePaths
    /\ MaxEdits \in Nat
    /\ StageKind \notin Instanceable \cup Plain
    /\ Absent \notin PrimKinds /\ Nothing \notin PrimKinds \cup {Absent} \cup ScenePaths
    /\ \A k \in PrimKinds : Contents[k] \subseteq [Names -> PrimKinds \cup {Absent}]
    /\ Start \subseteq [PrimKinds -> [Names -> PrimKinds \cup {Absent}]]
    /\ \A s \in Start : \A k \in PrimKinds : s[k] \in Contents[k]

(* No prim brings its own kind below it: composition refuses cycles.       *)
ASSUME AcyclicAssumption ==
    \E rank \in [PrimKinds -> 0 .. Cardinality(PrimKinds)] :
        \A k \in PrimKinds : \A content \in Contents[k] : \A n \in Names :
            content[n] # Absent => rank[content[n]] < rank[k]

VARIABLES
    kids,          \* per kind, the kinds of its children
    didChangeSignificantly,
    didChangePrims,
    index,         \* the indexes in the PcpCache: per path, their kind
    prototype,     \* _instanceKeyToPrototypeMap: per key, its number
    last,          \* _lastPrototypeIndex; prototypes made at once share it
    source,        \* _prototypeToSourcePrimIndexMap, by key
    instances,     \* _prototypeToPrimIndexesMap, by key
    instanceOf,    \* _primIndexToPrototypeMap, by key
    pendingAdded,
    pendingRemoved,
    roots,         \* what composition was asked for
    todo,          \* the paths of the tasks still to run
    pathsToRecompose,
    told,          \* Usd_InstanceChanges: new and changed prototypes' sources
    dead,          \*     and dead prototypes
    primIndex,     \* per prim, the path of the index it points to
    stale,         \* prims whose index has been blown since
    phase,
    edited         \* how many edits there were

sceneVars == <<kids, didChangeSignificantly, didChangePrims>>
mapVars == <<prototype, last, source, instances, instanceOf>>
pendingVars == <<pendingAdded, pendingRemoved>>
composeVars == <<roots, todo>>
changeVars == <<told, dead>>
stageVars == <<primIndex, stale>>
instanceVars == <<sceneVars, index, mapVars, pendingVars, composeVars, pathsToRecompose,
          changeVars, stageVars, phase, edited>>

InstanceInit ==
    /\ kids \in Start
    /\ didChangeSignificantly = {PseudoRoot} /\ didChangePrims = {}
    /\ index = [p \in ScenePaths |-> Nothing]
    /\ prototype = [k \in Instanceable |-> 0] /\ last = 0
    /\ source = [k \in Instanceable |-> Nothing]
    /\ instances = [k \in Instanceable |-> {}]
    /\ instanceOf = [p \in ScenePaths |-> Nothing]
    /\ pendingAdded = [k \in Instanceable |-> <<>>]
    /\ pendingRemoved = [k \in Instanceable |-> {}]
    /\ roots = {} /\ todo = {} /\ pathsToRecompose = {}
    /\ told = <<>> /\ dead = {}
    /\ primIndex = <<>> /\ stale = {}
    /\ phase = "idle" /\ edited = 0

----------------------------------------------------------------------------
(* Paths and contents                                                      *)

Parent(p) == Front(p)
Ancestors == [p \in ScenePaths |-> {q \in ScenePaths : IsStrictPrefix(q, p)}]
AtOrBelow(P) == {p \in ScenePaths : p \in P \/ Ancestors[p] \cap P # {}}

(* Faulty: keeps what is below others.                                     *)
AllOf(P) == P

(* _RemoveDescendentEntries                                                *)
Topmost(P) == {p \in P : Ancestors[p] \cap P = {}}

(* SdfPath's order of two paths.                                           *)
Precedes(p, q) ==
    \/ IsPrefix(p, q)
    \/ \E i \in DOMAIN p \cap DOMAIN q :
           p[i] < q[i] /\ \A j \in 1 .. i - 1 : p[j] = q[j]
First(P) == CHOOSE p \in P : \A q \in P : Precedes(p, q)

Has(k, n) == k \in PrimKinds /\ kids[k][n] # Absent
ChildKind(k, n) == IF Has(k, n) THEN kids[k][n] ELSE Absent
ChildrenOf(p, k) == {Append(p, n) : n \in {n \in Names : Has(k, n)}} \cap ScenePaths
KindAt(p) ==
    LET kind[i \in 0 .. Len(p)] ==
            IF i = 0 THEN StageKind ELSE ChildKind(kind[i - 1], p[i])
    IN  kind[Len(p)]

(* Where an index of kind k brings child n: what a change of it affects.   *)
Sites(k, n) == {Append(p, n) : p \in {p \in ScenePaths : index[p] = k}} \cap ScenePaths

----------------------------------------------------------------------------
(* Questions to the instance cache                                         *)

Proto(k) == <<k, prototype[k]>>

IsPathDescendantToAnInstance(p) == \E q \in Ancestors[p] : instanceOf[q] # Nothing

(* The key of the nearest instance, p or above it.                         *)
KeyAt(p) ==
    LET registered == {q \in Ancestors[p] \cup {p} : instanceOf[q] # Nothing}
    IN  IF registered = {} THEN Nothing
        ELSE instanceOf[CHOOSE q \in registered : \A r \in registered : Len(r) <= Len(q)]

(* Faulty: by the sources above p, whichever instance is nearest.          *)
GetPrimsNaively(p) ==
    {<<Proto(k), SubSeq(p, Len(source[k]) + 1, Len(p))>> :
         k \in {k \in Instanceable : source[k] # Nothing /\ IsPrefix(source[k], p)
                    /\ \A j \in Instanceable : source[j] # Nothing /\ IsPrefix(source[j], p)
                           => Len(source[j]) <= Len(source[k])}}

(* The prims below prototypes that use the index of p: the loop goes on to *)
(* the parent as long as it stands on an instance.                         *)
GetPrimsInPrototypes(p) ==
    LET walked == {c \in Ancestors[p] \cup {p} :
                       c # PseudoRoot /\ \A d \in Ancestors[p] \cup {p} :
                           IsStrictPrefix(c, d) => instanceOf[d] # Nothing}
    IN  {<<Proto(k), SubSeq(p, Len(source[k]) + 1, Len(p))>> :
             k \in {k \in Instanceable : source[k] # Nothing /\ \E c \in walked :
                        KeyAt(c) = k /\ IsPrefix(source[k], c)}}

PrototypeUses(p) == GetPrimsInPrototypes(p) # {}

----------------------------------------------------------------------------
(* Changes of layers                                                       *)

MayEdit ==
    /\ phase = "idle" /\ index[PseudoRoot] # Nothing /\ edited < MaxEdits
    /\ edited' = edited + 1

(* A child of k is added, removed, or becomes of another kind.             *)
Edit(k, n, to) ==
    LET content == [kids[k] EXCEPT ![n] = to]
    IN  /\ MayEdit
        /\ to # kids[k][n] /\ content \in Contents[k]
        /\ kids' = [kids EXCEPT ![k] = content]
        /\ didChangeSignificantly' = didChangeSignificantly \cup Sites(k, n)
        /\ UNCHANGED <<didChangePrims, index, mapVars, pendingVars, composeVars,
                       pathsToRecompose, changeVars, stageVars, phase>>

(* Something about it changes that needs its index computed again.         *)
Touch(k, n) ==
    /\ MayEdit
    /\ Has(k, n)
    /\ didChangePrims' = didChangePrims \cup {p \in Sites(k, n) : index[p] # Nothing}
    /\ UNCHANGED <<kids, didChangeSignificantly, index, mapVars, pendingVars,
                   composeVars, pathsToRecompose, changeVars, stageVars, phase>>

----------------------------------------------------------------------------
(* _Recompose and the first half of _RecomposePrims                        *)

(* The parents of the roots are computed serially, and so their ancestors. *)
WithAncestors(P, indexes) ==
    [p \in ScenePaths |-> IF indexes[p] = Nothing /\ \E q \in P : p \in Ancestors[q]
                     THEN KindAt(p) ELSE indexes[p]]

(* Faulty: leaves the instances below registered.                          *)
UnregisterNothing(P) == [k \in Instanceable |-> {}]

UnregisterUnder(P) ==
    [k \in Instanceable |-> {q \in AtOrBelow(P) : instanceOf[q] = k}]

Recompose ==
    LET changed == didChangeSignificantly \cup didChangePrims
        blown == AtOrBelow(didChangeSignificantly) \cup didChangePrims
        exposed == {p \in Topmost(changed) :
                        IsPathDescendantToAnInstance(p) => PrototypeUses(p)}
    IN  /\ phase = "idle" /\ changed # {}
        /\ pathsToRecompose' = Topmost(changed)
        /\ didChangeSignificantly' = {} /\ didChangePrims' = {}
        /\ index' = WithAncestors(exposed,
                                  [p \in ScenePaths |-> IF p \in blown THEN Nothing ELSE index[p]])
        /\ stale' = stale \cup {s \in DOMAIN primIndex : primIndex[s] \in blown}
        /\ pendingRemoved' = UnregisterUnder(exposed)
        /\ roots' = exposed /\ todo' = exposed
        /\ phase' = "compose"
        /\ UNCHANGED <<kids, mapVars, pendingAdded, changeVars, primIndex, edited>>

----------------------------------------------------------------------------
(* _ComposePrimIndexesInParallel                                           *)

(* What RegisterInstancePrimIndex answers: whether to go on to children.   *)
IsSource(p, k) ==
    IF prototype[k] = 0 THEN pendingAdded[k] = <<>> ELSE source[k] = p

(* The task of path p: the index, and the predicate for its children.      *)
Compute(p) ==
    LET k == IF index[p] = Nothing THEN KindAt(p) ELSE index[p]
        isInstanceable == k \in Instanceable
    IN  /\ phase = "compose" /\ p \in todo
        /\ index' = [index EXCEPT ![p] = k]
        /\ pendingAdded' = IF isInstanceable
                           THEN [pendingAdded EXCEPT ![k] = Append(@, p)]
                           ELSE pendingAdded
        /\ todo' = (todo \ {p}) \cup
                       IF isInstanceable => IsSource(p, k) THEN ChildrenOf(p, k) ELSE {}
        /\ UNCHANGED <<sceneVars, mapVars, pendingRemoved, roots, pathsToRecompose,
                       changeVars, stageVars, phase, edited>>

Added(k) == ToSet(pendingAdded[k])
Removed(k) == pendingRemoved[k] \ Added(k)
Kept(k) == instances[k] \ Removed(k)
LosesSource(k) == prototype[k] # 0 /\ source[k] \in Removed(k)

(* Prototypes that get another of their instances as a source.             *)
Moved == {k \in Instanceable : LosesSource(k) /\ Kept(k) # {}}

(* Prototypes all of whose instances go while others come.                 *)
Revived ==
    {k \in Instanceable : Added(k) # {} /\ prototype[k] # 0
         /\ (source[k] = Nothing \/ (LosesSource(k) /\ Kept(k) = {}))}

Created == {k \in Instanceable : Added(k) # {} /\ prototype[k] = 0}

Emptied ==
    {k \in Instanceable : pendingRemoved[k] # {} /\ prototype[k] # 0
         /\ Kept(k) \cup Added(k) = {}}

(* ProcessChanges; then the new sources are composed, if any have changed. *)
ProcessChanges ==
    LET changed == Moved \cup Revived
    IN  /\ phase = "compose" /\ todo = {}
        /\ prototype' = [k \in Instanceable |->
               IF k \in Created THEN last + 1 ELSE IF k \in Emptied THEN 0 ELSE prototype[k]]
        /\ last' = IF Created = {} THEN last ELSE last + 1
        /\ source' = [k \in Instanceable |->
               IF k \in Created \cup Revived THEN Head(pendingAdded[k])
               ELSE IF k \in Moved THEN First(Kept(k))
               ELSE IF LosesSource(k) THEN Nothing ELSE source[k]]
        /\ instances' = [k \in Instanceable |-> Kept(k) \cup Added(k)]
        /\ instanceOf' = [p \in ScenePaths |->
               IF \E k \in Instanceable : p \in Added(k)
               THEN CHOOSE k \in Instanceable : p \in Added(k)
               ELSE IF \E k \in Instanceable : p \in Removed(k) \cap instances[k]
               THEN Nothing ELSE instanceOf[p]]
        /\ pendingAdded' = [k \in Instanceable |-> <<>>]
        /\ pendingRemoved' = [k \in Instanceable |-> {}]
        /\ told' = LET new == {<<k, prototype'[k]>> : k \in Created \cup changed}
                   IN  [r \in new \cup DOMAIN told |->
                            IF r \in new THEN source'[r[1]] ELSE told[r]]
        /\ dead' = dead \cup {Proto(k) : k \in Emptied}
        /\ roots' = {source'[k] : k \in changed} /\ todo' = roots'
        /\ index' = WithAncestors(roots', index)
        /\ phase' = IF changed = {} THEN "stage" ELSE "compose"
        /\ UNCHANGED <<sceneVars, pathsToRecompose, stageVars, edited>>

----------------------------------------------------------------------------
(* The second half of _RecomposePrims: the prims of the stage              *)

IsInstance(s) == s[2] # PseudoRoot \/ s[1] = Stage

(* _ComposeSubtree: s and the prims below it, from the index of path p on. *)
(* A prim that is an instance, and no prototype, has no children.          *)
Subtree(s, p) ==
    LET below == {q \in ScenePaths : IsPrefix(p, q) /\
            \A r \in Ancestors[q] : IsPrefix(p, r) =>
                /\ Has(index[r], q[Len(r) + 1])
                /\ index[r] \in Instanceable => r = p /\ ~IsInstance(s)}
    IN  [t \in {<<s[1], s[2] \o SubSeq(q, Len(p) + 1, Len(q))>> : q \in below} |->
            p \o SubSeq(t[2], Len(s[2]) + 1, Len(t[2]))]

(* Whether the parent is there and, its children composed again, has s.    *)
IsChild(s) ==
    LET parent == <<s[1], Parent(s[2])>>
    IN  /\ parent \in DOMAIN primIndex
        /\ LET k == index[primIndex[parent]]
           IN  Has(k, s[2][Len(s[2])]) /\ (k \in Instanceable => ~IsInstance(parent))

(* Faulty: misses the sources below what has changed.                      *)
WithSourceAt(P) == {k \in Instanceable : source[k] \in P}

(* Prototypes whose source is one of P or below.                           *)
WithSourceUnder(P) == {k \in Instanceable : source[k] \in AtOrBelow(P)}

RecomposePrims ==
    LET P == pathsToRecompose
        inPrototypes == UNION {GetPrimsInPrototypes(p) : p \in P}
        indexOf == [r \in DOMAIN told \cup {Proto(k) : k \in WithSourceUnder(P)} |->
                        IF r \in DOMAIN told THEN told[r] ELSE source[r[1]]]
        prims == {<<Stage, p>> : p \in P} \cup inPrototypes
                     \cup {<<r, PseudoRoot>> : r \in DOMAIN indexOf}
        top == {s \in prims : \A t \in prims : t[1] = s[1] => ~IsStrictPrefix(t[2], s[2])}
        pathOf(s) ==
            IF s[1] = Stage THEN s[2]
            ELSE IF s[2] = PseudoRoot /\ s[1] \in DOMAIN indexOf THEN indexOf[s[1]]
            ELSE CHOOSE p \in P : s \in GetPrimsInPrototypes(p)
        composed == {s \in top : s[2] = PseudoRoot \/ IsChild(s)}
        gone(t) == t[1] \in dead
                     \/ \E s \in top : s[1] = t[1] /\ IsPrefix(s[2], t[2])
        kept == {t \in DOMAIN primIndex : ~gone(t)}
    IN  /\ phase = "stage"
        /\ primIndex' =
               LET subtree == [s \in composed |-> Subtree(s, pathOf(s))]
                   new == UNION {DOMAIN subtree[s] : s \in composed}
                   rootOf(t) == CHOOSE s \in composed : t \in DOMAIN subtree[s]
               IN  [t \in new \cup kept |->
                       IF t \in new THEN subtree[rootOf(t)][t] ELSE primIndex[t]]
        /\ stale' = stale \cap kept
        /\ told' = <<>> /\ dead' = {}
        /\ pathsToRecompose' = {} /\ roots' = {}
        /\ phase' = "idle"
        /\ UNCHANGED <<sceneVars, index, mapVars, pendingVars, todo, edited>>

----------------------------------------------------------------------------

InstanceNext ==
    \/ \E k \in PrimKinds, n \in Names, to \in PrimKinds \cup {Absent} : Edit(k, n, to)
    \/ \E k \in PrimKinds, n \in Names : Touch(k, n)
    \/ Recompose
    \/ \E p \in ScenePaths : Compute(p)
    \/ ProcessChanges
    \/ RecomposePrims

InstanceSpec == InstanceInit /\ [][InstanceNext]_instanceVars

----------------------------------------------------------------------------
(* Properties                                                              *)

Settled ==
    /\ phase = "idle"
    /\ didChangeSignificantly = {} /\ didChangePrims = {}

(* Composition is never asked for a path below another one it is asked     *)
(* for: what PcpParallelIndexer assumes of its roots.                      *)
RootsDisjoint == phase = "compose" => \A p \in roots : Ancestors[p] \cap roots = {}

(* A prototype has instances and one of them is its source; the maps from  *)
(* instances to prototypes and back agree.                                 *)
MapsAgree ==
    phase = "idle" => \A k \in Instanceable :
        /\ instances[k] = {p \in ScenePaths : instanceOf[p] = k}
        /\ IF prototype[k] = 0 THEN instances[k] = {} /\ source[k] = Nothing
                               ELSE source[k] \in instances[k]

Shown == {primIndex[s] : s \in DOMAIN primIndex}

(* After a round the instances that are registered are those that prims of *)
(* the stage or of a prototype show, each under the key it now has.        *)
RegisteredExactly ==
    Settled => \A p \in ScenePaths :
        instanceOf[p] = IF p \in Shown /\ KindAt(p) \in Instanceable THEN KindAt(p) ELSE Nothing

(* After a round the stage has the prims of the scene, each live prototype *)
(* those of its source, and nothing else.                                  *)
PrimsExact ==
    Settled =>
        LET roots_ == {<<Stage, PseudoRoot>>}
                \cup {<<Proto(k), PseudoRoot>> : k \in {k \in Instanceable : prototype[k] # 0}}
            pathOf(s) == IF s[1] = Stage THEN PseudoRoot ELSE source[s[1][1]]
        IN  DOMAIN primIndex = UNION {DOMAIN Subtree(s, pathOf(s)) : s \in roots_}

(* Every prim then points to an index that is in the cache, was composed   *)
(* from what is now there, and has not been computed again since the prim  *)
(* was.                                                                    *)
IndexesCurrent ==
    Settled =>
        /\ stale = {}
        /\ \A p \in Shown : index[p] # Nothing /\ index[p] = KindAt(p)
=============================================================================
