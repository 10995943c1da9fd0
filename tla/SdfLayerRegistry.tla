-------------------------- MODULE SdfLayerRegistry --------------------------
(***************************************************************************)
(* Finding, opening, creating, renaming and destroying SdfLayers through   *)
(* the layer registry (pxr/usd/sdf/layerRegistry.{h,cpp} and the parts of  *)
(* pxr/usd/sdf/layer.cpp that use it).                                     *)
(*                                                                         *)
(* Threads hold references to layers and call the static functions of      *)
(* SdfLayer.  The registry maps identifiers, repository paths and real     *)
(* paths to weak handles under a reader/writer mutex.  A layer whose last  *)
(* reference goes is destroyed by the thread that dropped it, which takes  *)
(* the mutex to erase it: until then the registry shows a layer nobody can *)
(* take a reference to.  A layer being opened is already in the registry;  *)
(* those who find it wait for its initialization.                          *)
(*                                                                         *)
(* The asset resolver and tbb::queuing_rw_mutex are external: what an      *)
(* identifier resolves to may change between any two steps; the mutex      *)
(* serves its requests in order, and an upgrade to writer may or may not   *)
(* release it.                                                             *)
(***************************************************************************)
EXTENDS FiniteSets, Sequences

CONSTANTS
    Threads,
    LayerObjects,          \* the layer objects this behaviour may construct
    Ids,             \* identifiers that are not anonymous
    RealPaths,       \* resolved paths
    None,            \* no layer, no path
    Resolutions,     \* what the identifiers may resolve to, over time
    NewPath,         \* ResolveForNewAsset, per identifier
    RepoPath,        \* ArAssetInfo::repoPath, per identifier
    ContextDependent,   \* identifiers whose resolution depends on the context
    ReadOutcomes,    \* what reading or saving a layer may come to
    Calls            \* the functions the threads call

AllCalls == {"FindOrOpen", "Find", "CreateNew", "CreateAnonymous",
             "OpenAsAnonymous", "SetIdentifier", "UpdateAssetInfo"}

ASSUME NoneAssumption == None \notin Threads \cup LayerObjects \cup Ids \cup RealPaths
ASSUME LayersAssumption == IsFiniteSet(LayerObjects) /\ LayerObjects \cap Ids = {}
ASSUME ResolverAssumption ==
    /\ Resolutions \subseteq [Ids -> RealPaths \cup {None}]
    /\ Resolutions # {}
    /\ NewPath \in [Ids -> RealPaths]
    /\ RepoPath \in [Ids -> Ids \cup {None}]
    /\ ContextDependent \subseteq Ids
ASSUME CallsAssumption ==
    /\ Calls \subseteq AllCalls
    /\ ReadOutcomes \subseteq {"ok", "fail", "throw"}

VARIABLES
    readers, writer,   \* who holds the registry mutex, and how
    queue,             \* who waits for it, in order of arrival
    registry,          \* _layers: the three indexes, as sets of <<key, layer>>
    resolve,           \* what the resolver makes of each identifier now
    life,              \* "unborn", "live", "dying" (no references), "dead"
    init,              \* "loading", "ok" or "failed": the two _initialization fields
    info,              \* _assetInfo: identifier, repository path, real path
    held,              \* per thread, the layers its callers hold references to
    pc, call,          \* per thread, where it is and what it was called with
    handle,            \* per thread, the handle Find returned to _TryToFindLayer
    cur,               \* per thread, the layer the running call references
    oldInfo,           \* per thread, the asset info its renaming replaced
    newAliases,        \* per thread, newAliases of Update
    clashed            \* history: layers that two threads renamed at once

mutexVars == <<readers, writer, queue>>
layerVars == <<life, init, info>>
threadVars == <<held, pc, call, handle, cur, oldInfo, newAliases>>
updateVars == <<oldInfo, newAliases, clashed>>
vars == <<mutexVars, registry, resolve, layerVars, threadVars, clashed>>

(* The identifier of an anonymous layer is made from its address.          *)
Identifiers == Ids \cup LayerObjects
Infos == [id : Identifiers \cup {None}, repo : Ids \cup {None},
          real : RealPaths \cup {None}]
NoInfo == [id |-> None, repo |-> None, real |-> None]
NoCall == [op |-> "none", id |-> None, path |-> None, self |-> None]
UpdatePlaces == {"outReal", "inReal", "outRepo", "inRepo", "outId", "inId"}
PCs == {"idle", "lockRead", "find", "upgrade", "relock", "haveWrite",
        "opened", "reading", "wait", "destroy", "rename"} \cup UpdatePlaces

TypeOK ==
    /\ readers \subseteq Threads /\ writer \in Threads \cup {None}
    /\ writer # None => readers = {}
    /\ queue \in Seq(Threads)
    /\ registry \in [byId : SUBSET (Identifiers \X LayerObjects),
                     byRepo : SUBSET (Ids \X LayerObjects),
                     byReal : SUBSET (RealPaths \X LayerObjects)]
    /\ resolve \in Resolutions
    /\ life \in [LayerObjects -> {"unborn", "live", "dying", "dead"}]
    /\ init \in [LayerObjects -> {"loading", "ok", "failed"}]
    /\ info \in [LayerObjects -> Infos]
    /\ held \in [Threads -> SUBSET LayerObjects]
    /\ pc \in [Threads -> PCs]
    /\ call \in [Threads -> [op : AllCalls \cup {"none"},
                             id : Identifiers \cup {None},
                             path : RealPaths \cup {None},
                             self : LayerObjects \cup {None}]]
    /\ handle \in [Threads -> LayerObjects \cup {None}]
    /\ cur \in [Threads -> LayerObjects \cup {None}]
    /\ oldInfo \in [Threads -> Infos] /\ newAliases \in [Threads -> Infos]
    /\ clashed \subseteq LayerObjects

Init ==
    /\ readers = {} /\ writer = None /\ queue = <<>>
    /\ registry = [byId |-> {}, byRepo |-> {}, byReal |-> {}]
    /\ resolve \in Resolutions
    /\ life = [l \in LayerObjects |-> "unborn"]
    /\ init = [l \in LayerObjects |-> "loading"]
    /\ info = [l \in LayerObjects |-> NoInfo]
    /\ held = [t \in Threads |-> {}]
    /\ pc = [t \in Threads |-> "idle"]
    /\ call = [t \in Threads |-> NoCall]
    /\ handle = [t \in Threads |-> None]
    /\ cur = [t \in Threads |-> None]
    /\ oldInfo = [t \in Threads |-> NoInfo] /\ newAliases = [t \in Threads |-> NoInfo]
    /\ clashed = {}

-----------------------------------------------------------------------------
(* The registry (layerRegistry.cpp).                                       *)

Entries(index, key) == {l \in LayerObjects : <<key, l>> \in index}

(* Insert: nothing goes in when the real path is taken.                    *)
Insert(reg, l, new) ==
    LET Add(index, key) == IF key = None THEN index
                           ELSE index \cup {<<key, l>>}
    IN  IF Entries(reg.byReal, new.real) # {} THEN reg
        ELSE [byId |-> Add(reg.byId, new.id),
              byRepo |-> Add(reg.byRepo, new.repo),
              byReal |-> Add(reg.byReal, new.real)]

(* Erase: only this layer's own entries, and no error without any.         *)
Erase(reg, l, old) ==
    [byId |-> reg.byId \ {<<old.id, l>>},
     byRepo |-> reg.byRepo \ {<<old.repo, l>>},
     byReal |-> reg.byReal \ {<<old.real, l>>}]

(* Sdf_ComputeFilePath: where an existing or a new asset is.               *)
ComputeFilePath(id) ==
    IF id \notin Ids THEN None
    ELSE IF resolve[id] # None THEN resolve[id] ELSE NewPath[id]

IsRepositoryPath(id) == \E i \in Ids : RepoPath[i] = id

(* Whom an index shows under a key: {None} for nobody. A handle whose layer *)
(* was destroyed has expired and counts for nothing.                       *)
Look(index, key) ==
    LET found == Entries(index, key)
        valid == {l \in found : life[l] \in {"live", "dying"}}
    IN  valid \cup (IF valid = found /\ found # {} THEN {} ELSE {None})

(* Find: the layers it may return, or None: by identifier, by repository   *)
(* path, by real path.                                                     *)
Find(reg, id, path) ==
    LET byId == IF id \in ContextDependent THEN {None} ELSE Look(reg.byId, id)
        byRepo == IF IsRepositoryPath(id) THEN Look(reg.byRepo, id) ELSE {None}
        byReal == Look(reg.byReal, IF path # None THEN path
                                   ELSE ComputeFilePath(id))
        Else(found, others) ==
            (found \ {None}) \cup (IF None \in found THEN others ELSE {})
    IN  Else(byId, IF id \in LayerObjects THEN {None} ELSE Else(byRepo, byReal))

-----------------------------------------------------------------------------
(* The registry mutex (tbb::queuing_rw_mutex, external).                   *)

Free == writer = None /\ readers = {}

(* A request that waits joins the queue, and is served from its head.      *)
Request(t) == queue' = Append(queue, t)
Served(t) == queue # <<>> /\ Head(queue) = t /\ queue' = Tail(queue)

Unlock(t) ==
    /\ readers' = readers \ {t}
    /\ writer' = IF writer = t THEN None ELSE writer
    /\ UNCHANGED queue

-----------------------------------------------------------------------------
(* Layers and references.                                                  *)

(* The references to l, one per caller that holds it and per running call. *)
Refs(l) == {<<t, "held">> : t \in {u \in Threads : l \in held[u]}}
             \cup {<<t, "cur">> : t \in {u \in Threads : cur[u] = l}}

(* The constructor, with the registry mutex held for writing.              *)
InfoOf(id, real) ==
    [id |-> id, repo |-> IF id \in Ids THEN RepoPath[id] ELSE None, real |-> real]

Construct(l, id, real) ==
    LET new == InfoOf(id, real)
    IN  /\ life[l] = "unborn"
        /\ life' = [life EXCEPT ![l] = "live"]
        /\ info' = [info EXCEPT ![l] = new]
        /\ registry' = Insert(registry, l, new)

(* The call of t returns, keeping no reference but what its caller gets.   *)
Return(t) ==
    /\ pc' = [pc EXCEPT ![t] = "idle"]
    /\ call' = [call EXCEPT ![t] = NoCall]
    /\ handle' = [handle EXCEPT ![t] = None]
    /\ cur' = [cur EXCEPT ![t] = None]

ReturnCurrent(t) ==
    /\ held' = [held EXCEPT ![t] = @ \cup {cur[t]}]
    /\ Return(t)
    /\ UNCHANGED <<mutexVars, life>>

(* The last reference went: t runs the destructor, which wants the mutex.  *)
StartDestroy(t, l) ==
    /\ life' = [life EXCEPT ![l] = "dying"]
    /\ pc' = [pc EXCEPT ![t] = "destroy"]
    /\ handle' = [handle EXCEPT ![t] = l]
    /\ Request(t)
    /\ UNCHANGED <<readers, writer>>

(* The call drops its reference to l, and goes on to next: the last one    *)
(* starts the destructor first.                                            *)
DropCurrentThen(t, next) ==
    LET l == cur[t] IN
    /\ IF Refs(l) = {<<t, "cur">>}
       THEN StartDestroy(t, l)
       ELSE /\ pc' = [pc EXCEPT ![t] = next]
            /\ handle' = [handle EXCEPT ![t] = None]
            /\ UNCHANGED <<mutexVars, life>>
    /\ cur' = [cur EXCEPT ![t] = None]
    /\ UNCHANGED held

DropCurrent(t) ==
    /\ DropCurrentThen(t, "idle")
    /\ call' = [call EXCEPT ![t] = NoCall]

(* A caller drops the layer it holds.                                      *)
Drop(t) == \E l \in held[t] :
    /\ pc[t] = "idle"
    /\ held' = [held EXCEPT ![t] = @ \ {l}]
    /\ IF Refs(l) = {<<t, "held">>}
       THEN StartDestroy(t, l)
       ELSE UNCHANGED <<mutexVars, life, pc, handle>>
    /\ UNCHANGED <<registry, resolve, updateVars, init, info, call, cur>>

(* What the destructor was called from goes on: a renaming, or nothing.    *)
AfterDestroy(t) ==
    IF call[t].op = "SetIdentifier"
    THEN /\ pc' = [pc EXCEPT ![t] = "rename"]
         /\ handle' = [handle EXCEPT ![t] = None]
         /\ UNCHANGED <<call, cur>>
    ELSE Return(t)

Gone(l) ==
    /\ life' = [life EXCEPT ![l] = "dead"]
    /\ init' = [init EXCEPT ![l] = "loading"]
    /\ info' = [info EXCEPT ![l] = NoInfo]

(* Faulty: the registry keeps what showed the layer.                       *)
DestroyWithoutErase(t) ==
    /\ pc[t] = "destroy"
    /\ Free /\ Served(t)
    /\ Gone(handle[t])
    /\ AfterDestroy(t)
    /\ UNCHANGED <<readers, writer, registry, resolve, updateVars, held>>

(* Faulty: erases without waiting for the lock.                            *)
DestroyUnlocked(t) ==
    /\ pc[t] = "destroy"
    /\ Served(t)
    /\ registry' = Erase(registry, handle[t], info[handle[t]])
    /\ Gone(handle[t])
    /\ AfterDestroy(t)
    /\ UNCHANGED <<readers, writer, resolve, updateVars, held>>

(* ~SdfLayer: under the write lock, out of the registry; then the object   *)
(* and its fields are gone.                                                *)
Destroy(t) ==
    /\ pc[t] = "destroy"
    /\ Free /\ Served(t)
    /\ registry' = Erase(registry, handle[t], info[handle[t]])
    /\ Gone(handle[t])
    /\ AfterDestroy(t)
    /\ UNCHANGED <<readers, writer, resolve, updateVars, held>>

-----------------------------------------------------------------------------
(* Finding.                                                                *)

(* FindOrOpen, Find and SetIdentifier first resolve the identifier, with   *)
(* no lock held.  SetIdentifier is called on a layer its caller holds.     *)
Begin(t, op, id, self) ==
    /\ op \in Calls
    /\ pc[t] = "idle"
    /\ call' = [call EXCEPT ![t] =
           [op |-> op, id |-> id, self |-> self,
            path |-> IF id \in Ids THEN resolve[id] ELSE None]]
    /\ pc' = [pc EXCEPT ![t] = "lockRead"]
    /\ Request(t)
    /\ UNCHANGED <<readers, writer, registry, resolve, updateVars, layerVars, held, handle, cur>>

BeginFind(t) == \E id \in Identifiers :
    Begin(t, "Find", id, None) \/ Begin(t, "FindOrOpen", id, None)

BeginSetIdentifier(t) == \E id \in Ids, l \in held[t] :
    Begin(t, "SetIdentifier", id, l)

LockRead(t) ==
    /\ pc[t] = "lockRead"
    /\ writer = None /\ Served(t)
    /\ readers' = readers \cup {t}
    /\ pc' = [pc EXCEPT ![t] = "find"]
    /\ UNCHANGED <<writer, registry, resolve, updateVars, layerVars, held, call, handle, cur>>

RetryAsWriter(t) == call[t].op # "Find"

FoundAny(t, l) ==
    /\ cur' = [cur EXCEPT ![t] = l]
    /\ call' = [call EXCEPT ![t] = [@ EXCEPT !.path = None]]
    /\ pc' = [pc EXCEPT ![t] = "wait"]
    /\ Unlock(t)
    /\ UNCHANGED <<registry, handle>>

(* _TryToFindLayer up to its first upgrade: the registry is searched and   *)
(* the ref-count incremented if it is not zero. The resolved path has been *)
(* used.                                                                   *)
FoundLive(t, l) ==
    /\ life[l] = "live"
    /\ cur' = [cur EXCEPT ![t] = l]
    /\ call' = [call EXCEPT ![t] = [@ EXCEPT !.path = None]]
    /\ pc' = [pc EXCEPT ![t] = "wait"]
    /\ Unlock(t)
    /\ UNCHANGED <<registry, handle>>

(* Neither case needs another upgrade once the write lock is held.         *)
FoundExpiring(t, l) ==
    /\ life[l] # "live"
    /\ IF writer = t
       THEN /\ registry' = Erase(registry, l, info[l])
            /\ pc' = [pc EXCEPT ![t] = "haveWrite"]
            /\ UNCHANGED handle
       ELSE /\ pc' = [pc EXCEPT ![t] = "upgrade"]
            /\ handle' = [handle EXCEPT ![t] = l]
            /\ UNCHANGED registry
    /\ UNCHANGED <<mutexVars, call, cur>>

FoundNothing(t) ==
    /\ IF RetryAsWriter(t)
       THEN /\ pc' = [pc EXCEPT ![t] = IF writer = t THEN "haveWrite"
                                                    ELSE "upgrade"]
            /\ UNCHANGED <<mutexVars, call, handle, cur>>
       ELSE Unlock(t) /\ Return(t)
    /\ UNCHANGED registry

TryToFindLayer(t) ==
    /\ pc[t] = "find"
    /\ \E l \in Find(registry, call[t].id, call[t].path) :
          IF l = None THEN FoundNothing(t)
          ELSE FoundLive(t, l) \/ FoundExpiring(t, l)
    /\ UNCHANGED <<resolve, updateVars, layerVars, held>>

(* upgrade_to_writer without releasing: the layer found is still there.    *)
UpgradeAtomically(t) ==
    /\ pc[t] = "upgrade"
    /\ readers = {t}
    /\ readers' = {} /\ writer' = t /\ UNCHANGED queue
    /\ registry' = IF handle[t] = None THEN registry
                   ELSE Erase(registry, handle[t], info[handle[t]])
    /\ pc' = [pc EXCEPT ![t] = "haveWrite"]
    /\ handle' = [handle EXCEPT ![t] = None]
    /\ UNCHANGED <<resolve, updateVars, layerVars, held, call, cur>>

(* upgrade_to_writer that lets go of the mutex: search again.              *)
UpgradeReleasing(t) ==
    /\ pc[t] = "upgrade"
    /\ readers' = readers \ {t} /\ Request(t)
    /\ pc' = [pc EXCEPT ![t] = "relock"]
    /\ handle' = [handle EXCEPT ![t] = None]
    /\ UNCHANGED <<writer, registry, resolve, updateVars, layerVars, held, call, cur>>

Relock(t) ==
    /\ pc[t] = "relock"
    /\ Free /\ Served(t)
    /\ writer' = t
    /\ pc' = [pc EXCEPT ![t] = "find"]
    /\ UNCHANGED <<readers, registry, resolve, updateVars, layerVars, held, call, handle, cur>>

(* Find erased an expiring layer: it releases the lock and returns null.   *)
FindFails(t) ==
    /\ pc[t] = "haveWrite"
    /\ call[t].op = "Find"
    /\ Unlock(t)
    /\ Return(t)
    /\ UNCHANGED <<registry, resolve, updateVars, layerVars, held>>

(* _WaitForInitializationAndCheckIfSuccessful, then what each caller does  *)
(* with the result.  The handle Find returns is not a reference.           *)
Wait(t, op) ==
    /\ pc[t] = "wait"
    /\ call[t].op = op
    /\ init[cur[t]] # "loading"

FindReturns(t) ==
    /\ Wait(t, "Find")
    /\ DropCurrent(t)
    /\ UNCHANGED <<registry, resolve, updateVars, init, info>>

FindOrOpenReturns(t) ==
    /\ Wait(t, "FindOrOpen")
    /\ IF init[cur[t]] = "ok" THEN ReturnCurrent(t) ELSE DropCurrent(t)
    /\ UNCHANGED <<registry, resolve, updateVars, init, info>>

-----------------------------------------------------------------------------
(* Opening and creating.                                                   *)

(* FindOrOpen without a layer, with the write lock: there is no asset, or  *)
(* no file format for it,                                                  *)
OpenNothing(t) ==
    /\ pc[t] = "haveWrite"
    /\ call[t].op = "FindOrOpen"
    /\ Unlock(t)
    /\ Return(t)
    /\ UNCHANGED <<registry, resolve, updateVars, layerVars, held>>

(* or _OpenLayerAndUnlockRegistry constructs the layer.                    *)
Open(t) == \E l \in LayerObjects :
    /\ pc[t] = "haveWrite"
    /\ call[t].op = "FindOrOpen"
    /\ call[t].path # None
    /\ Construct(l, call[t].id, call[t].path)
    /\ cur' = [cur EXCEPT ![t] = l]
    /\ call' = [call EXCEPT ![t] = [NoCall EXCEPT !.op = "FindOrOpen"]]
    /\ pc' = [pc EXCEPT ![t] = "opened"]
    /\ UNCHANGED <<mutexVars, resolve, updateVars, init, held, handle>>

(* The TF_VERIFY that the registry shows the layer, and the unlock.        *)
OpenUnlocks(t) ==
    /\ pc[t] = "opened"
    /\ Unlock(t)
    /\ pc' = [pc EXCEPT ![t] = "reading"]
    /\ UNCHANGED <<registry, resolve, updateVars, layerVars, held, call, handle, cur>>

(* _FinishInitialization.                                                  *)
FinishInitialization(l, success) ==
    init' = [init EXCEPT ![l] = IF success THEN "ok" ELSE "failed"]

(* _Read, or the _Save of CreateNew, and the end of the call.  FindOrOpen  *)
(* catches an exception without finishing the initialization, CreateNew    *)
(* lets it pass; OpenAsAnonymous finishes it.                              *)
ReadLayer(t) == \E outcome \in ReadOutcomes :
    /\ pc[t] = "reading"
    /\ IF outcome = "throw" /\ call[t].op # "OpenAsAnonymous"
       THEN UNCHANGED init
       ELSE FinishInitialization(cur[t], outcome = "ok")
    /\ IF outcome = "ok" THEN ReturnCurrent(t) ELSE DropCurrent(t)
    /\ UNCHANGED <<registry, resolve, updateVars, info>>

(* Constructing under the write lock, then reading or saving without it.   *)
ConstructAndUnlock(t, op, id, real) == \E l \in LayerObjects :
    /\ op \in Calls
    /\ pc[t] = "idle"
    /\ Free
    /\ Construct(l, IF id = None THEN l ELSE id, real)
    /\ cur' = [cur EXCEPT ![t] = l]
    /\ call' = [call EXCEPT ![t] = [NoCall EXCEPT !.op = op]]
    /\ pc' = [pc EXCEPT ![t] = "reading"]
    /\ UNCHANGED <<mutexVars, resolve, updateVars, init, held, handle>>

(* _CreateNew: not over a layer with that identifier, expiring or not.     *)
CreateNew(t) == \E id \in Ids :
    /\ Find(registry, id, None) = {None}
    /\ ConstructAndUnlock(t, "CreateNew", id, NewPath[id])

OpenAsAnonymous(t) == ConstructAndUnlock(t, "OpenAsAnonymous", None, None)

CreateAnonymous(t) == \E l \in LayerObjects :
    /\ "CreateAnonymous" \in Calls
    /\ pc[t] = "idle"
    /\ Free
    /\ Construct(l, l, None)
    /\ FinishInitialization(l, TRUE)
    /\ held' = [held EXCEPT ![t] = @ \cup {l}]
    /\ UNCHANGED <<mutexVars, resolve, updateVars, pc, call, handle, cur>>

-----------------------------------------------------------------------------
(* Renaming.  SetIdentifier and UpdateAssetInfo call                       *)
(* _InitializeFromIdentifier, which replaces the layer's asset info and    *)
(* updates the three indexes, one after the other, whether or not the      *)
(* mutex is held.                                                          *)

(* SetIdentifier found no layer, and goes on as the writer.                *)
SetIdentifierLocked(t) ==
    /\ pc[t] = "haveWrite"
    /\ call[t].op = "SetIdentifier"
    /\ pc' = [pc EXCEPT ![t] = "rename"]
    /\ UNCHANGED <<mutexVars, registry, resolve, updateVars, layerVars, held, call,
                   handle, cur>>

(* SetIdentifier found a layer, and the mutex was released.  One whose     *)
(* initialization failed is dropped.  Another good layer is an error, but  *)
(* not the layer itself.                                                   *)
SetIdentifierFound(t) ==
    /\ Wait(t, "SetIdentifier")
    /\ IF init[cur[t]] = "failed" THEN DropCurrentThen(t, "rename") /\ UNCHANGED call
       ELSE IF cur[t] # call[t].self THEN DropCurrent(t)
       ELSE /\ pc' = [pc EXCEPT ![t] = "rename"]
            /\ UNCHANGED <<mutexVars, life, held, call, handle, cur>>
    /\ UNCHANGED <<registry, resolve, updateVars, init, info>>

(* UpdateAssetInfo takes the mutex and resolves the identifier again.      *)
UpdateAssetInfo(t) == \E l \in held[t] :
    /\ "UpdateAssetInfo" \in Calls
    /\ pc[t] = "idle"
    /\ Free
    /\ writer' = t
    /\ call' = [call EXCEPT ![t] =
           [NoCall EXCEPT !.op = "UpdateAssetInfo", !.id = info[l].id, !.self = l]]
    /\ pc' = [pc EXCEPT ![t] = "rename"]
    /\ UNCHANGED <<readers, queue, registry, resolve, updateVars, layerVars, held,
                   handle, cur>>

EndRename(t) == Unlock(t) /\ Return(t)

Updating(t, l) == pc[t] \in UpdatePlaces /\ call[t].self = l

(* The new asset info is compared with the layer's and replaces it.        *)
SwapAssetInfo(t) ==
    LET l == call[t].self
        new == InfoOf(call[t].id, ComputeFilePath(call[t].id))
    IN  /\ pc[t] = "rename"
        /\ IF new = info[l]
           THEN EndRename(t) /\ UNCHANGED <<info, oldInfo, clashed>>
           ELSE /\ info' = [info EXCEPT ![l] = new]
                /\ oldInfo' = [oldInfo EXCEPT ![t] = info[l]]
                /\ clashed' = IF \E u \in Threads \ {t} : Updating(u, l)
                              THEN clashed \cup {l} ELSE clashed
                /\ pc' = [pc EXCEPT ![t] = "outReal"]
                /\ UNCHANGED <<mutexVars, call, handle, cur>>
        /\ UNCHANGED <<registry, resolve, life, init, held, newAliases>>

(* Update: for each index in which the name changes, the old entry goes    *)
(* and a new one comes.                                                    *)
EraseEntry(index, l, key) == index \ {<<key, l>>}
InsertEntry(index, l, key) == IF key = None THEN index ELSE index \cup {<<key, l>>}

UpdateFrame == UNCHANGED <<mutexVars, resolve, layerVars, held, call, handle, cur,
                           oldInfo, clashed>>

(* The indexes from the repository paths on that t has to update, if any.  *)
FromRepositoryPaths(t) == IF oldInfo[t].repo = newAliases'[t].repo
                          THEN "outId" ELSE "outRepo"

OutOfRealPaths(t) ==
    LET l == call[t].self
        same == oldInfo[t].real = info[l].real
    IN  /\ pc[t] = "outReal"
        /\ newAliases' = [newAliases EXCEPT ![t] = info[l]]
        /\ registry' = IF same THEN registry
                       ELSE [registry EXCEPT !.byReal = EraseEntry(@, l, oldInfo[t].real)]
        /\ pc' = [pc EXCEPT ![t] = IF same THEN FromRepositoryPaths(t) ELSE "inReal"]
        /\ UpdateFrame

(* A real path that is taken stays so: the layer leaves the other indexes. *)
IntoRealPaths(t) ==
    LET taken == Entries(registry.byReal, newAliases[t].real) # {}
    IN  /\ pc[t] = "inReal"
        /\ registry' = IF taken THEN registry
                       ELSE [registry EXCEPT
                               !.byReal = InsertEntry(@, call[t].self, newAliases[t].real)]
        /\ newAliases' = IF taken THEN [newAliases EXCEPT ![t] = NoInfo] ELSE newAliases
        /\ pc' = [pc EXCEPT ![t] = FromRepositoryPaths(t)]
        /\ UpdateFrame

OutOfRepositoryPaths(t) ==
    /\ pc[t] = "outRepo"
    /\ registry' = [registry EXCEPT
                      !.byRepo = EraseEntry(@, call[t].self, oldInfo[t].repo)]
    /\ pc' = [pc EXCEPT ![t] = IF newAliases[t].repo = None THEN "outId" ELSE "inRepo"]
    /\ UNCHANGED newAliases
    /\ UpdateFrame

IntoRepositoryPaths(t) ==
    /\ pc[t] = "inRepo"
    /\ registry' = [registry EXCEPT
                      !.byRepo = InsertEntry(@, call[t].self, newAliases[t].repo)]
    /\ pc' = [pc EXCEPT ![t] = "outId"]
    /\ UNCHANGED newAliases
    /\ UpdateFrame

(* The end of the update, and of the call.                                 *)
EndUpdate(t) ==
    /\ EndRename(t)
    /\ oldInfo' = [oldInfo EXCEPT ![t] = NoInfo]
    /\ newAliases' = [newAliases EXCEPT ![t] = NoInfo]
    /\ UNCHANGED <<resolve, layerVars, held, clashed>>

OutOfIdentifiers(t) ==
    /\ pc[t] = "outId"
    /\ oldInfo[t].id # newAliases[t].id
    /\ registry' = [registry EXCEPT !.byId = EraseEntry(@, call[t].self, oldInfo[t].id)]
    /\ pc' = [pc EXCEPT ![t] = "inId"]
    /\ UNCHANGED newAliases
    /\ UpdateFrame

IdentifierStays(t) ==
    /\ pc[t] = "outId"
    /\ oldInfo[t].id = newAliases[t].id
    /\ EndUpdate(t) /\ UNCHANGED registry

IntoIdentifiers(t) ==
    /\ pc[t] = "inId"
    /\ registry' = [registry EXCEPT !.byId = InsertEntry(@, call[t].self, newAliases[t].id)]
    /\ EndUpdate(t)

UpdateStep(t) ==
    \/ OutOfRealPaths(t) \/ IntoRealPaths(t)
    \/ OutOfRepositoryPaths(t) \/ IntoRepositoryPaths(t)
    \/ OutOfIdentifiers(t) \/ IdentifierStays(t) \/ IntoIdentifiers(t)

RenameStep(t) ==
    \/ SetIdentifierLocked(t) \/ SetIdentifierFound(t)
    \/ SwapAssetInfo(t) \/ UpdateStep(t)

(* The environment: files come and go, contexts change.                    *)
ResolverChanges ==
    /\ resolve' \in Resolutions \ {resolve}
    /\ UNCHANGED <<mutexVars, registry, layerVars, threadVars, clashed>>

-----------------------------------------------------------------------------

(* Steps of a running call that wait for nothing but the processor, and    *)
(* those that wait for the mutex.                                          *)
Continue(t) ==
    \/ TryToFindLayer(t) \/ UpgradeAtomically(t) \/ UpgradeReleasing(t)
    \/ FindFails(t) \/ OpenNothing(t) \/ Open(t) \/ OpenUnlocks(t)
    \/ ReadLayer(t)
    \/ FindReturns(t) \/ FindOrOpenReturns(t) \/ RenameStep(t)

LockMutex(t) == LockRead(t) \/ Relock(t) \/ Destroy(t)

CallStep(t) ==
    \/ BeginFind(t) \/ BeginSetIdentifier(t) \/ LockRead(t)
    \/ TryToFindLayer(t) \/ UpgradeAtomically(t) \/ UpgradeReleasing(t)
    \/ Relock(t) \/ FindFails(t) \/ FindReturns(t) \/ FindOrOpenReturns(t)
    \/ OpenNothing(t) \/ Open(t) \/ OpenUnlocks(t) \/ ReadLayer(t)
    \/ CreateNew(t) \/ OpenAsAnonymous(t) \/ CreateAnonymous(t)
    \/ UpdateAssetInfo(t) \/ RenameStep(t) \/ Drop(t) \/ Destroy(t)

Next == ResolverChanges \/ \E t \in Threads : CallStep(t)

Spec == Init /\ [][Next]_vars

(* Running calls take their steps, and who is next for the mutex gets it.  *)
Fairness == \A t \in Threads : WF_vars(Continue(t)) /\ WF_vars(LockMutex(t))

FairSpec == Spec /\ Fairness

-----------------------------------------------------------------------------
(* Properties.                                                             *)

Indexed(l) == \/ \E id \in Identifiers : <<id, l>> \in registry.byId
              \/ \E id \in Ids : <<id, l>> \in registry.byRepo
              \/ \E path \in RealPaths : <<path, l>> \in registry.byReal

(* l is in an index under its name, or under the one it had, if a thread   *)
(* has still to take that out of the index.                                *)
NamedRight(l) ==
    /\ \A id \in Identifiers : <<id, l>> \in registry.byId =>
          \/ id = info[l].id
          \/ \E t \in Threads : /\ Updating(t, l) /\ id = oldInfo[t].id
                             /\ pc[t] # "inId"
    /\ \A id \in Ids : <<id, l>> \in registry.byRepo =>
          \/ id = info[l].repo
          \/ \E t \in Threads : /\ Updating(t, l) /\ id = oldInfo[t].repo
                             /\ pc[t] \in {"outReal", "inReal", "outRepo"}
    /\ \A path \in RealPaths : <<path, l>> \in registry.byReal =>
          \/ path = info[l].real
          \/ \E t \in Threads : /\ Updating(t, l) /\ path = oldInfo[t].real
                             /\ pc[t] = "outReal"

(* The registry shows a layer under no other names than it has, and never  *)
(* once it is destroyed, whoever renames other layers, with or without the *)
(* mutex: "Found expired layer in registry" is never said, and the         *)
(* destructor finds every entry of its layer. While a thread renames it,   *)
(* it is under the old names in the indexes that are still to be updated.  *)
(* Layers renamed by two threads at once are excepted. A real path names   *)
(* at most one layer.                                                      *)
RegistryExact ==
    /\ \A l \in LayerObjects \ clashed :
          /\ Indexed(l) => life[l] \in {"live", "dying"}
          /\ NamedRight(l)
    /\ \A path \in RealPaths : \A l, m \in LayerObjects :
          {<<path, l>>, <<path, m>>} \subseteq registry.byReal => l = m

(* What a caller holds has been initialized, successfully and completely,  *)
(* whichever thread opened it.                                             *)
HeldIsInitialized ==
    \A t \in Threads : \A l \in held[t] : life[l] = "live" /\ init[l] = "ok"

(* The guarantee TfCreateRefPtrFromProtectedWeakPtr needs: the handle that *)
(* _TryToFindLayer goes on to dereference under the mutex names a layer    *)
(* that has not been destroyed.                                            *)
HandleIsProtected ==
    \A t \in Threads :
        pc[t] = "upgrade" /\ handle[t] # None => life[handle[t]] = "dying"

(* With a resolver that does not change, every layer but a failed one is   *)
(* the only one of its identifier, and every FindOrOpen of it that         *)
(* succeeds gets that layer.                                               *)
OneLayerPerIdentifier ==
    \A l, m \in LayerObjects :
        /\ life[l] = "live" /\ life[m] = "live" /\ info[l].id = info[m].id
        => l = m

(* A live layer leaves the identifiers only by its own renaming: the       *)
(* destructor or the renaming of another layer, or a thread that met       *)
(* another expiring layer, never takes it out.                             *)
LiveLayersStay ==
    [][\A l \in LayerObjects : \A id \in Identifiers :
          /\ <<id, l>> \in registry.byId /\ <<id, l>> \notin registry'.byId
          => life[l] = "dying" \/ \E t \in Threads : Updating(t, l)]_vars

(* Every call returns: nobody waits for ever for a layer somebody else     *)
(* opens, or for the mutex.                                                *)
CallsReturn == \A t \in Threads : pc[t] # "idle" ~> pc[t] = "idle"

-----------------------------------------------------------------------------
(* What comments of the code say, and the code does not keep.              *)

(* layer.cpp:2781, in SetIdentifier: "We should have acquired a write lock *)
(* on the layer registry by this point, so it's safe to call               *)
(* _InitializeFromIdentifier."  Whoever changes the registry is alone: the *)
(* only thread that may hold the mutex is the one that takes the step.     *)
(* _TryToFindLayer released the lock when it found a layer.                *)
RegistryChangedUnderLock ==
    [][registry' # registry =>
          \A t \in readers \cup ({writer} \ {None}) : pc'[t] # pc[t]]_vars

(* The same comment: what is safe leaves a layer that nobody renames any   *)
(* more under no names but its own.                                        *)
RenamesLeaveOwnNames ==
    \A l \in LayerObjects :
        (\A t \in Threads : ~Updating(t, l)) =>
            /\ \A id \in Identifiers : <<id, l>> \in registry.byId => id = info[l].id
            /\ \A id \in Ids : <<id, l>> \in registry.byRepo => id = info[l].repo
            /\ \A path \in RealPaths :
                  <<path, l>> \in registry.byReal => path = info[l].real

(* layer.cpp:3586: "From this point on, we need to be sure to call         *)
(* layer->_FinishInitialization() with either success or failure, in order *)
(* to unblock any other threads waiting for initialization to finish."     *)
(* FindOrOpen's handler for exceptions does not call it.                   *)
WaitersReturn == \A t \in Threads : pc[t] = "wait" ~> pc[t] # "wait"

(* layer.cpp:3580, in _OpenLayerAndUnlockRegistry: TF_VERIFY that the      *)
(* registry finds the layer just constructed, under its identifier and     *)
(* resolved path.                                                          *)
OpenedIsFound ==
    \A t \in Threads :
        pc[t] = "opened" =>
            Find(registry, info[cur[t]].id, info[cur[t]].real) = {cur[t]}

(* layerRegistry.h:59: GetLayers "Returns all valid layers held in the     *)
(* registry as a set."  It walks the identifier index: a live layer that   *)
(* Find returns by its real path is in it.                                 *)
GetLayersComplete ==
    \A l \in LayerObjects, path \in RealPaths :
        /\ <<path, l>> \in registry.byReal /\ life[l] = "live"
        => \E id \in Identifiers : <<id, l>> \in registry.byId

=============================================================================
