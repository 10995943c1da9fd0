--------------------------- MODULE SdfLayer_proofs ---------------------------
(***************************************************************************)
(* Proofs about layers, in two parts. The registry of layers, for any sets *)
(* of threads, layer objects, identifiers and paths, whatever the resolver *)
(* does and whichever calls are made: it is exact, what callers hold is    *)
(* initialized, and the handle that a thread dereferences under the mutex  *)
(* is protected by it. Edits and their notices, for any layers, paths,     *)
(* values, listeners and stages: change lists are right whichever edits    *)
(* were merged into them, the end of a block takes away inert specs only,  *)
(* and what a follower does not know is still coming to it.                *)
(***************************************************************************)
EXTENDS SdfLayerRegistry, SdfChangeManager, SequenceTheorems,
        FiniteSetTheorems, WellFoundedInduction, TLAPS

(* A thread at these places has the mutex, and one that is to upgrade has  *)
(* it as a reader.                                                         *)
MutexKept ==
    \A t \in Threads :
        /\ pc[t] = "find" => t \in readers \/ writer = t
        /\ pc[t] = "upgrade" => t \in readers

(* A reference, of a caller or of a running call, is to a live layer.      *)
RefsAreLive ==
    \A t \in Threads :
        /\ \A l \in held[t] : life[l] = "live"
        /\ cur[t] # None => life[cur[t]] = "live"
        /\ pc[t] \in {"opened", "reading", "wait"} => cur[t] # None

(* Each layer that is being destroyed has one destructor running.          *)
DestroyedOnce ==
    \A t \in Threads :
        pc[t] = "destroy" =>
            /\ handle[t] # None /\ life[handle[t]] = "dying"
            /\ \A u \in Threads :
                   pc[u] = "destroy" /\ handle[u] = handle[t] => u = t

(* One thread opens a layer, and until it finishes the layer is loading.   *)
Opening(t) == pc[t] \in {"opened", "reading"}
OpenedByOne ==
    /\ \A l \in LayerObjects : life[l] = "unborn" => init[l] = "loading"
    /\ \A t \in Threads :
           Opening(t) =>
               /\ init[cur[t]] = "loading"
               /\ \A u \in Threads : Opening(u) /\ cur[u] = cur[t] => u = t

(* Only a thread that is to upgrade or to destroy has a handle.            *)
HandlesAreUsed ==
    \A t \in Threads : handle[t] # None => pc[t] \in {"upgrade", "destroy"}

(* A layer that is being renamed is held by the caller of the renaming.    *)
Renaming == {"SetIdentifier", "UpdateAssetInfo"}
SelfIsHeld ==
    \A t \in Threads :
        /\ pc[t] = "idle" => call[t] = NoCall
        /\ call[t].op \in Renaming => call[t].self \in held[t]
        /\ pc[t] \in {"rename"} \cup UpdatePlaces => call[t].op \in Renaming

(* Who updates the registry for a layer that only it renames has the new   *)
(* names of the layer, or none after a real path was taken.                *)
UpdatesRight ==
    /\ \A l \in clashed : life[l] # "unborn"
    /\ \A l \in LayerObjects \ clashed : \A t \in Threads : Updating(t, l) =>
          /\ \A u \in Threads : Updating(u, l) => u = t
          /\ pc[t] # "outReal" => newAliases[t] \in {info[l], NoInfo}

RegInv ==
    /\ TypeOK
    /\ MutexKept /\ RefsAreLive /\ DestroyedOnce /\ OpenedByOne
    /\ HandlesAreUsed /\ SelfIsHeld /\ UpdatesRight
    /\ HeldIsInitialized /\ RegistryExact /\ HandleIsProtected

-----------------------------------------------------------------------------
(* The registry's operators                                                *)

Registries == [byId : SUBSET (Identifiers \X LayerObjects),
               byRepo : SUBSET (Ids \X LayerObjects),
               byReal : SUBSET (RealPaths \X LayerObjects)]

Shows(reg, l) == \/ \E id \in Identifiers : <<id, l>> \in reg.byId
                 \/ \E id \in Ids : <<id, l>> \in reg.byRepo
                 \/ \E path \in RealPaths : <<path, l>> \in reg.byReal

(* l is shown under no names but those of new.                             *)
Follows(reg, l, new) ==
    /\ \A id \in Identifiers : <<id, l>> \in reg.byId => id = new.id
    /\ \A id \in Ids : <<id, l>> \in reg.byRepo => id = new.repo
    /\ \A path \in RealPaths : <<path, l>> \in reg.byReal => path = new.real

OnePerPath(reg) ==
    \A path \in RealPaths, l, m \in LayerObjects :
        {<<path, l>>, <<path, m>>} \subseteq reg.byReal => l = m

(* Everything but the entries of l is as before.                           *)
SameButFor(reg, l, old) ==
    \A m \in LayerObjects \ {l} :
        /\ \A id \in Identifiers : <<id, m>> \in reg.byId <=> <<id, m>> \in old.byId
        /\ \A id \in Ids : <<id, m>> \in reg.byRepo <=> <<id, m>> \in old.byRepo
        /\ \A path \in RealPaths :
              <<path, m>> \in reg.byReal <=> <<path, m>> \in old.byReal

LEMMA ExactMeans ==
    RegistryExact <=>
        /\ OnePerPath(registry)
        /\ \A l \in LayerObjects \ clashed :
              NamedRight(l) /\ (Shows(registry, l) => life[l] \in {"live", "dying"})
BY DEF RegistryExact, OnePerPath, Shows, Indexed

LEMMA ExactMeansNext ==
    ASSUME OnePerPath(registry'),
           \A l \in LayerObjects \ clashed' :
              NamedRight(l)' /\ (Shows(registry', l) => life'[l] \in {"live", "dying"})
    PROVE  RegistryExact'
BY DEF RegistryExact, OnePerPath, Shows, Indexed

(* Erase takes out all entries of a layer whose names are known.           *)
LEMMA EraseErases ==
    ASSUME NEW reg \in Registries, NEW l \in LayerObjects, NEW old \in Infos
    PROVE  LET after == Erase(reg, l, old) IN
           /\ after \in Registries
           /\ SameButFor(after, l, reg)
           /\ \A new \in Infos : Follows(reg, l, new) => Follows(after, l, new)
           /\ Follows(reg, l, old) => ~Shows(after, l)
           /\ OnePerPath(reg) => OnePerPath(after)
<1> DEFINE after == Erase(reg, l, old)
<1>1. /\ after.byId = reg.byId \ {<<old.id, l>>}
      /\ after.byRepo = reg.byRepo \ {<<old.repo, l>>}
      /\ after.byReal = reg.byReal \ {<<old.real, l>>}
  BY DEF Erase
<1>2. after \in Registries
  BY DEF Erase, Registries
<1> HIDE DEF after
<1>3. SameButFor(after, l, reg)
  BY <1>1 DEF SameButFor
<1>4. ASSUME NEW new \in Infos, Follows(reg, l, new) PROVE Follows(after, l, new)
  BY <1>1, <1>4 DEF Follows
<1>5. ASSUME Follows(reg, l, old) PROVE ~Shows(after, l)
  BY <1>1, <1>5 DEF Follows, Shows
<1>6. ASSUME OnePerPath(reg) PROVE OnePerPath(after)
  BY <1>1, <1>6 DEF OnePerPath
<1> QED
  BY <1>2, <1>3, <1>4, <1>5, <1>6 DEF after

(* Insert shows a new layer under its names, or not at all.                *)
LEMMA InsertInserts ==
    ASSUME NEW reg \in Registries, NEW l \in LayerObjects, NEW new \in Infos,
           ~Shows(reg, l), OnePerPath(reg)
    PROVE  LET after == Insert(reg, l, new) IN
           /\ after \in Registries
           /\ SameButFor(after, l, reg)
           /\ Follows(after, l, new)
           /\ OnePerPath(after)
<1> DEFINE after == Insert(reg, l, new)
<1>1. CASE Entries(reg.byReal, new.real) # {}
  <2>1. after = reg
    BY <1>1 DEF Insert
  <2> QED
    BY <2>1 DEF SameButFor, Follows, Shows
<1>2. CASE Entries(reg.byReal, new.real) = {}
  <2>1. /\ after.byId = reg.byId \cup (IF new.id = None THEN {} ELSE {<<new.id, l>>})
        /\ after.byRepo = reg.byRepo
                             \cup (IF new.repo = None THEN {} ELSE {<<new.repo, l>>})
        /\ after.byReal = reg.byReal
                             \cup (IF new.real = None THEN {} ELSE {<<new.real, l>>})
        /\ after = [byId |-> after.byId, byRepo |-> after.byRepo,
                    byReal |-> after.byReal]
    BY <1>2 DEF Insert
  <2> HIDE DEF after
  <2>2. after \in Registries
    BY <2>1 DEF Registries, Infos
  <2>3. SameButFor(after, l, reg)
    BY <2>1 DEF SameButFor
  <2>4. Follows(after, l, new)
    BY <2>1 DEF Follows, Shows
  <2>5. OnePerPath(after)
    BY <1>2, <2>1 DEF OnePerPath, Entries
  <2> QED
    BY <2>2, <2>3, <2>4, <2>5 DEF after
<1> QED
  BY <1>1, <1>2

(* Update takes one layer out of an index, or puts one into it.            *)
LEMMA WithoutEntry ==
    ASSUME NEW reg \in Registries, NEW l \in LayerObjects, NEW key, NEW after,
           \/ after = [reg EXCEPT !.byReal = EraseEntry(@, l, key)]
           \/ after = [reg EXCEPT !.byRepo = EraseEntry(@, l, key)]
           \/ after = [reg EXCEPT !.byId = EraseEntry(@, l, key)]
    PROVE  /\ after \in Registries
           /\ SameButFor(after, l, reg)
           /\ OnePerPath(reg) => OnePerPath(after)
<1>1. CASE after = [reg EXCEPT !.byReal = EraseEntry(@, l, key)]
  BY <1>1 DEF Registries, SameButFor, OnePerPath, EraseEntry
<1>2. CASE after = [reg EXCEPT !.byRepo = EraseEntry(@, l, key)]
  BY <1>2 DEF Registries, SameButFor, OnePerPath, EraseEntry
<1>3. CASE after = [reg EXCEPT !.byId = EraseEntry(@, l, key)]
  BY <1>3 DEF Registries, SameButFor, OnePerPath, EraseEntry
<1> QED
  BY <1>1, <1>2, <1>3

LEMMA WithEntry ==
    ASSUME NEW reg \in Registries, NEW l \in LayerObjects, NEW new \in Infos, NEW after,
           \/ /\ after = [reg EXCEPT !.byReal = InsertEntry(@, l, new.real)]
              /\ Entries(reg.byReal, new.real) = {}
           \/ after = [reg EXCEPT !.byRepo = InsertEntry(@, l, new.repo)]
           \/ after = [reg EXCEPT !.byId = InsertEntry(@, l, new.id)]
    PROVE  /\ after \in Registries
           /\ SameButFor(after, l, reg)
           /\ OnePerPath(reg) => OnePerPath(after)
<1>1. CASE /\ after = [reg EXCEPT !.byReal = InsertEntry(@, l, new.real)]
           /\ Entries(reg.byReal, new.real) = {}
  BY <1>1 DEF Registries, Infos, SameButFor, OnePerPath, InsertEntry, Entries
<1>2. CASE after = [reg EXCEPT !.byRepo = InsertEntry(@, l, new.repo)]
  BY <1>2 DEF Registries, Infos, SameButFor, OnePerPath, InsertEntry
<1>3. CASE after = [reg EXCEPT !.byId = InsertEntry(@, l, new.id)]
  BY <1>3 DEF Registries, Infos, SameButFor, OnePerPath, InsertEntry
<1> QED
  BY <1>1, <1>2, <1>3

LEMMA OthersSame ==
    ASSUME NEW reg, NEW old, NEW l, SameButFor(reg, l, old), NEW m \in LayerObjects, m # l
    PROVE  /\ \A new : Follows(old, m, new) => Follows(reg, m, new)
           /\ Shows(reg, m) => Shows(old, m)
BY DEF SameButFor, Follows, Shows

-----------------------------------------------------------------------------
(* Types                                                                   *)

LEMMA RegistryTyped == TypeOK => registry \in Registries /\ info \in [LayerObjects -> Infos]
BY DEF TypeOK, Registries, Infos

LEMMA ComputedPath ==
    ASSUME TypeOK, NEW id PROVE ComputeFilePath(id) \in RealPaths \cup {None}
BY ResolverAssumption DEF TypeOK, ComputeFilePath

LEMMA InfoOfTyped ==
    ASSUME NEW id \in Identifiers \cup {None}, NEW real \in RealPaths \cup {None}
    PROVE  InfoOf(id, real) \in Infos
BY ResolverAssumption DEF InfoOf, Infos

LEMMA ConstructTyped ==
    ASSUME TypeOK, NEW l \in LayerObjects, NEW id \in Identifiers \cup {None},
           NEW real \in RealPaths \cup {None}, Construct(l, id, real),
           ~Shows(registry, l), OnePerPath(registry)
    PROVE  LET new == InfoOf(id, real) IN
           /\ new \in Infos
           /\ life[l] = "unborn" /\ life' = [life EXCEPT ![l] = "live"]
           /\ info' = [info EXCEPT ![l] = new] /\ info' \in [LayerObjects -> Infos]
           /\ registry' \in Registries
           /\ SameButFor(registry', l, registry)
           /\ Follows(registry', l, new)
           /\ OnePerPath(registry')
<1> DEFINE new == InfoOf(id, real)
<1>1. new \in Infos
  BY InfoOfTyped
<1>2. /\ info' = [info EXCEPT ![l] = new]
      /\ registry' = Insert(registry, l, new)
      /\ life[l] = "unborn" /\ life' = [life EXCEPT ![l] = "live"]
  BY DEF Construct
<1>3. registry \in Registries /\ info \in [LayerObjects -> Infos]
  BY RegistryTyped
<1> HIDE DEF new
<1> QED
  BY <1>1, <1>2, <1>3, InsertInserts DEF new

LEMMA OthersStay ==
    ASSUME TypeOK, NEW t \in Threads, CallStep(t), NEW u \in Threads, u # t
    PROVE  /\ pc'[u] = pc[u] /\ call'[u] = call[u] /\ handle'[u] = handle[u]
           /\ cur'[u] = cur[u] /\ held'[u] = held[u]
           /\ oldInfo'[u] = oldInfo[u] /\ newAliases'[u] = newAliases[u]
<1> DEFINE Stays == /\ pc'[u] = pc[u] /\ call'[u] = call[u] /\ handle'[u] = handle[u]
                    /\ cur'[u] = cur[u] /\ held'[u] = held[u]
                    /\ oldInfo'[u] = oldInfo[u] /\ newAliases'[u] = newAliases[u]
<1> USE DEF TypeOK, mutexVars, layerVars, threadVars, updateVars
<1>1. BeginFind(t) => Stays
  BY DEF BeginFind, Begin, Request
<1>2. BeginSetIdentifier(t) => Stays
  BY DEF BeginSetIdentifier, Begin, Request
<1>3. LockRead(t) => Stays
  BY DEF LockRead, Served
<1>4. TryToFindLayer(t) => Stays
  BY DEF TryToFindLayer, FoundNothing, FoundLive, FoundExpiring, Unlock, Return
<1>5. UpgradeAtomically(t) => Stays
  BY DEF UpgradeAtomically
<1>6. UpgradeReleasing(t) => Stays
  BY DEF UpgradeReleasing, Request
<1>7. Relock(t) => Stays
  BY DEF Relock, Served
<1>8. FindFails(t) => Stays
  BY DEF FindFails, Unlock, Return
<1>9. FindReturns(t) => Stays
  BY DEF FindReturns, Wait, DropCurrent, DropCurrentThen, StartDestroy, Request
<1>10. FindOrOpenReturns(t) => Stays
  BY DEF FindOrOpenReturns, Wait, ReturnCurrent, Return, DropCurrent, DropCurrentThen,
     StartDestroy, Request
<1>11. OpenNothing(t) => Stays
  BY DEF OpenNothing, Unlock, Return
<1>12. Open(t) => Stays
  BY DEF Open
<1>13. OpenUnlocks(t) => Stays
  BY DEF OpenUnlocks, Unlock
<1>14. ReadLayer(t) => Stays
  BY DEF ReadLayer, ReturnCurrent, Return, DropCurrent, DropCurrentThen, StartDestroy,
     Request
<1>15. CreateNew(t) => Stays
  BY DEF CreateNew, ConstructAndUnlock
<1>16. OpenAsAnonymous(t) => Stays
  BY DEF OpenAsAnonymous, ConstructAndUnlock
<1>17. CreateAnonymous(t) => Stays
  BY DEF CreateAnonymous
<1>18. SetIdentifierLocked(t) => Stays
  BY DEF SetIdentifierLocked
<1>19. SetIdentifierFound(t) => Stays
  BY DEF SetIdentifierFound, Wait, DropCurrent, DropCurrentThen, StartDestroy, Request
<1>20. UpdateAssetInfo(t) => Stays
  BY DEF UpdateAssetInfo
<1>21. Drop(t) => Stays
  BY DEF Drop, StartDestroy, Request
<1>22. Destroy(t) => Stays
  BY DEF Destroy, AfterDestroy, Served, Return
<1>23. SwapAssetInfo(t) => Stays
  BY DEF SwapAssetInfo, EndRename, Return
<1>24. UpdateStep(t) => Stays
  BY DEF UpdateStep, OutOfRealPaths, IntoRealPaths, OutOfRepositoryPaths,
     IntoRepositoryPaths, OutOfIdentifiers, IdentifierStays, IntoIdentifiers,
     EndUpdate, EndRename, Return, UpdateFrame
<1> QED
  BY <1>23, <1>24, <1>1, <1>2, <1>3, <1>4, <1>5, <1>6, <1>7, <1>8, <1>9, <1>10, <1>11,
     <1>12, <1>13, <1>14, <1>15, <1>16, <1>17, <1>18, <1>19, <1>20, <1>21, <1>22
     DEF CallStep, RenameStep

CallRecords == [op : AllCalls \cup {"none"}, id : Identifiers \cup {None},
                path : RealPaths \cup {None}, self : LayerObjects \cup {None}]

-----------------------------------------------------------------------------
(* What a step does to the registry and to the lives of layers             *)

LEMMA FoundIsShown ==
    ASSUME RegInv, NEW id, NEW path, NEW l \in Find(registry, id, path), l # None
    PROVE  l \in LayerObjects /\ life[l] \in {"live", "dying"}
<1>1. \E index, key : l \in Look(index, key) \ {None}
  BY DEF Find
<1> QED
  BY <1>1 DEF Look, Entries

(* A step of a renaming that has its new asset info.                       *)
Renames(t) == SwapAssetInfo(t) \/ UpdateStep(t)

Moves(t) == /\ UNCHANGED <<mutexVars, call, handle, cur>>
            /\ \E p \in UpdatePlaces : pc' = [pc EXCEPT ![t] = p]

LEMMA RenamingMoves ==
    ASSUME NEW t \in Threads, Renames(t)
    PROVE  /\ UNCHANGED <<resolve, life, init, held>>
           /\ Moves(t) \/ EndRename(t)
           /\ pc[t] \in {"rename"} \cup UpdatePlaces
<1>1. ASSUME SwapAssetInfo(t)
      PROVE  UNCHANGED <<resolve, life, init, held>> /\ (Moves(t) \/ EndRename(t))
  BY <1>1 DEF SwapAssetInfo, Moves, UpdatePlaces
<1>2. ASSUME UpdateStep(t)
      PROVE  UNCHANGED <<resolve, life, init, held>> /\ (Moves(t) \/ EndRename(t))
  BY <1>2 DEF UpdateStep, OutOfRealPaths, IntoRealPaths, OutOfRepositoryPaths,
     IntoRepositoryPaths, OutOfIdentifiers, IdentifierStays, IntoIdentifiers,
     EndUpdate, UpdateFrame, FromRepositoryPaths, Moves, UpdatePlaces, layerVars
<1>3. pc[t] \in {"rename"} \cup UpdatePlaces
  BY DEF Renames, SwapAssetInfo, UpdateStep, OutOfRealPaths, IntoRealPaths,
     OutOfRepositoryPaths, IntoRepositoryPaths, OutOfIdentifiers, IdentifierStays,
     IntoIdentifiers, UpdatePlaces
<1> QED
  BY <1>1, <1>2, <1>3 DEF Renames

LEMMA UpdatersStay ==
    ASSUME RegInv, NEW t \in Threads, CallStep(t), NEW u \in Threads, u # t, NEW l
    PROVE  /\ Updating(u, l)' <=> Updating(u, l)
           /\ oldInfo'[u] = oldInfo[u] /\ newAliases'[u] = newAliases[u]
           /\ pc'[u] = pc[u]
BY OthersStay DEF RegInv, Updating

(* A caller of these holds the layer it renames.                           *)
LEMMA SelfIsLive ==
    ASSUME RegInv, NEW t \in Threads, pc[t] \in {"rename"} \cup UpdatePlaces
    PROVE  /\ call[t].self \in LayerObjects /\ life[call[t].self] = "live"
           /\ call[t].self \in held[t]
           /\ call[t].id \in Identifiers \cup {None}
BY DEF RegInv, TypeOK, SelfIsHeld, RefsAreLive

LEMMA NotUpdating ==
    ASSUME RegInv, NEW l, life[l] # "live", NEW t \in Threads
    PROVE  ~Updating(t, l)
BY SelfIsLive DEF Updating

LEMMA StillFollows ==
    ASSUME RegInv, NEW l \in LayerObjects, l \notin clashed,
           \A t \in Threads : ~Updating(t, l)
    PROVE  Follows(registry, l, info[l])
BY ExactMeans DEF RegInv, NamedRight, Follows

(* The entries of l alone change.                                          *)
Reentered(l) ==
    /\ registry' \in Registries /\ info' \in [LayerObjects -> Infos]
    /\ SameButFor(registry', l, registry)
    /\ \A m \in LayerObjects \ {l} : info'[m] = info[m]
    /\ OnePerPath(registry')

LEMMA ErasedIsReentered ==
    ASSUME RegInv, NEW l \in LayerObjects, life[l] = "dying",
           registry' = Erase(registry, l, info[l]),
           info' = info \/ info' = [info EXCEPT ![l] = NoInfo]
    PROVE  Reentered(l) /\ (l \notin clashed => ~Shows(registry', l))
<1>1. /\ registry \in Registries /\ info \in [LayerObjects -> Infos]
      /\ OnePerPath(registry)
  BY RegistryTyped, ExactMeans DEF RegInv
<1>2. l \notin clashed => Follows(registry, l, info[l])
  BY StillFollows, NotUpdating
<1>3. NoInfo \in Infos
  BY DEF NoInfo, Infos
<1> QED
  BY <1>1, <1>2, <1>3, EraseErases DEF Reentered

LEMMA ConstructedIsReentered ==
    ASSUME RegInv, NEW l \in LayerObjects, NEW id \in Identifiers \cup {None},
           NEW real \in RealPaths \cup {None}, Construct(l, id, real)
    PROVE  /\ Reentered(l) /\ Follows(registry', l, info'[l])
           /\ life[l] = "unborn" /\ life' = [life EXCEPT ![l] = "live"]
<1>1. life[l] = "unborn"
  BY DEF Construct
<1>2. /\ info \in [LayerObjects -> Infos] /\ l \notin clashed
      /\ ~Shows(registry, l) /\ OnePerPath(registry)
  BY <1>1, RegistryTyped, ExactMeans DEF RegInv, UpdatesRight
<1> QED
  BY <1>2, ConstructTyped DEF Reentered, RegInv

Unregistered == UNCHANGED <<registry, info>>

(* A step that is not one of a renaming enters one layer anew at most: a   *)
(* new one, or one that is erased since it is dying.                       *)
LEMMA StepReenters ==
    ASSUME RegInv, NEW t \in Threads, CallStep(t), ~Renames(t)
    PROVE  \/ Unregistered
           \/ \E l \in LayerObjects :
                 /\ Reentered(l)
                 /\ \/ /\ life[l] = "unborn" /\ life'[l] = "live"
                       /\ Follows(registry', l, info'[l])
                    \/ life[l] = "dying" /\ (l \notin clashed => ~Shows(registry', l))
<1> DEFINE P == \E l \in LayerObjects :
                 /\ Reentered(l)
                 /\ \/ /\ life[l] = "unborn" /\ life'[l] = "live"
                       /\ Follows(registry', l, info'[l])
                    \/ life[l] = "dying" /\ (l \notin clashed => ~Shows(registry', l))
<1>t. TypeOK
  BY DEF RegInv
<1> USE DEF layerVars, mutexVars, threadVars
<1>1. \/ BeginFind(t) \/ BeginSetIdentifier(t) \/ LockRead(t) \/ UpgradeReleasing(t)
      \/ Relock(t) \/ FindFails(t) \/ FindReturns(t) \/ FindOrOpenReturns(t)
      \/ OpenNothing(t) \/ OpenUnlocks(t) \/ ReadLayer(t) \/ Drop(t)
      \/ SetIdentifierLocked(t) \/ SetIdentifierFound(t) \/ UpdateAssetInfo(t)
      => Unregistered
  BY DEF BeginFind, BeginSetIdentifier, Begin, LockRead, UpgradeReleasing, Relock,
         FindFails, FindReturns, FindOrOpenReturns, OpenNothing, OpenUnlocks,
         ReadLayer, Drop, SetIdentifierLocked, SetIdentifierFound, UpdateAssetInfo,
         Unregistered
<1>2. ASSUME TryToFindLayer(t) PROVE Unregistered \/ P
  <2>1. PICK l \in Find(registry, call[t].id, call[t].path) :
            IF l = None THEN FoundNothing(t) ELSE FoundLive(t, l) \/ FoundExpiring(t, l)
    BY <1>2 DEF TryToFindLayer
  <2>2. info' = info
    BY <1>2 DEF TryToFindLayer
  <2>3. CASE registry' = registry
    BY <2>2, <2>3 DEF Unregistered
  <2>4. CASE registry' # registry
    <3>1. l # None /\ registry' = Erase(registry, l, info[l]) /\ life[l] # "live"
      BY <2>1, <2>4 DEF FoundNothing, FoundLive, FoundExpiring
    <3>2. l \in LayerObjects /\ life[l] = "dying"
      BY <3>1, FoundIsShown
    <3> QED
      BY <2>2, <3>1, <3>2, ErasedIsReentered
  <2> QED
    BY <2>3, <2>4
<1>3. ASSUME UpgradeAtomically(t) PROVE Unregistered \/ P
  <2>1. info' = info /\ pc[t] = "upgrade"
    BY <1>3 DEF UpgradeAtomically
  <2>2. CASE handle[t] = None
    BY <1>3, <2>2 DEF UpgradeAtomically, Unregistered
  <2>3. CASE handle[t] # None
    <3>1. handle[t] \in LayerObjects /\ life[handle[t]] = "dying"
      BY <2>1, <2>3, <1>t DEF RegInv, HandleIsProtected, TypeOK
    <3>2. registry' = Erase(registry, handle[t], info[handle[t]])
      BY <1>3, <2>3 DEF UpgradeAtomically
    <3> QED
      BY <2>1, <3>1, <3>2, ErasedIsReentered
  <2> QED
    BY <2>2, <2>3
<1>4. ASSUME Destroy(t) PROVE P
  <2>1. /\ pc[t] = "destroy" /\ info' = [info EXCEPT ![handle[t]] = NoInfo]
        /\ registry' = Erase(registry, handle[t], info[handle[t]])
    BY <1>4 DEF Destroy, Gone
  <2>2. handle[t] \in LayerObjects /\ life[handle[t]] = "dying"
    BY <2>1, <1>t DEF RegInv, DestroyedOnce, TypeOK
  <2> QED
    BY <2>1, <2>2, ErasedIsReentered
<1>5. ASSUME NEW l \in LayerObjects, NEW id \in Identifiers \cup {None},
             NEW real \in RealPaths \cup {None}, Construct(l, id, real)
      PROVE  P
  <2>1. /\ Reentered(l) /\ Follows(registry', l, info'[l])
        /\ life[l] = "unborn" /\ life' = [life EXCEPT ![l] = "live"]
    BY <1>5, ConstructedIsReentered
  <2>2. life'[l] = "live"
    BY <2>1, <1>t DEF TypeOK
  <2> QED
    BY <2>1, <2>2
<1>6. ASSUME Open(t) PROVE P
  <2>1. PICK l \in LayerObjects : Construct(l, call[t].id, call[t].path)
    BY <1>6 DEF Open
  <2> QED
    BY <2>1, <1>5, <1>t DEF TypeOK
<1>7. ASSUME NEW op, NEW id \in Ids \cup {None}, NEW real \in RealPaths \cup {None},
             ConstructAndUnlock(t, op, id, real)
      PROVE  P
  <2>1. PICK l \in LayerObjects : Construct(l, IF id = None THEN l ELSE id, real)
    BY <1>7 DEF ConstructAndUnlock
  <2> QED
    BY <2>1, <1>5 DEF Identifiers
<1>8. CreateNew(t) \/ OpenAsAnonymous(t) => P
  BY <1>7, ResolverAssumption DEF CreateNew, OpenAsAnonymous
<1>9. ASSUME CreateAnonymous(t) PROVE P
  <2>1. PICK l \in LayerObjects : Construct(l, l, None)
    BY <1>9 DEF CreateAnonymous
  <2> QED
    BY <2>1, <1>5 DEF Identifiers
<1> HIDE DEF P
<1> QED
  BY <1>1, <1>2, <1>3, <1>4, <1>6, <1>8, <1>9 DEF CallStep, RenameStep, Renames, P

LEMMA OnlyRenamesClash ==
    ASSUME NEW t \in Threads, CallStep(t), ~SwapAssetInfo(t)
    PROVE  clashed' = clashed
BY DEF CallStep, RenameStep, BeginFind, BeginSetIdentifier, Begin, LockRead,
   TryToFindLayer, UpgradeAtomically, UpgradeReleasing, Relock, FindFails, FindReturns,
   FindOrOpenReturns, OpenNothing, Open, OpenUnlocks, ReadLayer, CreateNew,
   OpenAsAnonymous, ConstructAndUnlock, CreateAnonymous, SetIdentifierLocked,
   SetIdentifierFound, UpdateAssetInfo, Drop, Destroy, UpdateStep, OutOfRealPaths,
   IntoRealPaths, OutOfRepositoryPaths, IntoRepositoryPaths, OutOfIdentifiers,
   IdentifierStays, IntoIdentifiers, EndUpdate, UpdateFrame, updateVars

-----------------------------------------------------------------------------
(* Renaming                                                                *)

(* NamedRight for the one thread that updates the registry for l.          *)
RightFor(reg, l, new, old, place) ==
    /\ \A id \in Identifiers : <<id, l>> \in reg.byId =>
          id = new.id \/ (id = old.id /\ place \in UpdatePlaces \ {"inId"})
    /\ \A id \in Ids : <<id, l>> \in reg.byRepo =>
          id = new.repo \/ (id = old.repo /\ place \in {"outReal", "inReal", "outRepo"})
    /\ \A path \in RealPaths : <<path, l>> \in reg.byReal =>
          path = new.real \/ (path = old.real /\ place = "outReal")

LEMMA AloneMeans ==
    ASSUME RegInv, NEW l \in LayerObjects, l \notin clashed,
           NEW t \in Threads, Updating(t, l)
    PROVE  RightFor(registry, l, info[l], oldInfo[t], pc[t])
<1>1. NamedRight(l) /\ \A u \in Threads : Updating(u, l) => u = t
  BY ExactMeans DEF RegInv, UpdatesRight
<1> QED
  BY <1>1 DEF NamedRight, RightFor, Updating

LEMMA AloneMeansNext ==
    ASSUME NEW l, NEW t \in Threads,
           RightFor(registry', l, info'[l], oldInfo'[t], pc'[t]),
           pc'[t] \in UpdatePlaces => Updating(t, l)'
    PROVE  NamedRight(l)'
BY DEF NamedRight, RightFor, UpdatePlaces

(* What the steps of an update of l do, if t is alone.                     *)
LEMMA UpdateMoves ==
    ASSUME RegInv, NEW t \in Threads, UpdateStep(t)
    PROVE  LET l == call[t].self IN
           /\ Reentered(l) /\ info' = info /\ clashed' = clashed
           /\ l \notin clashed =>
                 /\ RightFor(registry', l, info'[l], oldInfo'[t], pc'[t])
                 /\ pc'[t] \in UpdatePlaces => newAliases'[t] \in {info[l], NoInfo}
<1> DEFINE l == call[t].self
           Right == /\ RightFor(registry', l, info'[l], oldInfo'[t], pc'[t])
                    /\ pc'[t] \in UpdatePlaces => newAliases'[t] \in {info[l], NoInfo}
           Result == /\ Reentered(l) /\ info' = info /\ clashed' = clashed
                     /\ l \notin clashed => Right
<1>t. /\ pc \in [Threads -> PCs] /\ oldInfo \in [Threads -> Infos]
      /\ newAliases \in [Threads -> Infos] /\ info \in [LayerObjects -> Infos]
      /\ registry \in Registries /\ OnePerPath(registry)
  BY RegistryTyped, ExactMeans DEF RegInv, TypeOK
<1>u. pc[t] \in UpdatePlaces
  BY DEF UpdateStep, OutOfRealPaths, IntoRealPaths, OutOfRepositoryPaths,
     IntoRepositoryPaths, OutOfIdentifiers, IdentifierStays, IntoIdentifiers,
     UpdatePlaces
<1>l. l \in LayerObjects /\ Updating(t, l)
  BY <1>u, SelfIsLive DEF Updating
<1>r. l \notin clashed =>
        /\ RightFor(registry, l, info[l], oldInfo[t], pc[t])
        /\ pc[t] # "outReal" => newAliases[t] \in {info[l], NoInfo}
  BY <1>l, AloneMeans DEF RegInv, UpdatesRight
<1>n. /\ None \notin Ids /\ None \notin RealPaths /\ None \notin Identifiers
      /\ NoInfo.id = None /\ NoInfo.repo = None /\ NoInfo.real = None
  BY NoneAssumption DEF Identifiers, NoInfo
<1> HIDE DEF l
<1>x. ASSUME info' = info, clashed' = clashed,
             \/ registry' = registry
             \/ /\ registry' \in Registries /\ SameButFor(registry', l, registry)
                /\ OnePerPath(registry'),
             l \notin clashed => Right
      PROVE  Result
  BY <1>x, <1>t DEF Reentered, SameButFor
<1>1. ASSUME OutOfRealPaths(t) PROVE Result
  <2>1. /\ pc[t] = "outReal" /\ newAliases'[t] = info[l]
        /\ info' = info /\ clashed' = clashed /\ oldInfo' = oldInfo
        /\ \/ /\ registry' = registry /\ oldInfo[t].real = info[l].real
              /\ \/ pc'[t] = "outRepo"
                 \/ pc'[t] = "outId" /\ oldInfo[t].repo = info[l].repo
           \/ /\ registry' = [registry EXCEPT !.byReal = EraseEntry(@, l, oldInfo[t].real)]
              /\ pc'[t] = "inReal"
    BY <1>1, <1>t DEF OutOfRealPaths, UpdateFrame, FromRepositoryPaths, l, layerVars
  <2>2. \/ registry' = registry
        \/ /\ registry' \in Registries /\ SameButFor(registry', l, registry)
           /\ OnePerPath(registry')
    BY <2>1, <1>l, <1>t, WithoutEntry
  <2>3. ASSUME l \notin clashed PROVE Right
    BY <2>1, <2>3, <1>r, <1>t DEF RightFor, EraseEntry, Registries, UpdatePlaces
  <2> QED
    BY <1>x, <2>1, <2>2, <2>3
<1>2. ASSUME IntoRealPaths(t) PROVE Result
  <2>1. /\ pc[t] = "inReal" /\ newAliases'[t] \in {newAliases[t], NoInfo}
        /\ info' = info /\ clashed' = clashed /\ oldInfo' = oldInfo
        /\ \/ registry' = registry
           \/ /\ registry' = [registry EXCEPT !.byReal = InsertEntry(@, l, newAliases[t].real)]
              /\ Entries(registry.byReal, newAliases[t].real) = {}
        /\ \/ pc'[t] = "outRepo"
           \/ pc'[t] = "outId" /\ oldInfo[t].repo = newAliases'[t].repo
    BY <1>2, <1>t DEF IntoRealPaths, UpdateFrame, FromRepositoryPaths, l, layerVars
  <2>2. \/ registry' = registry
        \/ /\ registry' \in Registries /\ SameButFor(registry', l, registry)
           /\ OnePerPath(registry')
    BY <2>1, <1>l, <1>t, WithEntry
  <2>3. ASSUME l \notin clashed PROVE Right
    BY <2>1, <2>3, <1>r, <1>t, <1>n DEF RightFor, InsertEntry, Registries, UpdatePlaces
  <2> QED
    BY <1>x, <2>1, <2>2, <2>3
<1>3. ASSUME OutOfRepositoryPaths(t) PROVE Result
  <2>1. /\ pc[t] = "outRepo" /\ newAliases' = newAliases
        /\ info' = info /\ clashed' = clashed /\ oldInfo' = oldInfo
        /\ registry' = [registry EXCEPT !.byRepo = EraseEntry(@, l, oldInfo[t].repo)]
        /\ pc'[t] \in {"outId", "inRepo"}
    BY <1>3, <1>t DEF OutOfRepositoryPaths, UpdateFrame, l, layerVars
  <2>2. /\ registry' \in Registries /\ SameButFor(registry', l, registry)
        /\ OnePerPath(registry')
    BY <2>1, <1>l, <1>t, WithoutEntry
  <2>3. ASSUME l \notin clashed PROVE Right
    BY <2>1, <2>3, <1>r, <1>t DEF RightFor, EraseEntry, Registries, UpdatePlaces
  <2> QED
    BY <1>x, <2>1, <2>2, <2>3
<1>4. ASSUME IntoRepositoryPaths(t) PROVE Result
  <2>1. /\ pc[t] = "inRepo" /\ newAliases' = newAliases
        /\ info' = info /\ clashed' = clashed /\ oldInfo' = oldInfo
        /\ registry' = [registry EXCEPT !.byRepo = InsertEntry(@, l, newAliases[t].repo)]
        /\ pc'[t] = "outId"
    BY <1>4, <1>t DEF IntoRepositoryPaths, UpdateFrame, l, layerVars
  <2>2. /\ registry' \in Registries /\ SameButFor(registry', l, registry)
        /\ OnePerPath(registry')
    BY <2>1, <1>l, <1>t, WithEntry
  <2>3. ASSUME l \notin clashed PROVE Right
    BY <2>1, <2>3, <1>r, <1>t, <1>n DEF RightFor, InsertEntry, Registries, UpdatePlaces
  <2> QED
    BY <1>x, <2>1, <2>2, <2>3
<1>5. ASSUME OutOfIdentifiers(t) PROVE Result
  <2>1. /\ pc[t] = "outId" /\ newAliases' = newAliases
        /\ info' = info /\ clashed' = clashed /\ oldInfo' = oldInfo
        /\ registry' = [registry EXCEPT !.byId = EraseEntry(@, l, oldInfo[t].id)]
        /\ pc'[t] = "inId"
    BY <1>5, <1>t DEF OutOfIdentifiers, UpdateFrame, l, layerVars
  <2>2. /\ registry' \in Registries /\ SameButFor(registry', l, registry)
        /\ OnePerPath(registry')
    BY <2>1, <1>l, <1>t, WithoutEntry
  <2>3. ASSUME l \notin clashed PROVE Right
    BY <2>1, <2>3, <1>r, <1>t DEF RightFor, EraseEntry, Registries, UpdatePlaces
  <2> QED
    BY <1>x, <2>1, <2>2, <2>3
<1>6. ASSUME IdentifierStays(t) PROVE Result
  <2>1. /\ pc[t] = "outId" /\ oldInfo[t].id = newAliases[t].id
        /\ info' = info /\ clashed' = clashed /\ registry' = registry
        /\ pc'[t] = "idle"
    BY <1>6, <1>t DEF IdentifierStays, EndUpdate, EndRename, Return, layerVars
  <2>2. ASSUME l \notin clashed PROVE Right
    BY <2>1, <2>2, <1>r, <1>t, <1>n DEF RightFor, UpdatePlaces
  <2> QED
    BY <1>x, <2>1, <2>2
<1>7. ASSUME IntoIdentifiers(t) PROVE Result
  <2>1. /\ pc[t] = "inId"
        /\ info' = info /\ clashed' = clashed
        /\ registry' = [registry EXCEPT !.byId = InsertEntry(@, l, newAliases[t].id)]
        /\ pc'[t] = "idle"
    BY <1>7, <1>t DEF IntoIdentifiers, EndUpdate, EndRename, Return, l, layerVars
  <2>2. /\ registry' \in Registries /\ SameButFor(registry', l, registry)
        /\ OnePerPath(registry')
    BY <2>1, <1>l, <1>t, WithEntry
  <2>3. ASSUME l \notin clashed PROVE Right
    BY <2>1, <2>3, <1>r, <1>t, <1>n DEF RightFor, InsertEntry, Registries, UpdatePlaces
  <2> QED
    BY <1>x, <2>1, <2>2, <2>3
<1> HIDE DEF Right
<1>8. Result
  BY <1>1, <1>2, <1>3, <1>4, <1>5, <1>6, <1>7 DEF UpdateStep
<1> QED
  BY <1>8 DEF Right, l

(* The layer has its new asset info, and is still under the old names.     *)
LEMMA SwapMoves ==
    ASSUME RegInv, NEW t \in Threads, CallStep(t), SwapAssetInfo(t),
           NEW l, l = call[t].self
    PROVE  /\ Reentered(l) /\ registry' = registry
           /\ clashed \subseteq clashed' /\ clashed' \subseteq clashed \cup {l}
           /\ l \notin clashed' =>
                 /\ NamedRight(l)'
                 /\ pc'[t] \in UpdatePlaces =>
                       /\ pc'[t] = "outReal"
                       /\ \A u \in Threads : Updating(u, l)' => u = t
<1> DEFINE new == InfoOf(call[t].id, ComputeFilePath(call[t].id))
<1>t. /\ pc \in [Threads -> PCs] /\ oldInfo \in [Threads -> Infos]
      /\ info \in [LayerObjects -> Infos] /\ call \in [Threads -> CallRecords]
      /\ registry \in Registries /\ OnePerPath(registry)
  BY RegistryTyped, ExactMeans DEF RegInv, TypeOK, CallRecords
<1>1. pc[t] = "rename" /\ registry' = registry
  BY DEF SwapAssetInfo
<1>l. l \in LayerObjects /\ call[t].id \in Identifiers \cup {None}
  BY <1>1, SelfIsLive
<1>i. new \in Infos
  BY <1>l, ComputedPath, InfoOfTyped DEF RegInv
<1>u. ~Updating(t, l)
  BY <1>1 DEF Updating, UpdatePlaces
<1>x. ASSUME NEW u \in Threads, u # t
      PROVE  Updating(u, l)' <=> Updating(u, l)
  BY <1>x, UpdatersStay
<1> HIDE DEF new
<1>2. CASE new = info[l]
  <2>1. info' = info /\ clashed' = clashed /\ pc'[t] = "idle"
    BY <1>2, <1>t DEF SwapAssetInfo, EndRename, Return, new
  <2>2. Reentered(l)
    BY <1>1, <1>t, <2>1 DEF Reentered, SameButFor
  <2>3. ASSUME l \notin clashed PROVE NamedRight(l)'
    <3>1. NamedRight(l)
      BY <2>3, <1>l, ExactMeans DEF RegInv
    <3>2. ASSUME NEW u \in Threads, Updating(u, l)
          PROVE  Updating(u, l)' /\ oldInfo'[u] = oldInfo[u] /\ pc'[u] = pc[u]
      BY <3>2, <1>u, UpdatersStay
    <3> QED
      BY <1>1, <2>1, <3>1, <3>2 DEF NamedRight
  <2> QED
    BY <1>1, <2>1, <2>2, <2>3 DEF UpdatePlaces
<1>3. CASE new # info[l]
  <2>1. /\ info' = [info EXCEPT ![l] = new] /\ oldInfo'[t] = info[l]
        /\ pc'[t] = "outReal" /\ call' = call
        /\ clashed' = IF \E u \in Threads \ {t} : Updating(u, l)
                      THEN clashed \cup {l} ELSE clashed
    BY <1>3, <1>t DEF SwapAssetInfo, new
  <2>2. Reentered(l)
    BY <1>1, <1>t, <1>i, <1>l, <2>1 DEF Reentered, SameButFor
  <2>3. ASSUME l \notin clashed'
        PROVE  NamedRight(l)' /\ \A u \in Threads : Updating(u, l)' => u = t
    <3>1. \A u \in Threads : ~Updating(u, l)
      BY <2>1, <2>3, <1>u
    <3>2. Follows(registry, l, info[l])
      BY <2>1, <2>3, <3>1, <1>l, StillFollows
    <3>3. RightFor(registry', l, info'[l], oldInfo'[t], pc'[t])
      BY <1>1, <2>1, <3>2 DEF Follows, RightFor, UpdatePlaces
    <3>4. Updating(t, l)'
      BY <2>1 DEF Updating, UpdatePlaces
    <3> QED
      BY <3>1, <3>3, <3>4, <1>x, AloneMeansNext
  <2> QED
    BY <1>1, <2>1, <2>2, <2>3
<1> QED
  BY <1>2, <1>3

LEMMA TypedPlaces ==
    RegInv => pc \in [Threads -> PCs] /\ call \in [Threads -> CallRecords]
BY DEF RegInv, TypeOK, CallRecords

LEMMA UpdateStepUpdates ==
    ASSUME NEW t \in Threads, UpdateStep(t)
    PROVE  Updating(t, call[t].self)
BY DEF UpdateStep, OutOfRealPaths, IntoRealPaths, OutOfRepositoryPaths,
   IntoRepositoryPaths, OutOfIdentifiers, IdentifierStays, IntoIdentifiers,
   Updating, UpdatePlaces

(* At these places a thread does nothing else, and gets there no other way. *)
LEMMA UpdatingUpdates ==
    ASSUME NEW t \in Threads, CallStep(t), NEW l, Updating(t, l)
    PROVE  Renames(t)
BY DEF Updating, UpdatePlaces, CallStep, RenameStep, Renames, BeginFind,
   BeginSetIdentifier, Begin, LockRead, TryToFindLayer, UpgradeAtomically,
   UpgradeReleasing, Relock, FindFails, FindReturns, FindOrOpenReturns, Wait,
   OpenNothing, Open, OpenUnlocks, ReadLayer, CreateNew, OpenAsAnonymous,
   ConstructAndUnlock, CreateAnonymous, SetIdentifierLocked, SetIdentifierFound,
   UpdateAssetInfo, Drop, Destroy

LEMMA UpdatingUpdatesNext ==
    ASSUME RegInv, NEW t \in Threads, CallStep(t), NEW l, Updating(t, l)'
    PROVE  Renames(t)
<1>t. pc \in [Threads -> PCs]
  BY TypedPlaces
<1>p. pc'[t] \in UpdatePlaces
  BY DEF Updating
<1> USE DEF UpdatePlaces, threadVars
<1>1. ~(BeginFind(t) \/ BeginSetIdentifier(t) \/ LockRead(t) \/ UpgradeReleasing(t)
        \/ Relock(t) \/ FindFails(t) \/ OpenNothing(t) \/ SetIdentifierLocked(t)
        \/ UpdateAssetInfo(t) \/ Destroy(t) \/ UpgradeAtomically(t) \/ Drop(t)
        \/ CreateAnonymous(t) \/ Open(t) \/ OpenUnlocks(t) \/ CreateNew(t)
        \/ OpenAsAnonymous(t))
  BY <1>t, <1>p DEF BeginFind, BeginSetIdentifier, Begin, LockRead, UpgradeReleasing,
     Relock, FindFails, OpenNothing, SetIdentifierLocked, UpdateAssetInfo, Destroy,
     AfterDestroy, UpgradeAtomically, Drop, StartDestroy, CreateAnonymous, Return,
     Open, OpenUnlocks, CreateNew, OpenAsAnonymous, ConstructAndUnlock
<1>2. ~TryToFindLayer(t)
  <2> SUFFICES ASSUME TryToFindLayer(t) PROVE FALSE
    OBVIOUS
  <2>1. \E m : FoundNothing(t) \/ FoundLive(t, m) \/ FoundExpiring(t, m)
    BY DEF TryToFindLayer
  <2> QED
    BY <1>t, <1>p, <2>1 DEF TryToFindLayer, FoundNothing, FoundLive, FoundExpiring,
       Return
<1>3. ~(ReturnCurrent(t) \/ DropCurrent(t) \/ DropCurrentThen(t, "rename"))
  BY <1>t, <1>p DEF ReturnCurrent, Return, DropCurrent, DropCurrentThen, StartDestroy
<1>4. ~(FindReturns(t) \/ FindOrOpenReturns(t) \/ SetIdentifierFound(t) \/ ReadLayer(t))
  BY <1>t, <1>p, <1>3 DEF FindReturns, FindOrOpenReturns, SetIdentifierFound, ReadLayer
<1> QED
  BY <1>1, <1>2, <1>4 DEF CallStep, RenameStep, Renames

LEMMA DestroyErases ==
    ASSUME RegInv, NEW t \in Threads, Destroy(t), handle[t] \notin clashed
    PROVE  ~Shows(registry', handle[t])
<1>1. handle[t] \in LayerObjects /\ life[handle[t]] = "dying"
  BY DEF RegInv, TypeOK, DestroyedOnce, Destroy
<1>2. /\ registry' = Erase(registry, handle[t], info[handle[t]])
      /\ info' = [info EXCEPT ![handle[t]] = NoInfo]
  BY DEF Destroy, Gone
<1> QED
  BY <1>1, <1>2, ErasedIsReentered

-----------------------------------------------------------------------------
(* References and lives                                                    *)

Unreferenced(l) == \A u \in Threads : l \notin held[u] /\ cur[u] # l

(* The step of t takes the last reference to l.                            *)
Drops(t, l) ==
    /\ life[l] = "live" /\ life' = [life EXCEPT ![l] = "dying"]
    /\ pc'[t] = "destroy" /\ handle'[t] = l
    /\ Unreferenced(l)'

Lives(t) ==
    \/ life' = life /\ pc'[t] # "destroy"
    \/ \E l \in LayerObjects :
           /\ life[l] = "unborn" /\ life' = [life EXCEPT ![l] = "live"]
           /\ pc'[t] # "destroy"
    \/ \E l \in LayerObjects : Drops(t, l)
    \/ Destroy(t)

LEMMA RefsAre ==
    ASSUME NEW l, NEW u \in Threads
    PROVE  /\ <<u, "held">> \in Refs(l) <=> l \in held[u]
           /\ <<u, "cur">> \in Refs(l) <=> cur[u] = l
BY DEF Refs

LEMMA CurrentDropped ==
    ASSUME RegInv, NEW t \in Threads, cur[t] # None,
           \/ DropCurrentThen(t, "idle")
           \/ DropCurrentThen(t, "rename")
    PROVE  Lives(t)
<1>1. PICK l \in LayerObjects : l = cur[t]
  BY DEF RegInv, TypeOK
<1>2. /\ life[l] = "live" /\ held' = held
      /\ cur' = [cur EXCEPT ![t] = None] /\ l # None
      /\ cur \in [Threads -> LayerObjects \cup {None}]
      /\ pc \in [Threads -> PCs] /\ handle \in [Threads -> LayerObjects \cup {None}]
  BY <1>1 DEF RegInv, TypeOK, RefsAreLive, DropCurrentThen
<1>3. CASE Refs(l) = {<<t, "cur">>}
  <2>1. \A u \in Threads : l \notin held[u] /\ (cur[u] = l => u = t)
    BY <1>3, RefsAre
  <2>2. /\ life' = [life EXCEPT ![l] = "dying"]
        /\ pc'[t] = "destroy" /\ handle'[t] = l
    BY <1>1, <1>2, <1>3 DEF DropCurrent, DropCurrentThen, StartDestroy
  <2>3. Unreferenced(l)'
    BY <1>2, <2>1 DEF Unreferenced
  <2> QED
    BY <1>2, <2>2, <2>3 DEF Lives, Drops
<1>4. CASE Refs(l) # {<<t, "cur">>}
  BY <1>1, <1>2, <1>4 DEF DropCurrentThen, Lives
<1> QED
  BY <1>3, <1>4

LEMMA HeldDropped ==
    ASSUME RegInv, NEW t \in Threads, Drop(t)
    PROVE  Lives(t)
<1>1. PICK l \in held[t] :
          /\ pc[t] = "idle"
          /\ held' = [held EXCEPT ![t] = @ \ {l}]
          /\ IF Refs(l) = {<<t, "held">>}
             THEN StartDestroy(t, l)
             ELSE UNCHANGED <<mutexVars, life, pc, handle>>
          /\ UNCHANGED <<registry, resolve, updateVars, init, info, call, cur>>
  BY DEF Drop
<1>2. /\ l \in LayerObjects /\ life[l] = "live"
      /\ held \in [Threads -> SUBSET LayerObjects]
      /\ pc \in [Threads -> PCs] /\ handle \in [Threads -> LayerObjects \cup {None}]
  BY DEF RegInv, TypeOK, RefsAreLive
<1>3. CASE Refs(l) = {<<t, "held">>}
  <2>1. ASSUME NEW u \in Threads PROVE cur[u] # l /\ (l \in held[u] => u = t)
    <3>1. <<u, "cur">> \notin Refs(l)
      BY <1>3
    <3>2. <<u, "held">> \in Refs(l) => u = t
      BY <1>3
    <3> QED
      BY <3>1, <3>2, RefsAre
  <2>2. /\ life' = [life EXCEPT ![l] = "dying"]
        /\ pc'[t] = "destroy" /\ handle'[t] = l
    BY <1>1, <1>2, <1>3 DEF StartDestroy
  <2>3. Unreferenced(l)'
    BY <1>1, <1>2, <2>1 DEF Unreferenced
  <2> QED
    BY <1>2, <2>2, <2>3 DEF Lives, Drops
<1>4. CASE Refs(l) # {<<t, "held">>}
  BY <1>1, <1>4 DEF Lives
<1> QED
  BY <1>3, <1>4

LEMMA StepLives ==
    ASSUME RegInv, NEW t \in Threads, CallStep(t)
    PROVE  Lives(t)
<1>t. /\ pc \in [Threads -> PCs] /\ cur \in [Threads -> LayerObjects \cup {None}]
      /\ life \in [LayerObjects -> {"unborn", "live", "dying", "dead"}]
  BY DEF RegInv, TypeOK
<1> DEFINE Same == life' = life /\ pc'[t] # "destroy"
<1>1. BeginFind(t) \/ BeginSetIdentifier(t) \/ LockRead(t) \/ Relock(t) => Same
  BY <1>t DEF BeginFind, BeginSetIdentifier, Begin, LockRead, Relock, layerVars
<1>2. ASSUME TryToFindLayer(t) PROVE Same
  <2>1. \E l : FoundNothing(t) \/ FoundLive(t, l) \/ FoundExpiring(t, l)
    BY <1>2 DEF TryToFindLayer
  <2> QED
    BY <1>2, <1>t, <2>1 DEF TryToFindLayer, FoundNothing, FoundLive, FoundExpiring,
       Return, layerVars, PCs
<1>3. UpgradeAtomically(t) \/ UpgradeReleasing(t) \/ FindFails(t) \/ OpenNothing(t)
      \/ OpenUnlocks(t) => Same
  BY <1>t DEF UpgradeAtomically, UpgradeReleasing, FindFails, OpenNothing, OpenUnlocks,
     Return, layerVars
<1>4. SetIdentifierLocked(t) \/ UpdateAssetInfo(t) => Same
  BY <1>t DEF SetIdentifierLocked, UpdateAssetInfo, layerVars
<1>10. Renames(t) => Same
  BY <1>t, RenamingMoves DEF Moves, EndRename, Return, UpdatePlaces
<1>5. ReturnCurrent(t) => Same
  BY <1>t DEF ReturnCurrent, Return
<1>6. pc[t] \in {"wait", "reading"} => cur[t] # None
  BY DEF RegInv, RefsAreLive
<1>7. FindReturns(t) \/ FindOrOpenReturns(t) \/ ReadLayer(t)
      => Lives(t)
  BY <1>5, <1>6, CurrentDropped DEF FindReturns, FindOrOpenReturns, DropCurrent,
     ReadLayer, Wait, Lives
<1>11. SetIdentifierFound(t) => Lives(t)
  BY <1>t, <1>6, CurrentDropped DEF SetIdentifierFound, DropCurrent, Wait, Lives
<1>8. Open(t) \/ CreateNew(t) \/ OpenAsAnonymous(t) \/ CreateAnonymous(t) => Lives(t)
  BY <1>t DEF Open, CreateNew, OpenAsAnonymous, CreateAnonymous, ConstructAndUnlock,
     Construct, Lives
<1>9. Drop(t) \/ Destroy(t) => Lives(t)
  BY HeldDropped DEF Lives
<1> QED
  BY <1>1, <1>2, <1>3, <1>4, <1>7, <1>8, <1>9, <1>10, <1>11
     DEF CallStep, RenameStep, Renames, Lives

(* A new reference is one to the layer the call refers to, to one found    *)
(* live, or to one just constructed.                                       *)
LEMMA StepRefers ==
    ASSUME RegInv, NEW t \in Threads, CallStep(t),
           NEW l \in LayerObjects, l \in held'[t] \/ cur'[t] = l
    PROVE  life[l] = "live" \/ (life[l] = "unborn" /\ life' = [life EXCEPT ![l] = "live"])
<1>t. /\ cur \in [Threads -> LayerObjects \cup {None}]
      /\ held \in [Threads -> SUBSET LayerObjects] /\ None \notin LayerObjects
  BY NoneAssumption DEF RegInv, TypeOK
<1>1. l \in held[t] \/ cur[t] = l => life[l] = "live"
  BY <1>t DEF RegInv, RefsAreLive
<1>2. BeginFind(t) \/ BeginSetIdentifier(t) \/ LockRead(t) \/ Relock(t)
      \/ UpgradeAtomically(t) \/ UpgradeReleasing(t) \/ FindFails(t) \/ OpenNothing(t)
      \/ OpenUnlocks(t) \/ SetIdentifierLocked(t) \/ UpdateAssetInfo(t) \/ Destroy(t)
      => l \in held[t] \/ cur[t] = l
  BY <1>t DEF BeginFind, BeginSetIdentifier, Begin, LockRead, Relock, UpgradeAtomically,
     UpgradeReleasing, FindFails, OpenNothing, OpenUnlocks, Return,
     SetIdentifierLocked, UpdateAssetInfo, Destroy, AfterDestroy, threadVars
<1>9. Renames(t) => l \in held[t] \/ cur[t] = l
  BY <1>t, RenamingMoves DEF Moves, EndRename, Return
<1>3. ASSUME TryToFindLayer(t) PROVE life[l] = "live"
  <2>1. PICK m \in Find(registry, call[t].id, call[t].path) :
            FoundNothing(t) \/ FoundLive(t, m) \/ FoundExpiring(t, m)
    BY <1>3 DEF TryToFindLayer
  <2> QED
    BY <1>3, <1>t, <1>1, <2>1 DEF TryToFindLayer, FoundNothing, FoundLive,
       FoundExpiring,
       Return
<1>4. ReturnCurrent(t) \/ DropCurrent(t) \/ DropCurrentThen(t, "rename") \/ Drop(t)
      => l \in held[t] \/ cur[t] = l
  BY <1>t DEF ReturnCurrent, Return, DropCurrent, DropCurrentThen, Drop
<1>5. FindReturns(t) \/ FindOrOpenReturns(t) \/ SetIdentifierFound(t) \/ ReadLayer(t)
      => l \in held[t] \/ cur[t] = l
  BY <1>4 DEF FindReturns, FindOrOpenReturns, SetIdentifierFound, ReadLayer
<1>6. ASSUME NEW m \in LayerObjects, NEW id, NEW real, Construct(m, id, real),
             \/ cur' = [cur EXCEPT ![t] = m] /\ held' = held
             \/ held' = [held EXCEPT ![t] = @ \cup {m}] /\ cur' = cur
      PROVE  \/ l \in held[t]
             \/ cur[t] = l
             \/ life[l] = "unborn" /\ life' = [life EXCEPT ![l] = "live"]
  BY <1>6, <1>t DEF Construct
<1>7. Open(t) \/ CreateAnonymous(t)
      => \/ l \in held[t]
         \/ cur[t] = l
         \/ life[l] = "unborn" /\ life' = [life EXCEPT ![l] = "live"]
  BY <1>6 DEF Open, CreateAnonymous
<1>8. CreateNew(t) \/ OpenAsAnonymous(t)
      => \/ l \in held[t]
         \/ cur[t] = l
         \/ life[l] = "unborn" /\ life' = [life EXCEPT ![l] = "live"]
  BY <1>6 DEF CreateNew, OpenAsAnonymous, ConstructAndUnlock
<1> QED
  BY <1>1, <1>2, <1>3, <1>4, <1>5, <1>7, <1>8, <1>9 DEF CallStep, RenameStep, Renames

-----------------------------------------------------------------------------
(* The parts of the invariant, one by one                                  *)

LEMMA DestroyDestroys ==
    ASSUME RegInv, NEW t \in Threads, Destroy(t)
    PROVE  /\ handle[t] \in LayerObjects /\ life[handle[t]] = "dying" /\ pc[t] = "destroy"
           /\ life' = [life EXCEPT ![handle[t]] = "dead"]
           /\ init' = [init EXCEPT ![handle[t]] = "loading"]
           /\ readers = {} /\ pc'[t] \in {"idle", "rename"} /\ handle'[t] = None
<1>1. handle[t] \in LayerObjects /\ life[handle[t]] = "dying"
  BY DEF RegInv, TypeOK, DestroyedOnce, Destroy
<1> QED
  BY <1>1 DEF Destroy, Gone, AfterDestroy, Return, Free, RegInv, TypeOK

(* What becomes of a layer.                                                *)
LEMMA LifeGoesOn ==
    ASSUME RegInv, NEW t \in Threads, CallStep(t), NEW m \in LayerObjects
    PROVE  \/ life'[m] = life[m]
           \/ life[m] = "unborn" /\ life'[m] = "live"
           \/ life[m] = "live" /\ Drops(t, m) /\ life'[m] = "dying"
           \/ Destroy(t) /\ handle[t] = m /\ life[m] = "dying"
<1> life \in [LayerObjects -> {"unborn", "live", "dying", "dead"}]
  BY DEF RegInv, TypeOK
<1>1. CASE \E l \in LayerObjects : Drops(t, l)
  BY <1>1 DEF Drops
<1>2. CASE Destroy(t)
  BY <1>2, DestroyDestroys
<1> QED
  BY <1>1, <1>2, StepLives DEF Lives

(* A layer whose names, and those who rename it, stay as they are.         *)
LEMMA NamedAsBefore ==
    ASSUME RegInv, NEW t \in Threads, CallStep(t), NEW m \in LayerObjects, NamedRight(m),
           SameButFor(registry', m, registry) \/ registry' = registry \/
               (\E l \in LayerObjects \ {m} : SameButFor(registry', l, registry)),
           \A id \in Identifiers : <<id, m>> \in registry'.byId => <<id, m>> \in registry.byId,
           \A id \in Ids : <<id, m>> \in registry'.byRepo => <<id, m>> \in registry.byRepo,
           \A path \in RealPaths :
               <<path, m>> \in registry'.byReal => <<path, m>> \in registry.byReal,
           info'[m] = info[m], ~Updating(t, m)
    PROVE  NamedRight(m)'
<1>1. ASSUME NEW u \in Threads, Updating(u, m)
      PROVE  Updating(u, m)' /\ oldInfo'[u] = oldInfo[u] /\ pc'[u] = pc[u]
  BY <1>1, UpdatersStay
<1> QED
  BY <1>1 DEF NamedRight

LEMMA ExactKept ==
    ASSUME RegInv, NEW t \in Threads, CallStep(t)
    PROVE  RegistryExact'
<1>1. /\ OnePerPath(registry)
      /\ \A l \in LayerObjects \ clashed :
            NamedRight(l) /\ (Shows(registry, l) => life[l] \in {"live", "dying"})
  BY ExactMeans DEF RegInv
<1>2. ASSUME NEW m \in LayerObjects, life[m] \in {"live", "dying"},
             Destroy(t) /\ handle[t] = m => ~Shows(registry', m)
      PROVE  Shows(registry', m) => life'[m] \in {"live", "dying"}
  BY <1>2, LifeGoesOn
<1>3. clashed \subseteq clashed'
  BY OnlyRenamesClash, SwapMoves
<1>4. ASSUME NEW m \in LayerObjects \ clashed, info'[m] = info[m], ~Updating(t, m),
             registry' = registry \/ \E l \in LayerObjects \ {m} : SameButFor(registry', l, registry)
      PROVE  NamedRight(m)' /\ (Shows(registry', m) => Shows(registry, m))
  BY <1>1, <1>4, NamedAsBefore DEF SameButFor, Shows
<1>5. CASE ~Renames(t)
  <2>1. ASSUME NEW m \in LayerObjects, Updating(t, m) PROVE Unregistered /\ FALSE
    BY <1>5, <2>1, UpdatingUpdates
  <2>2. CASE Unregistered
    <3>1. ASSUME NEW m \in LayerObjects \ clashed'
          PROVE  NamedRight(m)' /\ (Shows(registry', m) => life'[m] \in {"live", "dying"})
      <4>1. NamedRight(m)' /\ (Shows(registry', m) => Shows(registry, m))
        BY <1>3, <1>4, <2>1, <2>2, <3>1 DEF Unregistered
      <4>2. Destroy(t) /\ handle[t] = m => ~Shows(registry', m)
        BY <1>3, <2>2, <3>1, DestroyErases
      <4> QED
        BY <1>1, <1>2, <1>3, <3>1, <4>1, <4>2
    <3> QED
      BY <1>1, <2>2, <3>1, ExactMeansNext DEF Unregistered
  <2>3. CASE ~Unregistered
    <3>1. PICK l \in LayerObjects :
              /\ Reentered(l)
              /\ \/ /\ life[l] = "unborn" /\ life'[l] = "live"
                    /\ Follows(registry', l, info'[l])
                 \/ life[l] = "dying" /\ (l \notin clashed => ~Shows(registry', l))
      BY <1>5, <2>3, StepReenters
    <3>2. ASSUME NEW m \in LayerObjects \ clashed', m # l
          PROVE  NamedRight(m)' /\ (Shows(registry', m) => life'[m] \in {"live", "dying"})
      <4>1. NamedRight(m)' /\ (Shows(registry', m) => Shows(registry, m))
        BY <1>3, <1>4, <2>1, <3>1, <3>2 DEF Reentered
      <4>2. Destroy(t) /\ handle[t] = m => ~Shows(registry', m)
        BY <1>3, <3>2, DestroyErases
      <4> QED
        BY <1>1, <1>2, <1>3, <3>2, <4>1, <4>2
    <3>3. ASSUME l \notin clashed'
          PROVE  NamedRight(l)' /\ (Shows(registry', l) => life'[l] \in {"live", "dying"})
      <4>1. Follows(registry', l, info'[l])
        BY <1>3, <3>1, <3>3 DEF Follows, Shows
      <4> QED
        BY <1>3, <3>1, <3>3, <4>1 DEF NamedRight, Follows
    <3>4. OnePerPath(registry')
      BY <3>1 DEF Reentered
    <3> QED
      BY <3>2, <3>3, <3>4, ExactMeansNext
  <2> QED
    BY <2>2, <2>3
<1>6. CASE Renames(t)
  <2>1. PICK l \in LayerObjects : l = call[t].self
    BY <1>6, RenamingMoves, SelfIsLive
  <2>2. life[l] = "live" /\ life' = life
    BY <1>6, <2>1, RenamingMoves, SelfIsLive
  <2>3. Reentered(l) /\ (l \notin clashed' => NamedRight(l)')
    <3>1. CASE SwapAssetInfo(t)
      BY <2>1, <3>1, SwapMoves
    <3>2. CASE UpdateStep(t)
      <4>1. /\ Reentered(l) /\ clashed' = clashed
            /\ l \notin clashed => RightFor(registry', l, info'[l], oldInfo'[t], pc'[t])
        BY <2>1, <3>2, UpdateMoves
      <4>2. pc'[t] \in UpdatePlaces => Updating(t, l)'
        BY <1>6, <2>1, RenamingMoves, TypedPlaces
        DEF Moves, EndRename, Return, Updating, UpdatePlaces
      <4>3. l \notin clashed' => NamedRight(l)'
        BY <4>1, <4>2, AloneMeansNext
      <4> QED
        BY <4>1, <4>3
    <3> QED
      BY <1>6, <3>1, <3>2 DEF Renames
  <2>4. ASSUME NEW m \in LayerObjects \ clashed', m # l
        PROVE  NamedRight(m)' /\ (Shows(registry', m) => life'[m] \in {"live", "dying"})
    <3>1. ~Updating(t, m)
      BY <2>1, <2>4 DEF Updating
    <3>2. NamedRight(m)' /\ (Shows(registry', m) => Shows(registry, m))
      BY <1>3, <1>4, <2>3, <2>4, <3>1 DEF Reentered
    <3> QED
      BY <1>1, <1>3, <2>2, <2>4, <3>2
  <2>5. OnePerPath(registry')
    BY <2>3 DEF Reentered
  <2> QED
    BY <2>2, <2>3, <2>4, <2>5, ExactMeansNext
<1> QED
  BY <1>5, <1>6

LEMMA UpdatesKept ==
    ASSUME RegInv, NEW t \in Threads, CallStep(t)
    PROVE  UpdatesRight'
<1>1. clashed \subseteq clashed'
  BY OnlyRenamesClash, SwapMoves
<1>2. ASSUME NEW l \in clashed' PROVE life'[l] # "unborn"
  <2>1. l \in LayerObjects /\ life[l] # "unborn"
    <3>1. CASE SwapAssetInfo(t)
      <4>1. PICK m \in LayerObjects : m = call[t].self /\ life[m] = "live"
        BY <3>1, SelfIsLive DEF SwapAssetInfo
      <4>2. clashed' \subseteq clashed \cup {m}
        BY <3>1, <4>1, SwapMoves
      <4> QED
        BY <1>2, <4>1, <4>2 DEF RegInv, UpdatesRight, TypeOK
    <3>2. CASE ~SwapAssetInfo(t)
      BY <1>2, <3>2, OnlyRenamesClash DEF RegInv, UpdatesRight, TypeOK
    <3> QED
      BY <3>1, <3>2
  <2> QED
    BY <2>1, LifeGoesOn, DestroyDestroys DEF RegInv, TypeOK
<1>3. ASSUME NEW l \in LayerObjects \ clashed'
      PROVE  \A v \in Threads : Updating(v, l)' =>
                /\ \A u \in Threads : Updating(u, l)' => u = v
                /\ pc'[v] # "outReal" => newAliases'[v] \in {info'[l], NoInfo}
  <2>0. l \notin clashed
    BY <1>1
  <2>1. CASE SwapAssetInfo(t) /\ l = call[t].self /\ pc'[t] \in UpdatePlaces
    BY <2>1, SwapMoves
  <2>2. CASE SwapAssetInfo(t) /\ l = call[t].self /\ pc'[t] \notin UpdatePlaces
    <3>1. info' = info
      BY <2>2, TypedPlaces DEF SwapAssetInfo, UpdatePlaces
    <3>2. \A u \in Threads : Updating(u, l)' => Updating(u, l) /\ u # t
      BY <2>2, UpdatersStay DEF Updating
    <3> QED
      BY <2>0, <3>1, <3>2, UpdatersStay DEF RegInv, UpdatesRight
  <2>3. CASE UpdateStep(t) /\ l = call[t].self
    <3>1. Updating(t, l)
      BY <2>3, UpdateStepUpdates
    <3>2. \A u \in Threads : Updating(u, l)' => u = t
      BY <2>0, <3>1, UpdatersStay DEF RegInv, UpdatesRight
    <3>3. pc'[t] \in UpdatePlaces => newAliases'[t] \in {info'[l], NoInfo}
      BY <2>0, <2>3, UpdateMoves
    <3> QED
      BY <3>2, <3>3 DEF Updating
  <2>4. CASE Renames(t) => l # call[t].self
    <3>1. ASSUME NEW u \in Threads, Updating(u, l)'
          PROVE  Updating(u, l) /\ u # t
      <4>1. CASE u = t
        <5>1. Renames(t)
          BY <3>1, <4>1, UpdatingUpdatesNext
        <5>2. call'[t].self = call[t].self
          BY <3>1, <4>1, <5>1, RenamingMoves, TypedPlaces
             DEF Moves, EndRename, Return, Updating, UpdatePlaces
        <5> QED
          BY <2>4, <3>1, <4>1, <5>1, <5>2 DEF Updating
      <4>2. CASE u # t
        BY <3>1, <4>2, UpdatersStay
      <4> QED
        BY <4>1, <4>2
    <3>2. ASSUME NEW u \in Threads, Updating(u, l) PROVE info'[l] = info[l]
      <4>1. life[l] = "live"
        BY <3>2, NotUpdating
      <4>2. CASE Renames(t)
        <5>1. Reentered(call[t].self)
          BY <4>2, SwapMoves, UpdateMoves DEF Renames
        <5> QED
          BY <2>4, <4>2, <5>1 DEF Reentered
      <4>3. CASE ~Renames(t)
        BY <4>1, <4>3, StepReenters DEF Reentered, Unregistered
      <4> QED
        BY <4>2, <4>3
    <3> QED
      BY <2>0, <3>1, <3>2, UpdatersStay DEF RegInv, UpdatesRight
  <2> QED
    BY <2>1, <2>2, <2>3, <2>4 DEF Renames
<1> QED
  BY <1>2, <1>3 DEF UpdatesRight

LEMMA RefsKept ==
    ASSUME RegInv, NEW t \in Threads, CallStep(t)
    PROVE  /\ \A u \in Threads : \A l \in LayerObjects :
                  l \in held'[u] \/ cur'[u] = l => life'[l] = "live"
<1> SUFFICES ASSUME NEW u \in Threads, NEW l \in LayerObjects, l \in held'[u] \/ cur'[u] = l
             PROVE  life'[l] = "live"
  OBVIOUS
<1>t. life \in [LayerObjects -> {"unborn", "live", "dying", "dead"}]
  BY DEF RegInv, TypeOK
<1>1. life[l] = "live" \/ (life[l] = "unborn" /\ life' = [life EXCEPT ![l] = "live"])
  <2>1. CASE u = t
    BY <2>1, StepRefers
  <2>2. CASE u # t
    <3>1. l \in held[u] \/ cur[u] = l
      BY <2>2, OthersStay DEF RegInv
    <3> QED
      BY <3>1, NoneAssumption DEF RegInv, RefsAreLive
  <2> QED
    BY <2>1, <2>2
<1>2. ~Drops(t, l)
  BY DEF Drops, Unreferenced
<1> QED
  BY <1>t, <1>1, <1>2, LifeGoesOn

LEMMA HoldsLayers ==
    ASSUME RegInv, NEW t \in Threads, CallStep(t)
    PROVE  held'[t] \subseteq LayerObjects /\ cur'[t] \in LayerObjects \cup {None}
<1>t. /\ cur \in [Threads -> LayerObjects \cup {None}]
      /\ held \in [Threads -> SUBSET LayerObjects]
  BY DEF RegInv, TypeOK
<1> DEFINE Typed == held'[t] \subseteq LayerObjects /\ cur'[t] \in LayerObjects \cup {None}
<1>1. pc[t] \in {"reading", "wait"} => cur[t] \in LayerObjects
  BY <1>t DEF RegInv, RefsAreLive
<1>2. BeginFind(t) \/ BeginSetIdentifier(t) \/ LockRead(t) \/ Relock(t)
      \/ UpgradeAtomically(t) \/ UpgradeReleasing(t) \/ FindFails(t) \/ OpenNothing(t)
      \/ OpenUnlocks(t) \/ SetIdentifierLocked(t) \/ UpdateAssetInfo(t) \/ Destroy(t)
      => Typed
  BY <1>t DEF BeginFind, BeginSetIdentifier, Begin, LockRead, Relock,
     UpgradeAtomically, UpgradeReleasing, FindFails, OpenNothing, OpenUnlocks, Return,
     SetIdentifierLocked, UpdateAssetInfo, Destroy, AfterDestroy, threadVars
<1>7. Renames(t) => Typed
  BY <1>t, RenamingMoves DEF Moves, EndRename, Return
<1>3. ASSUME TryToFindLayer(t) PROVE Typed
  <2>1. PICK m \in Find(registry, call[t].id, call[t].path) :
            IF m = None THEN FoundNothing(t) ELSE FoundLive(t, m) \/ FoundExpiring(t, m)
    BY <1>3 DEF TryToFindLayer
  <2>2. m # None => m \in LayerObjects
    BY FoundIsShown
  <2> QED
    BY <1>3, <1>t, <2>1, <2>2 DEF TryToFindLayer, FoundNothing, FoundLive,
       FoundExpiring,
       Return
<1>4. (ReturnCurrent(t) /\ cur[t] \in LayerObjects) \/ DropCurrent(t)
      \/ DropCurrentThen(t, "rename") \/ Drop(t) => Typed
  BY <1>t DEF ReturnCurrent, Return, DropCurrent, DropCurrentThen, Drop
<1>5. FindReturns(t) \/ FindOrOpenReturns(t) \/ SetIdentifierFound(t) \/ ReadLayer(t)
      => Typed
  BY <1>t, <1>1, <1>4 DEF FindReturns, FindOrOpenReturns, SetIdentifierFound,
     ReadLayer, Wait
<1>6. Open(t) \/ CreateNew(t) \/ OpenAsAnonymous(t) \/ CreateAnonymous(t) => Typed
  BY <1>t DEF Open, CreateNew, OpenAsAnonymous, CreateAnonymous, ConstructAndUnlock
<1> QED
  BY <1>2, <1>3, <1>4, <1>5, <1>6, <1>7 DEF CallStep, RenameStep, Renames

LEMMA RefsAreLiveKept ==
    ASSUME RegInv, NEW t \in Threads, CallStep(t)
    PROVE  RefsAreLive'
<1>t. /\ pc \in [Threads -> PCs] /\ cur \in [Threads -> LayerObjects \cup {None}]
      /\ held \in [Threads -> SUBSET LayerObjects] /\ None \notin LayerObjects
  BY NoneAssumption DEF RegInv, TypeOK
<1> DEFINE Refers(u) == pc'[u] \in {"opened", "reading", "wait"} => cur'[u] # None
<1>1. pc[t] \in {"opened", "reading", "wait"} => cur[t] # None
  BY DEF RegInv, RefsAreLive
<1>2. BeginFind(t) \/ BeginSetIdentifier(t) \/ LockRead(t) \/ Relock(t)
      \/ UpgradeAtomically(t) \/ UpgradeReleasing(t) \/ FindFails(t) \/ OpenNothing(t)
      \/ OpenUnlocks(t) \/ SetIdentifierLocked(t) \/ UpdateAssetInfo(t) \/ Destroy(t)
      => Refers(t)
  BY <1>t, <1>1 DEF BeginFind, BeginSetIdentifier, Begin, LockRead, Relock,
     UpgradeAtomically, UpgradeReleasing, FindFails, OpenNothing, OpenUnlocks, Return,
     SetIdentifierLocked, UpdateAssetInfo, Destroy, AfterDestroy, threadVars
<1>9. Renames(t) => Refers(t)
  BY <1>t, RenamingMoves DEF Moves, EndRename, Return, UpdatePlaces
<1>3. ASSUME TryToFindLayer(t) PROVE Refers(t)
  <2>1. PICK m \in Find(registry, call[t].id, call[t].path) :
            IF m = None THEN FoundNothing(t) ELSE FoundLive(t, m) \/ FoundExpiring(t, m)
    BY <1>3 DEF TryToFindLayer
  <2> QED
    BY <1>3, <1>t, <2>1 DEF TryToFindLayer, FoundNothing, FoundLive, FoundExpiring,
       Return
<1>4. ReturnCurrent(t) \/ DropCurrent(t) \/ DropCurrentThen(t, "rename") \/ Drop(t)
      => Refers(t)
  BY <1>t DEF ReturnCurrent, Return, DropCurrent, DropCurrentThen, StartDestroy, Drop
<1>5. FindReturns(t) \/ FindOrOpenReturns(t) \/ SetIdentifierFound(t) \/ ReadLayer(t)
      => Refers(t)
  BY <1>t, <1>4 DEF FindReturns, FindOrOpenReturns, SetIdentifierFound, ReadLayer
<1>6. Open(t) \/ CreateNew(t) \/ OpenAsAnonymous(t) \/ CreateAnonymous(t) => Refers(t)
  BY <1>t DEF Open, CreateNew, OpenAsAnonymous, CreateAnonymous, ConstructAndUnlock
<1>7. ASSUME NEW u \in Threads PROVE Refers(u)
  <2>1. CASE u = t
    BY <1>2, <1>3, <1>4, <1>5, <1>6, <1>9, <2>1 DEF CallStep, RenameStep, Renames
  <2>2. CASE u # t
    BY <2>2, OthersStay DEF RegInv, RefsAreLive
  <2> QED
    BY <2>1, <2>2
<1>8. ASSUME NEW u \in Threads
      PROVE  held'[u] \subseteq LayerObjects /\ cur'[u] \in LayerObjects \cup {None}
  <2>1. CASE u # t
    BY <1>t, <2>1, OthersStay DEF RegInv
  <2>2. CASE u = t
    BY <2>2, HoldsLayers
  <2> QED
    BY <2>1, <2>2
<1> QED
  BY <1>7, <1>8, RefsKept DEF RefsAreLive

(* A thread is at "upgrade" with its read lock, and only from the search.  *)
LEMMA MutexKeptOn ==
    ASSUME RegInv, NEW t \in Threads, CallStep(t)
    PROVE  MutexKept'
<1>t. pc \in [Threads -> PCs] /\ (writer # None => readers = {}) /\ None \notin Threads
  BY NoneAssumption DEF RegInv, TypeOK
<1>k. /\ pc[t] = "find" => t \in readers \/ writer = t
      /\ pc[t] = "upgrade" => t \in readers
  BY DEF RegInv, MutexKept
<1> DEFINE Locked(u) == /\ pc'[u] = "find" => u \in readers' \/ writer' = u
                        /\ pc'[u] = "upgrade" => u \in readers'
           Others == /\ \A u \in Threads \ {t} : u \in readers => u \in readers'
                     /\ \A u \in Threads \ {t} : writer = u => writer' = u
<1> USE DEF mutexVars, threadVars
<1>1. BeginFind(t) \/ BeginSetIdentifier(t) \/ LockRead(t) \/ UpgradeReleasing(t)
      \/ Relock(t) \/ OpenUnlocks(t) \/ FindFails(t) \/ OpenNothing(t)
      \/ SetIdentifierLocked(t) \/ UpdateAssetInfo(t) \/ Destroy(t)
      => Locked(t) /\ Others
  BY <1>t, <1>k DEF BeginFind, BeginSetIdentifier, Begin, Request, LockRead,
     UpgradeReleasing, Relock, Free, OpenUnlocks, FindFails, OpenNothing,
     SetIdentifierLocked, UpdateAssetInfo, Destroy, AfterDestroy, Return, Unlock
<1>9. Renames(t) => Locked(t) /\ Others
  BY <1>t, <1>k, RenamingMoves DEF Moves, EndRename, Return, Unlock, UpdatePlaces
<1>2. ASSUME UpgradeAtomically(t) PROVE Locked(t) /\ Others
  BY <1>2, <1>t DEF UpgradeAtomically
<1>3. ASSUME TryToFindLayer(t) PROVE Locked(t) /\ Others
  <2>1. PICK m \in Find(registry, call[t].id, call[t].path) :
            FoundNothing(t) \/ FoundLive(t, m) \/ FoundExpiring(t, m)
    BY <1>3 DEF TryToFindLayer
  <2> QED
    BY <1>3, <1>t, <1>k, <2>1 DEF TryToFindLayer, FoundNothing, FoundLive,
       FoundExpiring, Return, Unlock
<1>4. ReturnCurrent(t) \/ DropCurrent(t) \/ DropCurrentThen(t, "rename") \/ Drop(t)
      => Locked(t) /\ Others
  BY <1>t, <1>k DEF ReturnCurrent, Return, DropCurrent, DropCurrentThen, StartDestroy,
     Drop
<1>5. FindReturns(t) \/ FindOrOpenReturns(t) \/ SetIdentifierFound(t) \/ ReadLayer(t)
      => Locked(t) /\ Others
  BY <1>t, <1>k, <1>4 DEF FindReturns, FindOrOpenReturns, SetIdentifierFound, ReadLayer
<1>6. Open(t) \/ CreateNew(t) \/ OpenAsAnonymous(t) \/ CreateAnonymous(t)
      => Locked(t) /\ Others
  BY <1>t, <1>k DEF Open, CreateNew, OpenAsAnonymous, CreateAnonymous,
     ConstructAndUnlock
<1>7. Locked(t) /\ Others
  BY <1>1, <1>2, <1>3, <1>4, <1>5, <1>6, <1>9 DEF CallStep, RenameStep, Renames
<1>8. ASSUME NEW u \in Threads, u # t PROVE Locked(u)
  BY <1>7, <1>8, OthersStay DEF RegInv, MutexKept
<1> QED
  BY <1>7, <1>8 DEF MutexKept

(* Handles come from the search, for a layer that is dying.                *)
LEMMA StepHandles ==
    ASSUME RegInv, NEW t \in Threads, CallStep(t)
    PROVE  /\ handle'[t] \in LayerObjects \cup {None}
           /\ handle'[t] # None =>
                 \/ \E l \in LayerObjects : Drops(t, l)
                 \/ /\ pc'[t] = "upgrade" /\ life[handle'[t]] = "dying"
                    /\ ~Destroy(t)
                 \/ pc'[t] = pc[t] /\ handle'[t] = handle[t] /\ life' = life
<1>t. /\ pc \in [Threads -> PCs] /\ handle \in [Threads -> LayerObjects \cup {None}]
      /\ life \in [LayerObjects -> {"unborn", "live", "dying", "dead"}]
  BY DEF RegInv, TypeOK
<1>h. handle[t] # None => pc[t] \in {"upgrade", "destroy"}
  BY DEF RegInv, HandlesAreUsed
<1> DEFINE Old == handle'[t] = handle[t]
           Here == handle'[t] = None \/ (pc'[t] = pc[t] /\ Old /\ life' = life)
<1> USE DEF threadVars, layerVars
<1>1. BeginFind(t) \/ BeginSetIdentifier(t) \/ LockRead(t) \/ UpgradeReleasing(t)
      \/ Relock(t) \/ OpenUnlocks(t) \/ FindFails(t) \/ OpenNothing(t)
      \/ SetIdentifierLocked(t) \/ UpdateAssetInfo(t) \/ Destroy(t)
      \/ UpgradeAtomically(t)
      => (Old /\ handle[t] = None) \/ handle'[t] = None
  BY <1>t, <1>h DEF BeginFind, BeginSetIdentifier, Begin, LockRead,
     UpgradeReleasing, Relock, OpenUnlocks, FindFails, OpenNothing,
     SetIdentifierLocked, UpdateAssetInfo, Destroy, AfterDestroy, UpgradeAtomically,
     Return
<1>r. Renames(t) => (Old /\ handle[t] = None) \/ handle'[t] = None
  BY <1>t, <1>h, RenamingMoves DEF Moves, EndRename, Return, UpdatePlaces
<1>2. ASSUME TryToFindLayer(t)
      PROVE  \/ handle'[t] = None
             \/ /\ handle'[t] \in LayerObjects /\ life[handle'[t]] = "dying"
                /\ pc'[t] = "upgrade"
  <2>1. PICK l \in Find(registry, call[t].id, call[t].path) :
            IF l = None THEN FoundNothing(t) ELSE FoundLive(t, l) \/ FoundExpiring(t, l)
    BY <1>2 DEF TryToFindLayer
  <2>2. l # None => l \in LayerObjects /\ life[l] \in {"live", "dying"}
    BY FoundIsShown
  <2>3. handle[t] = None
    BY <1>2, <1>h DEF TryToFindLayer
  <2> QED
    BY <1>t, <2>1, <2>2, <2>3 DEF FoundNothing, FoundLive, FoundExpiring, Return
<1>3. ReturnCurrent(t) => handle'[t] = None
  BY <1>t DEF ReturnCurrent, Return
<1>4. DropCurrent(t) \/ DropCurrentThen(t, "rename") \/ Drop(t)
      => handle'[t] = None \/ pc'[t] = "destroy"
  BY <1>t, <1>h DEF DropCurrent, DropCurrentThen, StartDestroy, Drop
<1>5. FindReturns(t) \/ FindOrOpenReturns(t) \/ SetIdentifierFound(t) \/ ReadLayer(t)
      \/ Drop(t)
      => handle'[t] = None \/ pc'[t] = "destroy"
  BY <1>t, <1>h, <1>3, <1>4 DEF FindReturns, FindOrOpenReturns, SetIdentifierFound,
     ReadLayer, Wait
<1>6. Open(t) \/ CreateNew(t) \/ OpenAsAnonymous(t) \/ CreateAnonymous(t)
      => Old /\ handle[t] = None
  BY <1>t, <1>h DEF Open, CreateNew, OpenAsAnonymous, CreateAnonymous,
     ConstructAndUnlock
<1>7. \/ handle'[t] = None
      \/ pc'[t] = "destroy"
      \/ handle'[t] \in LayerObjects /\ life[handle'[t]] = "dying" /\ pc'[t] = "upgrade"
  BY <1>1, <1>2, <1>5, <1>6, <1>r DEF CallStep, RenameStep, Renames
<1>8. pc'[t] = "destroy" => \E l \in LayerObjects : Drops(t, l)
  BY StepLives, DestroyDestroys DEF Lives
<1>9. pc'[t] = "upgrade" => ~Destroy(t)
  BY DestroyDestroys
<1> QED
  BY <1>7, <1>8, <1>9 DEF Drops

LEMMA HandlesKept ==
    ASSUME RegInv, NEW t \in Threads, CallStep(t)
    PROVE  HandlesAreUsed' /\ HandleIsProtected' /\ DestroyedOnce'
<1>t. life \in [LayerObjects -> {"unborn", "live", "dying", "dead"}]
  BY DEF RegInv, TypeOK
<1>n. None \notin LayerObjects
  BY NoneAssumption
<1>1. ASSUME NEW u \in Threads, handle'[u] # None
      PROVE  pc'[u] \in {"upgrade", "destroy"}
  <2>1. CASE u = t
    BY <1>1, <2>1, StepHandles DEF Drops, RegInv, HandlesAreUsed
  <2>2. CASE u # t
    BY <1>1, <2>2, OthersStay DEF RegInv, HandlesAreUsed
  <2> QED
    BY <2>1, <2>2
<1>2. ASSUME NEW u \in Threads, u # t, pc[u] \in {"upgrade", "destroy"}, handle[u] # None
      PROVE  handle[u] \in LayerObjects /\ life[handle[u]] = "dying" /\ life'[handle[u]] = "dying"
  <2>1. handle[u] \in LayerObjects /\ life[handle[u]] = "dying"
    BY <1>2 DEF RegInv, HandleIsProtected, DestroyedOnce, TypeOK
  <2>2. ~(Destroy(t) /\ handle[t] = handle[u])
    BY <1>2, DestroyDestroys DEF RegInv, DestroyedOnce, MutexKept
  <2> QED
    BY <2>1, <2>2, LifeGoesOn
<1>3. ASSUME NEW u \in Threads, pc'[u] = "upgrade", handle'[u] # None
      PROVE  life'[handle'[u]] = "dying"
  <2>1. CASE u = t
    <3>1. handle'[t] \in LayerObjects /\ life[handle'[t]] = "dying" /\ ~Destroy(t)
      <4>1. ~\E l \in LayerObjects : Drops(t, l)
        BY <1>3, <2>1 DEF Drops
      <4>2. ~Destroy(t)
        BY <1>3, <2>1, DestroyDestroys
      <4>3. pc[t] = "upgrade" /\ handle[t] # None => life[handle[t]] = "dying"
        BY DEF RegInv, HandleIsProtected
      <4> QED
        BY <1>3, <2>1, <4>1, <4>2, <4>3, StepHandles
    <3> QED
      BY <2>1, <3>1, LifeGoesOn
  <2>2. CASE u # t
    BY <1>2, <1>3, <2>2, OthersStay DEF RegInv
  <2> QED
    BY <2>1, <2>2
<1>4. pc'[t] = "destroy" => \E l \in LayerObjects : Drops(t, l)
  BY StepLives, DestroyDestroys DEF Lives
<1>5. ASSUME NEW u \in Threads, pc'[u] = "destroy"
      PROVE  handle'[u] # None /\ life'[handle'[u]] = "dying"
  <2>1. CASE u = t
    BY <1>4, <1>5, <1>n, <1>t, <2>1 DEF Drops
  <2>2. CASE u # t
    BY <1>2, <1>5, <2>2, OthersStay DEF RegInv, DestroyedOnce
  <2> QED
    BY <2>1, <2>2
<1>6. ASSUME NEW u \in Threads, NEW v \in Threads, pc'[u] = "destroy",
             pc'[v] = "destroy", handle'[v] = handle'[u]
      PROVE  v = u
  <2>1. ASSUME NEW w \in Threads, w # t, pc'[t] = "destroy", pc'[w] = "destroy"
        PROVE  handle'[w] # handle'[t]
    BY <1>2, <1>4, <2>1, OthersStay DEF RegInv, DestroyedOnce, Drops
  <2>2. CASE u = t \/ v = t
    BY <1>6, <2>1, <2>2
  <2>3. CASE u # t /\ v # t
    BY <1>6, <2>3, OthersStay DEF RegInv, DestroyedOnce
  <2> QED
    BY <2>2, <2>3
<1> QED
  BY <1>1, <1>3, <1>5, <1>6 DEF HandlesAreUsed, HandleIsProtected, DestroyedOnce

(* A layer's initialization changes when its opener finishes it, for a new *)
(* one that is not opened, and for one that is destroyed.                  *)
LEMMA StepInits ==
    ASSUME RegInv, NEW t \in Threads, CallStep(t)
    PROVE  \/ init' = init
           \/ /\ pc[t] = "reading" /\ cur[t] \in LayerObjects
              /\ \A l \in LayerObjects : l # cur[t] => init'[l] = init[l]
           \/ \E l \in LayerObjects :
                 /\ \/ life[l] = "unborn" /\ life' = [life EXCEPT ![l] = "live"]
                    \/ life[l] = "dying"
                 /\ \A m \in LayerObjects : m # l => init'[m] = init[m]
<1>t. init \in [LayerObjects -> {"loading", "ok", "failed"}]
  BY DEF RegInv, TypeOK
<1>1. BeginFind(t) \/ BeginSetIdentifier(t) \/ LockRead(t) \/ TryToFindLayer(t)
      \/ UpgradeAtomically(t) \/ UpgradeReleasing(t) \/ Relock(t) \/ FindFails(t)
      \/ FindReturns(t) \/ FindOrOpenReturns(t) \/ OpenNothing(t) \/ Open(t)
      \/ OpenUnlocks(t) \/ CreateNew(t) \/ OpenAsAnonymous(t) \/ SetIdentifierLocked(t)
      \/ SetIdentifierFound(t) \/ UpdateAssetInfo(t) \/ Drop(t)
      \/ Renames(t)
      => init' = init
  BY RenamingMoves DEF BeginFind, BeginSetIdentifier, Begin, LockRead, TryToFindLayer,
     UpgradeAtomically, UpgradeReleasing, Relock, FindFails, FindReturns,
     FindOrOpenReturns, OpenNothing, Open, OpenUnlocks, CreateNew, OpenAsAnonymous,
     ConstructAndUnlock, SetIdentifierLocked, SetIdentifierFound, UpdateAssetInfo,
     Drop, layerVars
<1>2. ASSUME ReadLayer(t)
      PROVE  /\ pc[t] = "reading" /\ cur[t] \in LayerObjects
             /\ \A l \in LayerObjects : l # cur[t] => init'[l] = init[l]
  <2>1. pc[t] = "reading" /\ (init' = init \/ \E b \in BOOLEAN : FinishInitialization(cur[t], b))
    BY <1>2 DEF ReadLayer
  <2> QED
    BY <1>t, <2>1 DEF FinishInitialization, RegInv, RefsAreLive, TypeOK
<1>3. ASSUME CreateAnonymous(t)
      PROVE  \E l \in LayerObjects :
                 /\ life[l] = "unborn" /\ life' = [life EXCEPT ![l] = "live"]
                 /\ \A m \in LayerObjects : m # l => init'[m] = init[m]
  BY <1>3, <1>t DEF CreateAnonymous, Construct, FinishInitialization
<1>4. ASSUME Destroy(t)
      PROVE  \E l \in LayerObjects :
                 /\ life[l] = "dying"
                 /\ \A m \in LayerObjects : m # l => init'[m] = init[m]
  BY <1>4, <1>t, DestroyDestroys
<1> QED
  BY <1>1, <1>2, <1>3, <1>4 DEF CallStep, RenameStep, Renames

(* A thread that opens a layer has constructed it.                         *)
LEMMA StepOpens ==
    ASSUME RegInv, NEW t \in Threads, CallStep(t), Opening(t)'
    PROVE  /\ init' = init
           /\ \/ Opening(t) /\ cur'[t] = cur[t]
              \/ cur'[t] \in LayerObjects /\ life[cur'[t]] = "unborn"
<1>t. pc \in [Threads -> PCs] /\ cur \in [Threads -> LayerObjects \cup {None}]
  BY DEF RegInv, TypeOK
<1>o. pc'[t] \in {"opened", "reading"}
  BY DEF Opening
<1> USE DEF threadVars, layerVars
<1>1. ~(BeginFind(t) \/ BeginSetIdentifier(t) \/ LockRead(t) \/ UpgradeReleasing(t)
        \/ Relock(t) \/ FindFails(t) \/ OpenNothing(t) \/ SetIdentifierLocked(t)
        \/ UpdateAssetInfo(t) \/ Destroy(t) \/ UpgradeAtomically(t) \/ Drop(t)
        \/ CreateAnonymous(t))
  BY <1>t, <1>o DEF BeginFind, BeginSetIdentifier, Begin, LockRead, UpgradeReleasing,
     Relock, FindFails, OpenNothing, SetIdentifierLocked, UpdateAssetInfo, Destroy,
     AfterDestroy,
     UpgradeAtomically, Drop, StartDestroy, CreateAnonymous, Return
<1>2. ~TryToFindLayer(t)
  <2> SUFFICES ASSUME TryToFindLayer(t) PROVE FALSE
    OBVIOUS
  <2>1. \E l : FoundNothing(t) \/ FoundLive(t, l) \/ FoundExpiring(t, l)
    BY DEF TryToFindLayer
  <2> QED
    BY <1>t, <1>o, <2>1 DEF TryToFindLayer, FoundNothing, FoundLive, FoundExpiring,
       Return
<1>7. ~Renames(t)
  BY <1>t, <1>o, RenamingMoves DEF Moves, EndRename, Return, UpdatePlaces
<1>3. ~(ReturnCurrent(t) \/ DropCurrent(t) \/ DropCurrentThen(t, "rename"))
  BY <1>t, <1>o DEF ReturnCurrent, Return, DropCurrent, DropCurrentThen, StartDestroy
<1>4. ~(FindReturns(t) \/ FindOrOpenReturns(t) \/ SetIdentifierFound(t) \/ ReadLayer(t))
  BY <1>t, <1>o, <1>3 DEF FindReturns, FindOrOpenReturns, SetIdentifierFound, ReadLayer
<1>5. OpenUnlocks(t) => init' = init /\ Opening(t) /\ cur'[t] = cur[t]
  BY DEF OpenUnlocks, Opening
<1>6. Open(t) \/ CreateNew(t) \/ OpenAsAnonymous(t)
      => init' = init /\ cur'[t] \in LayerObjects /\ life[cur'[t]] = "unborn"
  BY <1>t DEF Open, CreateNew, OpenAsAnonymous, ConstructAndUnlock, Construct
<1> QED
  BY <1>1, <1>2, <1>4, <1>5, <1>6, <1>7 DEF CallStep, RenameStep, Renames

LEMMA OpenedByOneKept ==
    ASSUME RegInv, NEW t \in Threads, CallStep(t)
    PROVE  OpenedByOne'
<1>t. /\ pc \in [Threads -> PCs] /\ cur \in [Threads -> LayerObjects \cup {None}]
      /\ life \in [LayerObjects -> {"unborn", "live", "dying", "dead"}] /\ None \notin LayerObjects
  BY NoneAssumption DEF RegInv, TypeOK
<1>1. ASSUME NEW u \in Threads, Opening(u)
      PROVE  cur[u] \in LayerObjects /\ life[cur[u]] = "live" /\ init[cur[u]] = "loading"
  BY <1>1, <1>t DEF Opening, RegInv, RefsAreLive, OpenedByOne
<1>2. ASSUME NEW u \in Threads, NEW v \in Threads, Opening(u), Opening(v), cur[u] = cur[v]
      PROVE  u = v
  BY <1>2 DEF RegInv, OpenedByOne
<1>3. ASSUME NEW l \in LayerObjects, life'[l] = "unborn" PROVE init'[l] = "loading"
  <2>1. life[l] = "unborn" /\ init[l] = "loading"
    BY <1>3, <1>t, LifeGoesOn, DestroyDestroys DEF RegInv, OpenedByOne
  <2>2. pc[t] = "reading" => cur[t] # l
    BY <1>1, <2>1 DEF Opening
  <2> QED
    BY <1>3, <1>t, <2>1, <2>2, StepInits
<1>4. ASSUME NEW u \in Threads, u # t, Opening(u)
      PROVE  init'[cur[u]] = "loading"
  <2>1. cur[u] \in LayerObjects /\ life[cur[u]] = "live" /\ init[cur[u]] = "loading"
    BY <1>1, <1>4
  <2>2. pc[t] = "reading" => cur[t] # cur[u]
    BY <1>2, <1>4 DEF Opening
  <2> QED
    BY <1>t, <2>1, <2>2, StepInits
<1>5. ASSUME NEW u \in Threads, u # t
      PROVE  (Opening(u)' <=> Opening(u)) /\ cur'[u] = cur[u]
  BY <1>5, OthersStay DEF Opening, RegInv
<1>6. ASSUME NEW u \in Threads, Opening(u)' PROVE init'[cur'[u]] = "loading"
  <2>1. CASE u = t
    <3>1. /\ init' = init
          /\ \/ Opening(t) /\ cur'[t] = cur[t]
             \/ cur'[t] \in LayerObjects /\ life[cur'[t]] = "unborn"
      BY <1>6, <2>1, StepOpens
    <3> QED
      BY <1>1, <2>1, <3>1 DEF RegInv, OpenedByOne
  <2>2. CASE u # t
    BY <1>4, <1>5, <1>6, <2>2
  <2> QED
    BY <2>1, <2>2
<1>7. ASSUME NEW u \in Threads, Opening(u)', Opening(t)', u # t PROVE cur'[u] # cur'[t]
  <2>1. Opening(u) /\ cur'[u] = cur[u] /\ cur[u] \in LayerObjects /\ life[cur[u]] = "live"
    BY <1>1, <1>5, <1>7
  <2>2. Opening(t) /\ cur'[t] = cur[t] => cur[u] # cur[t]
    BY <1>2, <1>7, <2>1
  <2> QED
    BY <1>7, <2>1, <2>2, StepOpens
<1>8. ASSUME NEW u \in Threads, NEW v \in Threads, Opening(u)', Opening(v)',
             cur'[v] = cur'[u]
      PROVE  v = u
  <2>1. CASE u # t /\ v # t
    BY <1>2, <1>5, <1>8, <2>1
  <2>2. CASE u = t \/ v = t
    BY <1>7, <1>8, <2>2
  <2> QED
    BY <2>1, <2>2
<1> QED
  BY <1>3, <1>6, <1>8 DEF OpenedByOne, Opening

(* What a caller comes to hold has been initialized.                       *)
LEMMA StepHolds ==
    ASSUME RegInv, NEW t \in Threads, CallStep(t), NEW l \in held'[t]
    PROVE  l \in held[t] \/ init'[l] = "ok"
<1>t. /\ held \in [Threads -> SUBSET LayerObjects] /\ cur \in [Threads -> LayerObjects \cup {None}]
      /\ init \in [LayerObjects -> {"loading", "ok", "failed"}]
  BY DEF RegInv, TypeOK
<1>1. BeginFind(t) \/ BeginSetIdentifier(t) \/ LockRead(t) \/ TryToFindLayer(t)
      \/ UpgradeAtomically(t) \/ UpgradeReleasing(t) \/ Relock(t) \/ FindFails(t)
      \/ OpenNothing(t) \/ Open(t) \/ OpenUnlocks(t) \/ CreateNew(t)
      \/ OpenAsAnonymous(t) \/ SetIdentifierLocked(t) \/ UpdateAssetInfo(t) \/ Destroy(t)
      \/ DropCurrent(t) \/ DropCurrentThen(t, "rename") \/ Renames(t)
      => held' = held
  BY RenamingMoves DEF BeginFind, BeginSetIdentifier, Begin, LockRead, TryToFindLayer,
     UpgradeAtomically, UpgradeReleasing, Relock, FindFails, OpenNothing, Open,
     OpenUnlocks, CreateNew, OpenAsAnonymous, ConstructAndUnlock, SetIdentifierLocked,
     UpdateAssetInfo, Destroy, DropCurrent, DropCurrentThen, threadVars
<1>2. ReturnCurrent(t) => l \in held[t] \/ l = cur[t]
  BY <1>t DEF ReturnCurrent
<1>3. FindReturns(t) \/ FindOrOpenReturns(t) \/ SetIdentifierFound(t)
      => l \in held[t] \/ init'[l] = "ok"
  BY <1>1, <1>2 DEF FindReturns, FindOrOpenReturns, SetIdentifierFound
<1>4. ASSUME ReadLayer(t) PROVE l \in held[t] \/ init'[l] = "ok"
  <2>1. \/ DropCurrent(t)
        \/ FinishInitialization(cur[t], TRUE) /\ ReturnCurrent(t)
    BY <1>4 DEF ReadLayer
  <2>2. cur[t] \in LayerObjects
    BY <1>4, <1>t DEF ReadLayer, RegInv, RefsAreLive
  <2> QED
    BY <1>t, <1>1, <1>2, <2>1, <2>2 DEF FinishInitialization
<1>5. CreateAnonymous(t) => l \in held[t] \/ init'[l] = "ok"
  BY <1>t DEF CreateAnonymous, FinishInitialization
<1>6. Drop(t) => l \in held[t]
  BY <1>t DEF Drop
<1> QED
  BY <1>1, <1>3, <1>4, <1>5, <1>6 DEF CallStep, RenameStep, Renames

LEMMA HeldKept ==
    ASSUME RegInv, NEW t \in Threads, CallStep(t)
    PROVE  HeldIsInitialized'
<1>t. held \in [Threads -> SUBSET LayerObjects] /\ None \notin LayerObjects
  BY NoneAssumption DEF RegInv, TypeOK
<1>1. ASSUME NEW u \in Threads, NEW l \in held[u] PROVE init'[l] = "ok"
  <2>1. l \in LayerObjects /\ life[l] = "live" /\ init[l] = "ok"
    BY <1>t DEF RegInv, HeldIsInitialized
  <2>2. pc[t] = "reading" => cur[t] # l
    BY <2>1 DEF RegInv, OpenedByOne, Opening
  <2> QED
    BY <2>1, <2>2, StepInits
<1>2. ASSUME NEW u \in Threads, NEW l \in held'[u]
      PROVE  l \in LayerObjects /\ init'[l] = "ok"
  <2>1. CASE u = t
    BY <1>1, <2>1, StepHolds, HoldsLayers
  <2>2. CASE u # t
    BY <1>t, <1>1, <2>2, OthersStay DEF RegInv
  <2> QED
    BY <2>1, <2>2
<1> QED
  BY <1>2, RefsKept DEF HeldIsInitialized

(* A caller drops layers only between its calls.                           *)
LEMMA SelfKept ==
    ASSUME RegInv, NEW t \in Threads, CallStep(t)
    PROVE  SelfIsHeld'
<1>t. /\ pc \in [Threads -> PCs] /\ held \in [Threads -> SUBSET LayerObjects]
      /\ call \in [Threads -> CallRecords]
  BY DEF RegInv, TypeOK, CallRecords
<1>s. /\ pc[t] = "idle" => call[t] = NoCall
      /\ call[t].op \in Renaming => call[t].self \in held[t]
      /\ pc[t] \in {"rename"} \cup UpdatePlaces => call[t].op \in Renaming
  BY DEF RegInv, SelfIsHeld
<1> DEFINE Kept(u) == /\ pc'[u] = "idle" => call'[u] = NoCall
                      /\ call'[u].op \in Renaming => call'[u].self \in held'[u]
                      /\ pc'[u] \in {"rename"} \cup UpdatePlaces => call'[u].op \in Renaming
           Returned == call'[t] = NoCall /\ pc'[t] \in {"idle", "destroy"}
           Stayed == /\ call'[t].op = call[t].op /\ call'[t].self = call[t].self
                     /\ held'[t] = held[t] /\ pc'[t] # "idle"
                     /\ pc'[t] \in {"rename"} \cup UpdatePlaces => call[t].op \in Renaming
           Opened == call'[t].op \in AllCalls \ Renaming
                        /\ pc'[t] \in {"opened", "reading"}
<1> USE DEF threadVars, layerVars
<1>1. Returned \/ Stayed \/ Opened => Kept(t)
  BY <1>s DEF NoCall, Renaming, UpdatePlaces
<1>2. BeginFind(t) \/ BeginSetIdentifier(t) => Kept(t)
  BY <1>t DEF BeginFind, BeginSetIdentifier, Begin, Renaming, UpdatePlaces
<1>3. LockRead(t) \/ UpgradeAtomically(t) \/ UpgradeReleasing(t) \/ Relock(t)
      \/ OpenUnlocks(t)
      => Stayed
  BY <1>t DEF LockRead, UpgradeAtomically, UpgradeReleasing, Relock, OpenUnlocks,
     UpdatePlaces
<1>4. FindFails(t) \/ OpenNothing(t) \/ ReturnCurrent(t) \/ DropCurrent(t)
      => Returned
  BY <1>t DEF FindFails, OpenNothing, ReturnCurrent, DropCurrent, DropCurrentThen,
     StartDestroy, Return
<1>5. FindReturns(t) \/ FindOrOpenReturns(t) \/ ReadLayer(t)
      => Returned
  BY <1>4 DEF FindReturns, FindOrOpenReturns, ReadLayer
<1>6. ASSUME TryToFindLayer(t) PROVE Returned \/ Stayed
  <2>1. \E l : FoundNothing(t) \/ FoundLive(t, l) \/ FoundExpiring(t, l)
    BY <1>6 DEF TryToFindLayer
  <2> QED
    BY <1>6, <1>t, <2>1 DEF TryToFindLayer, FoundNothing, FoundLive, FoundExpiring,
       Return, CallRecords, UpdatePlaces
<1>7. CreateNew(t) \/ OpenAsAnonymous(t) => Opened
  BY <1>t DEF CreateNew, OpenAsAnonymous, ConstructAndUnlock, NoCall, AllCalls, Renaming
<1>8. Open(t) => Opened
  BY <1>t DEF Open, NoCall, AllCalls, Renaming
<1>9. CreateAnonymous(t) \/ Drop(t) => Returned
  BY <1>t, <1>s DEF CreateAnonymous, Drop, StartDestroy
<1>10. ASSUME SetIdentifierFound(t) PROVE Returned \/ Stayed
  <2>1. call[t].op = "SetIdentifier"
    BY <1>10 DEF SetIdentifierFound, Wait
  <2>2. DropCurrent(t) => Returned
    BY <1>4
  <2>3. DropCurrentThen(t, "rename") /\ UNCHANGED call => Stayed
    BY <2>1, <1>t DEF DropCurrentThen, StartDestroy, Renaming, UpdatePlaces
  <2> QED
    BY <1>10, <1>t, <2>1, <2>2, <2>3 DEF SetIdentifierFound, Renaming
<1>11. SetIdentifierLocked(t) => Stayed
  BY <1>t DEF SetIdentifierLocked, Renaming
<1>12. UpdateAssetInfo(t) => Kept(t)
  BY <1>t DEF UpdateAssetInfo, NoCall, Renaming, UpdatePlaces
<1>13. ASSUME Destroy(t) PROVE Returned \/ Stayed
  BY <1>13, <1>t DEF Destroy, AfterDestroy, Return, Renaming
<1>14. ASSUME Renames(t) PROVE Returned \/ Stayed
  BY <1>s, <1>t, <1>14, RenamingMoves DEF Moves, EndRename, Return, UpdatePlaces
<1>15. Kept(t)
  BY <1>1, <1>2, <1>3, <1>4, <1>5, <1>6, <1>7, <1>8, <1>9, <1>10, <1>11, <1>12, <1>13,
     <1>14 DEF CallStep, RenameStep, Renames
<1>16. ASSUME NEW u \in Threads, u # t PROVE Kept(u)
  BY <1>16, OthersStay DEF RegInv, SelfIsHeld
<1> QED
  BY <1>15, <1>16 DEF SelfIsHeld

LEMMA QueueTyped ==
    ASSUME TypeOK, NEW t \in Threads
    PROVE  /\ Request(t) => queue' \in Seq(Threads)
           /\ Served(t) => queue' \in Seq(Threads)
<1>1. queue \in Seq(Threads)
  BY DEF TypeOK
<1>2. Append(queue, t) \in Seq(Threads)
  BY <1>1, AppendProperties
<1>3. queue # <<>> => Tail(queue) \in Seq(Threads)
  BY <1>1, HeadTailProperties
<1> QED
  BY <1>2, <1>3 DEF Request, Served

LEMMA MutexTyped ==
    ASSUME RegInv, NEW t \in Threads, CallStep(t)
    PROVE  /\ readers' \subseteq Threads /\ writer' \in Threads \cup {None}
           /\ writer' # None => readers' = {}
           /\ queue' \in Seq(Threads)
<1>t. /\ readers \subseteq Threads /\ writer \in Threads \cup {None}
      /\ writer # None => readers = {}
      /\ queue \in Seq(Threads) /\ None \notin Threads
  BY NoneAssumption DEF RegInv, TypeOK
<1>q. (Request(t) \/ Served(t) \/ queue' = queue) => queue' \in Seq(Threads)
  BY <1>t, QueueTyped DEF RegInv
<1> DEFINE Locked == /\ readers' \subseteq Threads /\ writer' \in Threads \cup {None}
                     /\ writer' # None => readers' = {}
           Queued == Request(t) \/ Served(t) \/ queue' = queue
           Typed == Locked /\ Queued
<1> USE DEF mutexVars, threadVars
<1>1. UNCHANGED mutexVars => Typed
  BY <1>t
<1>2. BeginFind(t) \/ BeginSetIdentifier(t) \/ LockRead(t) \/ UpgradeReleasing(t)
      \/ Relock(t) \/ UpgradeAtomically(t)
      => Typed
  BY <1>t DEF BeginFind, BeginSetIdentifier, Begin, LockRead, UpgradeReleasing,
     Relock, Free, UpgradeAtomically
<1>3. Unlock(t) => Typed
  BY <1>t DEF Unlock
<1>4. OpenUnlocks(t) \/ FindFails(t) \/ OpenNothing(t) => Typed
  BY <1>3 DEF OpenUnlocks, FindFails, OpenNothing
<1>12. Renames(t) => Typed
  BY <1>1, <1>3, RenamingMoves DEF Moves, EndRename
<1>13. UpdateAssetInfo(t) => Typed
  BY <1>t DEF UpdateAssetInfo, Free
<1>5. Destroy(t) => Typed
  BY <1>t DEF Destroy
<1>6. ASSUME TryToFindLayer(t) PROVE Typed
  <2>1. \E l : FoundNothing(t) \/ FoundLive(t, l) \/ FoundExpiring(t, l)
    BY <1>6 DEF TryToFindLayer
  <2>2. Unlock(t) \/ UNCHANGED mutexVars
    BY <2>1 DEF FoundNothing, FoundLive, FoundExpiring
  <2> QED
    BY <1>1, <1>3, <2>2
<1>7. ASSUME NEW l, StartDestroy(t, l) PROVE Typed
  BY <1>7, <1>t DEF StartDestroy
<1>8. ReturnCurrent(t) \/ DropCurrent(t) \/ DropCurrentThen(t, "rename") \/ Drop(t) => Typed
  BY <1>1, <1>7 DEF ReturnCurrent, DropCurrent, DropCurrentThen, Drop
<1>9. FindReturns(t) \/ FindOrOpenReturns(t) \/ SetIdentifierFound(t) \/ ReadLayer(t)
      => Typed
  BY <1>1, <1>8 DEF FindReturns, FindOrOpenReturns, SetIdentifierFound, ReadLayer
<1>10. Open(t) \/ CreateNew(t) \/ OpenAsAnonymous(t) \/ CreateAnonymous(t)
       \/ SetIdentifierLocked(t)
       => Typed
  BY <1>1 DEF Open, CreateNew, OpenAsAnonymous, CreateAnonymous, ConstructAndUnlock,
     SetIdentifierLocked
<1>11. Typed
  BY <1>2, <1>4, <1>5, <1>6, <1>8, <1>9, <1>10, <1>12, <1>13
     DEF CallStep, RenameStep, Renames
<1> QED
  BY <1>11, <1>q

LEMMA LayersTyped ==
    ASSUME RegInv, NEW t \in Threads, CallStep(t)
    PROVE  /\ resolve' \in Resolutions
           /\ life' \in [LayerObjects -> {"unborn", "live", "dying", "dead"}]
           /\ init' \in [LayerObjects -> {"loading", "ok", "failed"}]
           /\ registry' \in Registries /\ info' \in [LayerObjects -> Infos]
<1>t. /\ life \in [LayerObjects -> {"unborn", "live", "dying", "dead"}]
      /\ init \in [LayerObjects -> {"loading", "ok", "failed"}]
      /\ resolve \in Resolutions
  BY DEF RegInv, TypeOK
<1>1. resolve' = resolve
  BY RenamingMoves DEF CallStep, RenameStep, Renames, BeginFind, BeginSetIdentifier,
     Begin, LockRead, TryToFindLayer,
     UpgradeAtomically, UpgradeReleasing, Relock, FindFails, FindReturns,
     FindOrOpenReturns, OpenNothing, Open, OpenUnlocks, ReadLayer, CreateNew,
     OpenAsAnonymous, ConstructAndUnlock, CreateAnonymous, SetIdentifierLocked,
     SetIdentifierFound, UpdateAssetInfo, Drop, Destroy
<1>2. life' \in [LayerObjects -> {"unborn", "live", "dying", "dead"}]
  BY <1>t, StepLives, DestroyDestroys DEF Lives, Drops
<1>3. init' \in [LayerObjects -> {"loading", "ok", "failed"}]
  <2>1. \/ init' = init
        \/ \E l : \E b \in BOOLEAN : FinishInitialization(l, b)
        \/ \E l : Gone(l)
    BY RenamingMoves DEF CallStep, RenameStep, Renames, BeginFind, BeginSetIdentifier,
       Begin, LockRead, TryToFindLayer,
       UpgradeAtomically, UpgradeReleasing, Relock, FindFails, FindReturns,
       FindOrOpenReturns, OpenNothing, Open, OpenUnlocks, ReadLayer, CreateNew,
       OpenAsAnonymous, ConstructAndUnlock, CreateAnonymous, SetIdentifierLocked,
       SetIdentifierFound, UpdateAssetInfo, Drop, Destroy, layerVars
  <2> QED
    BY <1>t, <2>1 DEF FinishInitialization, Gone
<1>4. registry' \in Registries /\ info' \in [LayerObjects -> Infos]
  <2>1. CASE Renames(t)
    BY <2>1, SwapMoves, UpdateMoves DEF Renames, Reentered
  <2>2. CASE ~Renames(t)
    BY <2>2, StepReenters, RegistryTyped DEF RegInv, Reentered, Unregistered
  <2> QED
    BY <2>1, <2>2
<1> QED
  BY <1>t, <1>1, <1>2, <1>3, <1>4

LEMMA ThreadsTyped ==
    ASSUME RegInv, NEW t \in Threads, CallStep(t)
    PROVE  /\ pc' \in [Threads -> PCs] /\ call' \in [Threads -> CallRecords]
           /\ handle' \in [Threads -> LayerObjects \cup {None}]
           /\ cur' \in [Threads -> LayerObjects \cup {None}]
           /\ held' \in [Threads -> SUBSET LayerObjects]
<1>t. /\ pc \in [Threads -> PCs] /\ call \in [Threads -> CallRecords]
      /\ handle \in [Threads -> LayerObjects \cup {None}]
      /\ cur \in [Threads -> LayerObjects \cup {None}]
      /\ held \in [Threads -> SUBSET LayerObjects]
  BY DEF RegInv, TypeOK, CallRecords
<1> DEFINE At == pc' = pc \/ \E p \in PCs : pc' = [pc EXCEPT ![t] = p]
           Called == call' = call \/ \E c \in CallRecords : call' = [call EXCEPT ![t] = c]
           Handled == handle' = handle \/ \E h : handle' = [handle EXCEPT ![t] = h]
           Referred == cur' = cur \/ \E l : cur' = [cur EXCEPT ![t] = l]
           Held == held' = held \/ \E ls : held' = [held EXCEPT ![t] = ls]
           Typed == At /\ Called /\ Handled /\ Referred /\ Held
<1> USE DEF threadVars, layerVars
<1>p. {"idle", "lockRead", "find", "upgrade", "relock", "haveWrite", "opened",
       "reading", "wait", "destroy", "rename"} \cup UpdatePlaces \subseteq PCs
  BY DEF PCs
<1>n. NoCall \in CallRecords
      /\ \A op \in Calls : [NoCall EXCEPT !.op = op] \in CallRecords
  BY CallsAssumption DEF NoCall, CallRecords
<1>m. \A l \in held[t] :
          [NoCall EXCEPT !.op = "UpdateAssetInfo", !.id = info[l].id, !.self = l] \in CallRecords
  BY DEF NoCall, CallRecords, AllCalls, RegInv, TypeOK, Infos
<1>1. ASSUME NEW op, NEW id \in Identifiers, NEW self \in LayerObjects \cup {None},
             Begin(t, op, id, self)
      PROVE  Typed
  <2>1. (IF id \in Ids THEN resolve[id] ELSE None) \in RealPaths \cup {None}
    BY ResolverAssumption DEF RegInv, TypeOK
  <2>2. [op |-> op, id |-> id, self |-> self,
         path |-> IF id \in Ids THEN resolve[id] ELSE None] \in CallRecords
    BY <1>1, <2>1, CallsAssumption DEF Begin, CallRecords
  <2> QED
    BY <1>1, <1>p, <2>2 DEF Begin
<1>2. BeginFind(t) \/ BeginSetIdentifier(t) => Typed
  BY <1>t, <1>1 DEF BeginFind, BeginSetIdentifier, Identifiers
<1>3. Return(t) => At /\ Called /\ Handled /\ Referred
  BY <1>p, <1>n DEF Return
<1>4. LockRead(t) \/ UpgradeAtomically(t) \/ UpgradeReleasing(t) \/ Relock(t)
      \/ OpenUnlocks(t) \/ SetIdentifierLocked(t) \/ CreateAnonymous(t)
      => Typed
  BY <1>p DEF LockRead, UpgradeAtomically, UpgradeReleasing, Relock, OpenUnlocks,
     SetIdentifierLocked, CreateAnonymous
<1>15. ASSUME Open(t) PROVE Typed
  <2>1. call' = [call EXCEPT ![t] = [op |-> "FindOrOpen", id |-> None, path |-> None,
                                     self |-> None]]
    BY <1>15 DEF Open, NoCall
  <2>5. [op |-> "FindOrOpen", id |-> None, path |-> None, self |-> None] \in CallRecords
    BY DEF CallRecords, AllCalls
  <2>2. Called
    BY <2>1, <2>5
  <2>3. At
    BY <1>15, <1>p DEF Open
  <2>4. Referred /\ Handled /\ Held
    BY <1>15 DEF Open
  <2> QED
    BY <2>2, <2>3, <2>4
<1>13. UpdateAssetInfo(t) => Typed
  BY <1>p, <1>m DEF UpdateAssetInfo
<1>14. Renames(t) => Typed
  BY <1>3, <1>p, RenamingMoves DEF Moves, EndRename
<1>5. FindFails(t) \/ OpenNothing(t) \/ Destroy(t) \/ ReturnCurrent(t) => Typed
  BY <1>3, <1>p DEF FindFails, OpenNothing, Destroy, AfterDestroy, ReturnCurrent
<1>6. DropCurrent(t) => Typed
  BY <1>p, <1>n DEF DropCurrent, DropCurrentThen, StartDestroy
<1>16. DropCurrentThen(t, "rename") => At /\ Handled /\ Referred /\ Held
  BY <1>p DEF DropCurrentThen, StartDestroy
<1>17. SetIdentifierFound(t) => Typed
  BY <1>p, <1>6, <1>16 DEF SetIdentifierFound
<1>7. FindReturns(t) \/ FindOrOpenReturns(t) \/ ReadLayer(t) => Typed
  BY <1>5, <1>6 DEF FindReturns, FindOrOpenReturns, ReadLayer
<1>8. ASSUME TryToFindLayer(t) PROVE Typed
  <2>1. \E l : FoundNothing(t) \/ FoundLive(t, l) \/ FoundExpiring(t, l)
    BY <1>8 DEF TryToFindLayer
  <2> QED
    <3>1. ASSUME NEW l, FoundLive(t, l) PROVE Typed
      <4>1. [call[t] EXCEPT !.path = None] \in CallRecords
        BY <1>t DEF CallRecords
      <4>2. call' = [call EXCEPT ![t] = [call[t] EXCEPT !.path = None]]
        BY <3>1 DEF FoundLive
      <4>3. Called
        BY <4>1, <4>2
      <4> QED
        BY <1>8, <1>p, <3>1, <4>3 DEF TryToFindLayer, FoundLive
    <3>2. FoundNothing(t) => Typed
      BY <1>8, <1>3, <1>p DEF TryToFindLayer, FoundNothing
    <3>3. ASSUME NEW l, FoundExpiring(t, l) PROVE Typed
      BY <1>8, <1>p, <3>3 DEF TryToFindLayer, FoundExpiring
    <3> QED
      BY <2>1, <3>1, <3>2, <3>3
<1>9. CreateNew(t) \/ OpenAsAnonymous(t) => Typed
  BY <1>p, <1>n DEF CreateNew, OpenAsAnonymous, ConstructAndUnlock
<1>10. Drop(t) => Typed
  BY <1>p DEF Drop, StartDestroy
<1>11. Typed
  BY <1>2, <1>4, <1>5, <1>7, <1>8, <1>9, <1>10, <1>13, <1>14, <1>15, <1>17
     DEF CallStep, RenameStep, Renames
<1>12. /\ handle'[t] \in LayerObjects \cup {None} /\ held'[t] \subseteq LayerObjects
       /\ cur'[t] \in LayerObjects \cup {None}
  BY StepHandles, HoldsLayers
<1> QED
  BY <1>t, <1>11, <1>12

LEMMA UpdatesTyped ==
    ASSUME RegInv, NEW t \in Threads, CallStep(t)
    PROVE  /\ oldInfo' \in [Threads -> Infos] /\ newAliases' \in [Threads -> Infos]
           /\ clashed' \subseteq LayerObjects
<1>t. /\ oldInfo \in [Threads -> Infos] /\ newAliases \in [Threads -> Infos]
      /\ clashed \subseteq LayerObjects /\ info \in [LayerObjects -> Infos]
  BY DEF RegInv, TypeOK
<1>n. NoInfo \in Infos
  BY DEF NoInfo, Infos
<1>1. CASE Renames(t)
  <2>1. call[t].self \in LayerObjects
    BY <1>1, RenamingMoves, SelfIsLive
  <2>2. CASE SwapAssetInfo(t)
    BY <1>t, <2>1, <2>2 DEF SwapAssetInfo
  <2>3. CASE UpdateStep(t)
    BY <1>t, <1>n, <2>1, <2>3 DEF UpdateStep, OutOfRealPaths, IntoRealPaths,
       OutOfRepositoryPaths, IntoRepositoryPaths, OutOfIdentifiers, IdentifierStays,
       IntoIdentifiers, EndUpdate, UpdateFrame
  <2> QED
    BY <1>1, <2>2, <2>3 DEF Renames
<1>2. CASE ~Renames(t)
  <2>1. UNCHANGED updateVars
    BY <1>2 DEF CallStep, RenameStep, Renames, BeginFind, BeginSetIdentifier, Begin,
       LockRead, TryToFindLayer, UpgradeAtomically, UpgradeReleasing, Relock, FindFails,
       FindReturns, FindOrOpenReturns, OpenNothing, Open, OpenUnlocks, ReadLayer,
       CreateNew, OpenAsAnonymous, ConstructAndUnlock, CreateAnonymous,
       SetIdentifierLocked, SetIdentifierFound, UpdateAssetInfo, Drop, Destroy
  <2> QED
    BY <1>t, <2>1 DEF updateVars
<1> QED
  BY <1>1, <1>2

LEMMA TypeKept ==
    ASSUME RegInv, NEW t \in Threads, CallStep(t)
    PROVE  TypeOK'
BY MutexTyped, LayersTyped, ThreadsTyped, UpdatesTyped DEF TypeOK, Registries,
   CallRecords

-----------------------------------------------------------------------------
(* The theorems                                                            *)

LEMMA RegInvAtFirst == Init => RegInv
<1> SUFFICES ASSUME Init PROVE RegInv
  OBVIOUS
<1>1. TypeOK
  BY EmptySeq, ResolverAssumption DEF Init, TypeOK, Identifiers, NoInfo, NoCall, PCs,
     Infos
<1>2. MutexKept /\ RefsAreLive /\ DestroyedOnce /\ OpenedByOne /\ HandlesAreUsed
      /\ SelfIsHeld /\ UpdatesRight /\ HeldIsInitialized /\ HandleIsProtected
  BY DEF Init, MutexKept, RefsAreLive, DestroyedOnce, OpenedByOne, Opening,
     HandlesAreUsed, SelfIsHeld, Renaming, UpdatePlaces, UpdatesRight, Updating,
     HeldIsInitialized, HandleIsProtected, NoCall
<1>3. RegistryExact
  BY DEF Init, RegistryExact, Indexed, NamedRight
<1> QED
  BY <1>1, <1>2, <1>3 DEF RegInv

LEMMA RegInvStep == RegInv /\ [Next]_vars => RegInv'
<1> SUFFICES ASSUME RegInv, [Next]_vars PROVE RegInv'
  OBVIOUS
<1>1. ASSUME NEW t \in Threads, CallStep(t) PROVE RegInv'
  BY <1>1, TypeKept, MutexKeptOn, RefsAreLiveKept, HandlesKept, OpenedByOneKept,
     SelfKept, UpdatesKept, HeldKept, ExactKept DEF RegInv
<1>2. CASE /\ resolve' \in Resolutions
           /\ UNCHANGED <<mutexVars, registry, layerVars, threadVars, clashed>>
  <2> USE <1>2 DEF RegInv, mutexVars, layerVars, threadVars
  <2>1. TypeOK'
    BY DEF TypeOK
  <2>2. MutexKept' /\ RefsAreLive' /\ DestroyedOnce' /\ OpenedByOne'
    BY DEF MutexKept, RefsAreLive, DestroyedOnce, OpenedByOne, Opening
  <2>3. HandlesAreUsed' /\ SelfIsHeld' /\ HeldIsInitialized' /\ HandleIsProtected'
        /\ UpdatesRight'
    BY DEF HandlesAreUsed, SelfIsHeld, HeldIsInitialized, HandleIsProtected,
       UpdatesRight, Updating
  <2>4. RegistryExact'
    BY DEF RegistryExact, Indexed, NamedRight, Updating
  <2> QED
    BY <2>1, <2>2, <2>3, <2>4
<1>3. CASE ResolverChanges
  BY <1>2, <1>3 DEF ResolverChanges
<1>4. CASE UNCHANGED vars
  BY <1>2, <1>4 DEF vars, RegInv, TypeOK
<1> QED
  BY <1>1, <1>3, <1>4 DEF Next

(* Every reachable state of the layer registry satisfies RegInv.           *)
THEOREM RegistryInvariant == Spec => []RegInv
BY RegInvAtFirst, RegInvStep, PTL DEF Spec

(* The registry never shows a destroyed layer, shows every other one under *)
(* the names it has, or had until the renaming under way, and one layer    *)
(* for a real path, whoever opens and renames layers, with the mutex or    *)
(* without, while others destroy theirs: but for layers that two threads   *)
(* renamed at once.                                                        *)
THEOREM RegistryIsExact == Spec => []RegistryExact
BY RegistryInvariant, PTL DEF RegInv

(* A layer that FindOrOpen, CreateNew or another call has handed out is    *)
(* live and has been initialized with success.                             *)
THEOREM RegistryHandsOutInitialized == Spec => []HeldIsInitialized
BY RegistryInvariant, PTL DEF RegInv

(* The handle that _TryToFindLayer kept over its upgrade is that of a      *)
(* layer not yet destroyed: the read lock keeps the destructor out.        *)
THEOREM RegistryHandleIsProtected == Spec => []HandleIsProtected
BY RegistryInvariant, PTL DEF RegInv

(* The identifier of a live layer goes from the registry only while that   *)
(* layer is renamed: no destructor, no thread that erases an expiring      *)
(* layer it found or renames another one, takes it out.                    *)
THEOREM RegistryLiveLayersStay == Spec => LiveLayersStay
<1>1. RegInv /\ [Next]_vars =>
          [\A l \in LayerObjects : \A id \in Identifiers :
              /\ <<id, l>> \in registry.byId /\ <<id, l>> \notin registry'.byId
              => life[l] = "dying" \/ \E t \in Threads : Updating(t, l)]_vars
  <2> SUFFICES ASSUME RegInv, [Next]_vars,
                      NEW l \in LayerObjects, NEW id \in Identifiers,
                      <<id, l>> \in registry.byId, <<id, l>> \notin registry'.byId
               PROVE  life[l] = "dying" \/ \E t \in Threads : Updating(t, l)
    OBVIOUS
  <2>1. registry' # registry
    OBVIOUS
  <2>2. PICK t \in Threads : CallStep(t)
    BY <2>1 DEF Next, ResolverChanges, vars
  <2>3. CASE Renames(t)
    <3>1. UpdateStep(t)
      BY <2>1, <2>2, <2>3, SwapMoves DEF Renames
    <3>2. Updating(t, call[t].self) /\ Reentered(call[t].self)
      BY <3>1, UpdateStepUpdates, UpdateMoves
    <3>3. call[t].self = l
      BY <3>2 DEF Reentered, SameButFor
    <3> QED
      BY <3>2, <3>3
  <2>4. CASE ~Renames(t)
    <3>1. PICK m \in LayerObjects :
              /\ Reentered(m) /\ (life[m] = "unborn" \/ life[m] = "dying")
      BY <2>1, <2>2, <2>4, StepReenters DEF Unregistered
    <3>2. m = l
      BY <3>1 DEF Reentered, SameButFor
    <3>3. life[l] # "unborn"
      BY ExactMeans DEF RegInv, Shows, UpdatesRight
    <3> QED
      BY <3>1, <3>2, <3>3
  <2> QED
    BY <2>3, <2>4
<1> QED
  BY <1>1, RegistryInvariant, PTL DEF Spec, LiveLayersStay

-----------------------------------------------------------------------------
(* Edits, change lists and notices. What a change list L says, if the      *)
(* layer held w when it was begun and holds c.                             *)

(* The flags that say that a prim came or went.                            *)
Marks == AddFlags \cup RemoveFlags

(* An entry that was not moved tells that what was at q has gone: with all *)
(* that is below, or alone.                                                *)
RemovedHere(e, q) ==
  /\ e.oldPath = NoPath
  /\ \/ "didRemoveNonInertPrim" \in e.flags /\ Under(q, e.path)
     \/ "didRemoveInertPrim" \in e.flags /\ q = e.path

(* An entry of a prim that was removed and that came from above q.         *)
RemovedElsewhere(e, q) ==
  "didRename" \in e.flags /\ e.flags \cap RemoveFlags # {} /\ Under(q, e.oldPath)

(* An entry of a prim that has been renamed and is still there: what was   *)
(* below its old path went with it.                                        *)
RenamedSince(e, c, m) ==
  /\ "didRename" \in e.flags /\ e.flags \cap Marks = {}
  /\ Under(m, e.oldPath) /\ c[e.path] # Absent

(* e tells that what w held at q is not what is at m now.                  *)
TellsGone(e, c, q, m) ==
  RemovedHere(e, q) \/ RemovedElsewhere(e, q) \/ RenamedSince(e, c, m)

(* All that w held at m and below is told to have gone.                    *)
ToldGone(w, c, L, m) == \A q \in Paths : w[q] # Absent /\ Under(q, m) =>
  \E e \in Range(L) : TellsGone(e, c, q, m)

(* Of two entries about one path the earlier tells of a coming or a going: *)
(* it is what keeps them apart.                                            *)
EarlierMarked(L) == \A i, j \in DOMAIN L :
  i < j /\ L[i].path = L[j].path => L[i].flags \cap Marks # {}

(* Entries with an old path are of renames, within one parent, or of       *)
(* moves, which are additions.                                             *)
RenamesFit(L) == \A e \in Range(L) :
  /\ "didRename" \in e.flags => e.oldPath # NoPath
  /\ e.oldPath # NoPath /\ e.flags \cap AddFlags = {} =>
       "didRename" \in e.flags /\ Parent(e.oldPath) = Parent(e.path)

(* Whatever has gone since w is told.                                      *)
GoneAreTold(w, c, L) == \A m \in Paths : c[m] = Absent => ToldGone(w, c, L, m)

(* Where something has come, what was there before is told to have gone.   *)
ReplacedAreTold(w, c, L) == \A e \in Range(L) :
  e.oldPath # NoPath \/ e.flags \cap AddFlags # {} => ToldGone(w, c, L, e.path)

(* A spec that no entry says has gone has its change of info in an entry   *)
(* about it, from the value it had in w to the one it has.                 *)
InfosFit(w, c, L) == \A q \in Paths :
  w[q] # Absent /\ ~(\E e \in Range(L) : TellsGone(e, c, q, q)) =>
    LET known == {e.infoChanged : e \in {f \in Range(L) : f.path = q}}
    IN  /\ known \subseteq {<< >>, << w[q], c[q] >>}
        /\ w[q] # c[q] => ~(known \subseteq {<< >>})

(* e tells that q is new: with its whole subtree, or alone.                *)
TellsNew(e, q) ==
  \/ e.flags \cap {"didAddNonInertPrim", "didRename"} # {} /\ Under(q, e.path)
  \/ e.flags \cap AddFlags # {} /\ q = e.path

(* Whatever has come since w is told.                                      *)
NewAreTold(w, c, L) == \A q \in Paths : w[q] = Absent /\ c[q] # Absent =>
  \E e \in Range(L) : TellsNew(e, q)

(* What a list says of that which was in w.                                *)
OldTold(w, c, L) ==
  /\ EarlierMarked(L) /\ RenamesFit(L)
  /\ GoneAreTold(w, c, L) /\ ReplacedAreTold(w, c, L) /\ InfosFit(w, c, L)

(* L is a right account of how w became c. InfoExact does not follow from  *)
(* itself: a removal can merge into an entry that was moved, and a rename  *)
(* can carry the info of another prim, so the invariant is about every     *)
(* entry and its old path.                                                 *)
ListInv(w, c, L) == OldTold(w, c, L) /\ NewAreTold(w, c, L)

(* f is still to hear of round r, and will not refuse it.                  *)
Expects(f, r) == Awaits(f, r) /\ (f \in stages => r.serial = 0 \/ heard[f] < r.serial)

(* No round or stage knows a number that was not taken.                    *)
NumbersFit ==
  /\ \A i \in DOMAIN rounds : rounds[i].serial <= serial
  /\ \A s \in Stages : heard[s] <= serial

(* A set of numbers that is not empty has a least one.                     *)
LEMMA Least ==
    ASSUME NEW T, T \subseteq Nat, T # {}
    PROVE  \E i \in T : \A j \in T : i <= j
<1>1. IsWellFoundedOn(OpToRel(<, Nat), Nat)
  BY NatLessThanWellFounded
<1>2. PICK i \in T : \A j \in T : <<j, i>> \notin OpToRel(<, Nat)
  BY <1>1, WFMin
<1>3. \A j \in T : ~(j < i)
  BY <1>2 DEF OpToRel
<1> QED
  BY <1>3

(* The prefixes of sequences, by their elements.                           *)
LEMMA SeqPrefixMeans ==
    ASSUME NEW S, NEW s \in Seq(S), NEW t \in Seq(S)
    PROVE  IsPrefix(s, t) <=>
               Len(s) <= Len(t) /\ \A i \in 1 .. Len(s) : s[i] = t[i]
<1> DEFINE n == Len(s)
<1>1. n \in Nat /\ Len(t) \in Nat /\ s \in Seq(S) /\ t \in Seq(S)
  OBVIOUS
<1>2. CASE ~(Len(s) <= Len(t))
  BY <1>2 DEF IsPrefix
<1>3. CASE Len(s) <= Len(t)
  <2>1. (\A i \in 1 .. n : s[i] \in S) /\ (\A i \in 1 .. n : t[i] \in S)
    BY <1>1, <1>3, ElementOfSeq
  <2> HIDE DEF n
  <2>2. /\ SubSeq(s, 1, n) \in Seq(S)
        /\ Len(SubSeq(s, 1, n)) = IF 1 <= n THEN n - 1 + 1 ELSE 0
        /\ \A i \in 1 .. n - 1 + 1 : SubSeq(s, 1, n)[i] = s[1 + i - 1]
    BY <1>1, <2>1, SubSeqProperties
  <2>3. /\ SubSeq(t, 1, n) \in Seq(S)
        /\ Len(SubSeq(t, 1, n)) = IF 1 <= n THEN n - 1 + 1 ELSE 0
        /\ \A i \in 1 .. n - 1 + 1 : SubSeq(t, 1, n)[i] = t[1 + i - 1]
    BY <1>1, <2>1, SubSeqProperties
  <2>4. \A i \in 1 .. n : i \in 1 .. n - 1 + 1 /\ 1 + i - 1 = i
    BY <1>1
  <2>5. /\ Len(SubSeq(s, 1, n)) = n /\ Len(SubSeq(t, 1, n)) = n
        /\ \A i \in 1 .. n : SubSeq(s, 1, n)[i] = s[i] /\ SubSeq(t, 1, n)[i] = t[i]
    BY <1>1, <2>2, <2>3, <2>4
  <2>6. SubSeq(s, 1, n) = SubSeq(t, 1, n) <=> \A i \in 1 .. n : s[i] = t[i]
    BY <2>2, <2>3, <2>5, SeqEqual
  <2> QED
    BY <1>3, <2>6 DEF IsPrefix, n
<1> QED
  BY <1>2, <1>3

(* Prefixes are a partial order, linear below each sequence.               *)
LEMMA SeqPrefixOrder ==
    ASSUME NEW S, NEW a \in Seq(S), NEW b \in Seq(S), NEW c \in Seq(S)
    PROVE  /\ IsPrefix(a, a) /\ IsPrefix(<<>>, a)
           /\ IsPrefix(a, b) => Len(a) <= Len(b)
           /\ IsPrefix(a, b) /\ IsPrefix(b, c) => IsPrefix(a, c)
           /\ IsPrefix(a, b) /\ IsPrefix(b, a) => a = b
           /\ IsPrefix(a, c) /\ IsPrefix(b, c) =>
                  /\ Len(a) <= Len(b) => IsPrefix(a, b)
                  /\ IsPrefix(a, b) \/ IsPrefix(b, a)
<1>1. /\ Len(a) \in Nat /\ Len(b) \in Nat /\ Len(c) \in Nat
      /\ <<>> \in Seq(S) /\ Len(<<>>) = 0
  BY EmptySeq
<1>2. IsPrefix(a, a)
  BY <1>1, SeqPrefixMeans
<1>e. IsPrefix(<<>>, a)
  <2>1. PICK e \in Seq(S) : e = <<>> /\ Len(e) = 0
    BY <1>1
  <2>3. IsPrefix(e, a) <=> Len(e) <= Len(a) /\ \A i \in 1 .. Len(e) : e[i] = a[i]
    BY SeqPrefixMeans
  <2>2. IsPrefix(e, a)
    BY <1>1, <2>1, <2>3
  <2> QED
    BY <2>1, <2>2
<1>3. IsPrefix(a, b) => Len(a) <= Len(b)
  BY SeqPrefixMeans
<1>4. ASSUME IsPrefix(a, b), IsPrefix(b, c) PROVE IsPrefix(a, c)
  BY <1>1, <1>4, SeqPrefixMeans
<1>5. ASSUME IsPrefix(a, b), IsPrefix(b, a) PROVE a = b
  <2>1. Len(a) = Len(b) /\ \A i \in 1 .. Len(a) : a[i] = b[i]
    BY <1>1, <1>5, SeqPrefixMeans
  <2> QED
    BY <2>1, SeqEqual
<1>6. ASSUME IsPrefix(a, c), IsPrefix(b, c), Len(a) <= Len(b) PROVE IsPrefix(a, b)
  BY <1>1, <1>6, SeqPrefixMeans
<1>7. ASSUME IsPrefix(a, c), IsPrefix(b, c), Len(b) <= Len(a) PROVE IsPrefix(b, a)
  BY <1>1, <1>7, SeqPrefixMeans
<1> QED
  BY <1>1, <1>2, <1>e, <1>3, <1>4, <1>5, <1>6, <1>7

(* The front of a sequence is its longest strict prefix.                   *)
LEMMA SeqFrontMeans ==
    ASSUME NEW S, NEW q \in Seq(S), q # <<>>
    PROVE  /\ Front(q) \in Seq(S) /\ IsPrefix(Front(q), q)
           /\ Len(q) \in Nat \ {0} /\ Len(Front(q)) = Len(q) - 1
<1> DEFINE n == Len(q)
           f == Front(q)
<1>1. /\ q \in Seq(S) /\ n \in Nat /\ n # 0
      /\ \A i \in 1 .. n - 1 : q[i] \in S
  <2>1. q \in Seq(S) /\ n \in Nat
    OBVIOUS
  <2>2. n # 0
    BY <2>1, EmptySeq
  <2>3. \A i \in 1 .. n : q[i] \in S
    BY <2>1, ElementOfSeq
  <2> QED
    BY <2>1, <2>2, <2>3
<1> HIDE DEF n
<1>2. /\ f \in Seq(S) /\ Len(f) = IF 1 <= n - 1 THEN n - 1 - 1 + 1 ELSE 0
      /\ \A i \in 1 .. n - 1 - 1 + 1 : f[i] = q[1 + i - 1]
  BY <1>1, SubSeqProperties DEF Front, n
<1>3. Len(f) = n - 1 /\ f \in Seq(S)
  BY <1>1, <1>2
<1> HIDE DEF f
<1>4. ASSUME NEW i \in 1 .. n - 1 PROVE f[i] = q[i]
  <2>1. i \in 1 .. n - 1 - 1 + 1 /\ 1 + i - 1 = i
    BY <1>1
  <2> QED
    BY <1>2, <2>1
<1>5. IsPrefix(f, q) <=> Len(f) <= Len(q) /\ \A i \in 1 .. Len(f) : f[i] = q[i]
  BY <1>3, SeqPrefixMeans
<1> QED
  BY <1>1, <1>3, <1>4, <1>5 DEF f, n

-----------------------------------------------------------------------------
(* Paths: which are below which                                            *)

(* The names in paths, and all paths made of them.                         *)
PathNames == UNION {Range(p) : p \in Paths}
AnyPrimPath == Seq(PathNames)

(* Paths are sequences of names.                                           *)
LEMMA PrimPathsAreSeqs ==
    /\ Paths \subseteq AnyPrimPath /\ NoPath \in AnyPrimPath
    /\ NoPath \notin Paths
<1>1. ASSUME NEW p \in Paths  PROVE p \in Seq(PathNames)
  <2>1. p \in Seq(Range(p)) /\ Range(p) \subseteq PathNames
    BY PrimPathsAssumption DEF PathNames
  <2>2. Len(p) \in Nat /\ DOMAIN p = 1 .. Len(p) /\ \A i \in 1 .. Len(p) : p[i] \in Range(p)
    BY <2>1, ElementOfSeq, LenProperties
  <2>. QED  BY <2>1, <2>2, IsASeq, LenProperties
<1>2. NoPath \in AnyPrimPath
  BY EmptySeq DEF NoPath, AnyPrimPath
<1>. QED  BY <1>1, <1>2, PrimPathsAssumption DEF AnyPrimPath, NoPath

(* Under orders paths, and those above a path are in a line.               *)
LEMMA UnderOrder ==
    ASSUME NEW a \in AnyPrimPath, NEW b \in AnyPrimPath, NEW c \in AnyPrimPath
    PROVE  /\ Under(a, a) /\ Under(a, NoPath)
           /\ Under(a, b) /\ Under(b, c) => Under(a, c)
           /\ Under(a, b) /\ Under(b, a) => a = b
           /\ Under(c, a) /\ Under(c, b) => Under(a, b) \/ Under(b, a)
  BY SeqPrefixOrder DEF Under, NoPath, AnyPrimPath

(* What is strictly below p has its siblings below p.                      *)
LEMMA SiblingsUnder ==
    ASSUME NEW a \in AnyPrimPath, NEW b \in AnyPrimPath, NEW p \in AnyPrimPath,
           a # NoPath, b # NoPath, Parent(a) = Parent(b), Under(a, p), a # p
    PROVE  Under(b, p) /\ b # p
<1>1. /\ Front(a) \in AnyPrimPath /\ IsPrefix(Front(a), a)
      /\ Len(a) \in Nat \ {0} /\ Len(Front(a)) = Len(a) - 1
  BY SeqFrontMeans DEF AnyPrimPath, NoPath
<1>2. /\ Front(b) \in AnyPrimPath /\ IsPrefix(Front(b), b)
      /\ Len(b) \in Nat \ {0} /\ Len(Front(b)) = Len(b) - 1
  BY SeqFrontMeans DEF AnyPrimPath, NoPath
<1>3. IsPrefix(p, a) /\ Front(a) = Front(b) /\ Len(p) \in Nat
  BY DEF Under, Parent, AnyPrimPath
<1>4. Len(p) <= Len(a) /\ Len(p) # Len(a)
  <2>1. IsPrefix(p, a) <=> Len(p) <= Len(a) /\ \A i \in 1 .. Len(p) : p[i] = a[i]
    BY SeqPrefixMeans DEF AnyPrimPath
  <2>2. ASSUME Len(p) = Len(a)  PROVE FALSE
    <3>1. IsPrefix(a, p)
      BY <1>3, <2>1, <2>2, SeqPrefixMeans DEF AnyPrimPath
    <3>. QED  BY <1>3, <3>1, SeqPrefixOrder DEF AnyPrimPath
  <2>. QED  BY <1>3, <2>1, <2>2
<1>5. IsPrefix(p, Front(a))
  BY <1>1, <1>3, <1>4, SeqPrefixOrder DEF AnyPrimPath
<1>6. IsPrefix(p, b)
  BY <1>2, <1>3, <1>5, SeqPrefixOrder DEF AnyPrimPath
<1>7. b # p
  BY <1>1, <1>2, <1>3, <1>4
<1>. QED  BY <1>6, <1>7 DEF Under

-----------------------------------------------------------------------------
(* Change lists: what an operation does to the entries there are           *)

(* A new entry is an entry.                                                *)
LEMMA NewEntryTyped ==
    ASSUME NEW p \in Paths
    PROVE  /\ NewEntry(p) \in Entry /\ NewEntry(p).path = p /\ NewEntry(p).flags = {}
           /\ NewEntry(p).oldPath = NoPath /\ NewEntry(p).infoChanged = << >>
  BY DEF NewEntry, Entry

(* FindEntry is where the last entry about p is, 0 if there is none.       *)
LEMMA FindMeans ==
    ASSUME NEW L \in Seq(Entry), NEW p
    PROVE  /\ FindEntry(L, p) \in 0 .. Len(L)
           /\ HasEntry(L, p) =>
                /\ FindEntry(L, p) \in DOMAIN L /\ L[FindEntry(L, p)].path = p
                /\ \A j \in DOMAIN L : j > FindEntry(L, p) => L[j].path # p
           /\ ~HasEntry(L, p) => \A j \in DOMAIN L : L[j].path # p
<1>. DEFINE I == {i \in 1 .. Len(L) : L[i].path = p}
<1>1. Len(L) \in Nat /\ DOMAIN L = 1 .. Len(L)
  OBVIOUS
<1>2. FindEntry(L, p) = IF I # {} THEN Max(I) ELSE 0
  BY DEF FindEntry, SelectLastInSeq
<1>3. CASE I = {}
  BY <1>1, <1>2, <1>3 DEF HasEntry
<1>4. CASE I # {}
  <2>. DEFINE T == {Len(L) - i : i \in I}
  <2>1. T \subseteq Nat /\ T # {}
    BY <1>1, <1>4
  <2>2. \E k \in T : \A j \in T : k <= j
    <3>. HIDE DEF T
    <3>. QED  BY <2>1, Least
  <2>3. PICK m \in I : \A j \in I : Len(L) - m <= Len(L) - j
    BY <2>2
  <2>4. \A j \in I : m >= j
    BY <1>1, <2>3
  <2>5. Max(I) \in I /\ \A j \in I : Max(I) >= j
    <3>. HIDE DEF I
    <3>. QED  BY <2>3, <2>4 DEF Max
  <2>6. FindEntry(L, p) = Max(I)
    BY <1>2, <1>4
  <2>7. FindEntry(L, p) \in I /\ \A j \in I : FindEntry(L, p) >= j
    BY <2>5, <2>6
  <2>8. \A j \in DOMAIN L : j > FindEntry(L, p) => L[j].path # p
    BY <1>1, <2>7
  <2>. QED  BY <1>1, <2>7, <2>8 DEF HasEntry
<1>. QED  BY <1>3, <1>4

(* What is in a sequence has a place in it.                                *)
LEMMA RangeMeans ==
    ASSUME NEW S, NEW L \in Seq(S)
    PROVE  /\ Range(L) \subseteq S /\ DOMAIN L = 1 .. Len(L) /\ Len(L) \in Nat
           /\ \A e : e \in Range(L) <=> \E i \in DOMAIN L : L[i] = e
  BY DEF Range

(* EntryOf is an entry about p.                                            *)
LEMMA EntryOfTyped ==
    ASSUME NEW L \in Seq(Entry), NEW p \in Paths
    PROVE  /\ EntryOf(L, p) \in Entry /\ EntryOf(L, p).path = p
           /\ HasEntry(L, p) => EntryOf(L, p) \in Range(L)
           /\ ~HasEntry(L, p) => EntryOf(L, p) = NewEntry(p) /\ \A e \in Range(L) : e.path # p
  BY FindMeans, NewEntryTyped, RangeMeans DEF EntryOf

(* The last entry of a path is found by what it is.                        *)
LEMMA LastEntry ==
    ASSUME NEW L \in Seq(Entry), NEW p, NEW k \in DOMAIN L,
           L[k].path = p, \A j \in DOMAIN L : j > k => L[j].path # p
    PROVE  HasEntry(L, p) /\ FindEntry(L, p) = k /\ EntryOf(L, p) = L[k]
<1>1. /\ FindEntry(L, p) \in 0 .. Len(L) /\ k \in 1 .. Len(L) /\ Len(L) \in Nat
      /\ DOMAIN L = 1 .. Len(L)
  BY FindMeans
<1>2. HasEntry(L, p)
  BY FindMeans
<1>3. FindEntry(L, p) = k
  BY <1>1, <1>2, FindMeans
<1>. QED  BY <1>2, <1>3 DEF EntryOf

(* What a change of the entry of e.path to e does to a list.               *)
Changes1(L, M, e) ==
    /\ M \in Seq(Entry)
    /\ e \in Range(M) /\ Range(M) \subseteq Range(L) \cup {e}
    /\ Range(L) \subseteq Range(M) \cup {EntryOf(L, e.path)}
    /\ HasEntry(M, e.path) /\ EntryOf(M, e.path) = e
    /\ \A q : q # e.path => /\ HasEntry(M, q) <=> HasEntry(L, q)
                            /\ EntryOf(M, q) = EntryOf(L, q)
    /\ EarlierMarked(L) => EarlierMarked(M)

(* Change puts e where the last entry about p was, or last.                *)
LEMMA ChangeMeans ==
    ASSUME NEW L \in Seq(Entry), NEW e \in Entry
    PROVE  Changes1(L, Change(L, e.path, e), e)
<1>. DEFINE p == e.path
            k == FindEntry(L, p)
            M == Change(L, p, e)
<1>1. /\ Len(L) \in Nat /\ DOMAIN L = 1 .. Len(L) /\ p \in Paths
      /\ \A i \in DOMAIN L : L[i] \in Entry
  <2>1. p \in Paths
    BY DEF Entry
  <2>2. Len(L) \in Nat /\ DOMAIN L = 1 .. Len(L)
    OBVIOUS
  <2>. QED  BY <2>1, <2>2, ElementOfSeq
<1>2. CASE HasEntry(L, p)
  <2>1. k \in DOMAIN L /\ L[k].path = p /\ \A j \in DOMAIN L : j > k => L[j].path # p
    BY <1>2, FindMeans
  <2>2. M = [L EXCEPT ![k] = e] /\ EntryOf(L, p) = L[k]
    BY <1>2 DEF Change, EntryOf
  <2>. HIDE DEF M, k
  <2>3. /\ M \in Seq(Entry) /\ Len(M) = Len(L) /\ DOMAIN M = DOMAIN L
        /\ M[k] = e /\ \A i \in DOMAIN L : i # k => M[i] = L[i]
    BY <1>1, <2>1, <2>2
  <2>4. \A i \in DOMAIN L : M[i].path = L[i].path
    BY <2>1, <2>3
  <2>5. HasEntry(M, p) /\ EntryOf(M, p) = e
    <3>1. \A j \in DOMAIN M : j > k => M[j].path # p
      BY <2>1, <2>3, <2>4
    <3>2. k \in DOMAIN M /\ M[k].path = p /\ M \in Seq(Entry)
      BY <2>1, <2>3, <2>4
    <3>. HIDE DEF p
    <3>3. HasEntry(M, p) /\ EntryOf(M, p) = M[k]
      BY <3>1, <3>2, LastEntry
    <3>. QED  BY <2>3, <3>3
  <2>6. ASSUME NEW q, q # p
        PROVE  (HasEntry(M, q) <=> HasEntry(L, q)) /\ EntryOf(M, q) = EntryOf(L, q)
    <3>1. CASE HasEntry(L, q)
      <4>. DEFINE j == FindEntry(L, q)
      <4>1. j \in DOMAIN L /\ L[j].path = q /\ \A i \in DOMAIN L : i > j => L[i].path # q
        BY <3>1, FindMeans
      <4>2. j # k /\ M[j] = L[j]
        BY <2>1, <2>3, <2>6, <4>1
      <4>3. HasEntry(M, q) /\ EntryOf(M, q) = M[j]
        <5>. HIDE DEF j
        <5>1. \A i \in DOMAIN M : i > j => M[i].path # q
          BY <2>3, <2>4, <4>1
        <5>. QED  BY <2>3, <4>1, <4>2, <5>1, LastEntry
      <4>. QED  BY <3>1, <4>2, <4>3 DEF EntryOf
    <3>2. CASE ~HasEntry(L, q)
      <4>1. \A j \in DOMAIN M : M[j].path # q
        BY <2>3, <2>4, <3>2, FindMeans
      <4>2. ~HasEntry(M, q)
        BY <2>3, <4>1, FindMeans
      <4>. QED  BY <3>2, <4>2 DEF EntryOf
    <3>. QED  BY <3>1, <3>2
  <2>7. EarlierMarked(L) => EarlierMarked(M)
    <3>1. ASSUME EarlierMarked(L), NEW i \in DOMAIN M, NEW j \in DOMAIN M,
                 i < j, M[i].path = M[j].path
          PROVE  M[i].flags \cap Marks # {}
      <4>1. L[i].path = L[j].path /\ i \in DOMAIN L /\ j \in DOMAIN L
        BY <2>3, <2>4, <3>1
      <4>2. i # k
        BY <2>1, <3>1, <4>1
      <4>3. L[i].flags \cap Marks # {}
        BY <3>1, <4>1 DEF EarlierMarked
      <4>. QED  BY <2>3, <4>1, <4>2, <4>3
    <3>. QED  BY <3>1 DEF EarlierMarked
  <2>8. /\ e \in Range(M) /\ Range(M) \subseteq Range(L) \cup {e}
        /\ Range(L) \subseteq Range(M) \cup {EntryOf(L, p)}
    BY <2>1, <2>2, <2>3 DEF Range
  <2>. QED  BY <2>3, <2>5, <2>6, <2>7, <2>8 DEF Changes1, M
<1>3. CASE ~HasEntry(L, p)
  <2>1. \A j \in DOMAIN L : L[j].path # p
    BY <1>3, FindMeans
  <2>2. M = Append(L, e)
    BY <1>3 DEF Change
  <2>. HIDE DEF M
  <2>3. /\ M \in Seq(Entry) /\ Len(M) = Len(L) + 1 /\ DOMAIN M = 1 .. Len(L) + 1
        /\ M[Len(L) + 1] = e /\ \A i \in DOMAIN L : M[i] = L[i] /\ i \in DOMAIN M
    BY <1>1, <2>2
  <2>4. \A i \in DOMAIN M : i \in DOMAIN L \/ i = Len(L) + 1
    BY <1>1, <2>3
  <2>5. HasEntry(M, p) /\ EntryOf(M, p) = e
    <3>1. Len(L) + 1 \in DOMAIN M /\ \A j \in DOMAIN M : ~(j > Len(L) + 1)
      BY <1>1, <2>3
    <3>. QED  BY <2>3, <3>1, LastEntry
  <2>6. ASSUME NEW q, q # p
        PROVE  (HasEntry(M, q) <=> HasEntry(L, q)) /\ EntryOf(M, q) = EntryOf(L, q)
    <3>1. CASE HasEntry(L, q)
      <4>. DEFINE j == FindEntry(L, q)
      <4>1. j \in DOMAIN L /\ L[j].path = q /\ \A i \in DOMAIN L : i > j => L[i].path # q
        BY <3>1, FindMeans
      <4>3. HasEntry(M, q) /\ EntryOf(M, q) = M[j]
        <5>. HIDE DEF j
        <5>1. \A i \in DOMAIN M : i > j => M[i].path # q
          BY <2>3, <2>4, <2>6, <4>1
        <5>. QED  BY <2>3, <4>1, <5>1, LastEntry
      <4>. QED  BY <3>1, <2>3, <4>1, <4>3 DEF EntryOf
    <3>2. CASE ~HasEntry(L, q)
      <4>1. \A j \in DOMAIN M : M[j].path # q
        BY <2>3, <2>4, <2>6, <3>2, FindMeans
      <4>2. ~HasEntry(M, q)
        BY <2>3, <4>1, FindMeans
      <4>. QED  BY <3>2, <4>2 DEF EntryOf
    <3>. QED  BY <3>1, <3>2
  <2>7. EarlierMarked(L) => EarlierMarked(M)
    <3>1. ASSUME EarlierMarked(L), NEW i \in DOMAIN M, NEW j \in DOMAIN M,
                 i < j, M[i].path = M[j].path
          PROVE  M[i].flags \cap Marks # {}
      <4>1. i \in DOMAIN L /\ M[i] = L[i]
        BY <1>1, <2>3, <3>1
      <4>2. j \in DOMAIN L /\ M[j] = L[j]
        BY <2>1, <2>3, <2>4, <3>1, <4>1
      <4>. QED  BY <3>1, <4>1, <4>2 DEF EarlierMarked
    <3>. QED  BY <3>1 DEF EarlierMarked
  <2>8. /\ e \in Range(M) /\ Range(M) \subseteq Range(L) \cup {e}
        /\ Range(L) \subseteq Range(M) \cup {EntryOf(L, p)}
    BY <1>1, <2>3, <2>4 DEF Range
  <2>. QED  BY <2>3, <2>5, <2>6, <2>7, <2>8 DEF Changes1, M
<1>. QED  BY <1>2, <1>3

(* An entry is added behind one of its path that is marked.                *)
LEMMA AppendMeans ==
    ASSUME NEW L \in Seq(Entry), NEW e \in Entry, HasEntry(L, e.path),
           EntryOf(L, e.path).flags \cap Marks # {}
    PROVE  LET M == Append(L, e)
           IN  /\ M \in Seq(Entry)
               /\ Range(M) = Range(L) \cup {e}
               /\ HasEntry(M, e.path) /\ EntryOf(M, e.path) = e
               /\ \A q : q # e.path => /\ HasEntry(M, q) <=> HasEntry(L, q)
                                       /\ EntryOf(M, q) = EntryOf(L, q)
               /\ EarlierMarked(L) => EarlierMarked(M)
<1>. DEFINE p == e.path
            k == FindEntry(L, p)
            M == Append(L, e)
<1>1. /\ Len(L) \in Nat /\ DOMAIN L = 1 .. Len(L) /\ p \in Paths
      /\ \A i \in DOMAIN L : L[i] \in Entry
  <2>1. p \in Paths
    BY DEF Entry
  <2>2. Len(L) \in Nat /\ DOMAIN L = 1 .. Len(L)
    OBVIOUS
  <2>. QED  BY <2>1, <2>2, ElementOfSeq
<1>2. /\ k \in DOMAIN L /\ L[k].path = p /\ \A j \in DOMAIN L : j > k => L[j].path # p
      /\ L[k].flags \cap Marks # {}
  BY FindMeans DEF EntryOf
<1>. HIDE DEF k
<1>3. /\ M \in Seq(Entry) /\ Len(M) = Len(L) + 1 /\ DOMAIN M = 1 .. Len(L) + 1
      /\ M[Len(L) + 1] = e /\ \A i \in DOMAIN L : M[i] = L[i] /\ i \in DOMAIN M
  BY <1>1
<1>. HIDE DEF M
<1>4. \A i \in DOMAIN M : i \in DOMAIN L \/ i = Len(L) + 1
  BY <1>1, <1>3
<1>5. HasEntry(M, p) /\ EntryOf(M, p) = e
  <2>1. Len(L) + 1 \in DOMAIN M /\ \A j \in DOMAIN M : ~(j > Len(L) + 1)
    BY <1>1, <1>3
  <2>. QED  BY <1>3, <2>1, LastEntry
<1>6. ASSUME NEW q, q # p
      PROVE  (HasEntry(M, q) <=> HasEntry(L, q)) /\ EntryOf(M, q) = EntryOf(L, q)
  <2>1. CASE HasEntry(L, q)
    <3>. DEFINE j == FindEntry(L, q)
    <3>1. j \in DOMAIN L /\ L[j].path = q /\ \A i \in DOMAIN L : i > j => L[i].path # q
      BY <2>1, FindMeans
    <3>3. HasEntry(M, q) /\ EntryOf(M, q) = M[j]
      <4>. HIDE DEF j
      <4>1. \A i \in DOMAIN M : i > j => M[i].path # q
        BY <1>3, <1>4, <1>6, <3>1
      <4>. QED  BY <1>3, <3>1, <4>1, LastEntry
    <3>. QED  BY <2>1, <1>3, <3>1, <3>3 DEF EntryOf
  <2>2. CASE ~HasEntry(L, q)
    <3>1. \A j \in DOMAIN M : M[j].path # q
      BY <1>3, <1>4, <1>6, <2>2, FindMeans
    <3>2. ~HasEntry(M, q)
      BY <1>3, <3>1, FindMeans
    <3>. QED  BY <2>2, <3>2 DEF EntryOf
  <2>. QED  BY <2>1, <2>2
<1>7. EarlierMarked(L) => EarlierMarked(M)
  <2>1. ASSUME EarlierMarked(L), NEW i \in DOMAIN M, NEW j \in DOMAIN M,
               i < j, M[i].path = M[j].path
        PROVE  M[i].flags \cap Marks # {}
    <3>1. i \in DOMAIN L /\ M[i] = L[i]
      BY <1>1, <1>3, <2>1
    <3>2. CASE j \in DOMAIN L
      BY <1>3, <2>1, <3>1, <3>2 DEF EarlierMarked
    <3>3. CASE j \notin DOMAIN L
      <4>1. L[i].path = p
        BY <1>3, <1>4, <2>1, <3>1, <3>3
      <4>2. CASE i = k
        BY <1>2, <3>1, <4>2
      <4>3. CASE i # k
        <5>1. i < k
          BY <1>1, <1>2, <3>1, <4>1, <4>3
        <5>. QED  BY <1>2, <2>1, <3>1, <4>1, <5>1 DEF EarlierMarked
      <4>. QED  BY <4>2, <4>3
    <3>. QED  BY <3>2, <3>3
  <2>. QED  BY <2>1 DEF EarlierMarked
<1>8. Range(M) = Range(L) \cup {e}
  BY <1>1, <1>3, <1>4 DEF Range
<1>. QED  BY <1>3, <1>5, <1>6, <1>7, <1>8 DEF M

(* What an operation on the entry of p does to a list: u becomes e, behind *)
(* what was marked otherwise.                                              *)
Alters(L, M, p, u, e) ==
    /\ M \in Seq(Entry) /\ u \in Entry /\ e \in Entry /\ u.path = p /\ e.path = p
    /\ e \in Range(M) /\ Range(M) \subseteq Range(L) \cup {e, NewEntry(p)}
    /\ u \in Range(L) \cup {NewEntry(p)} /\ Range(L) \subseteq Range(M) \cup {u}
    /\ HasEntry(M, p) /\ EntryOf(M, p) = e
    /\ \A q : q # p => /\ HasEntry(M, q) <=> HasEntry(L, q)
                       /\ EntryOf(M, q) = EntryOf(L, q)
    /\ EarlierMarked(L) => EarlierMarked(M)

(* The kinds of flags are disjoint.                                        *)
LEMMA FlagsTyped ==
    /\ AddFlags \subseteq Flags /\ RemoveFlags \subseteq Flags /\ "didRename" \in Flags
    /\ AddFlags \cap RemoveFlags = {} /\ "didRename" \notin Marks
    /\ Marks \subseteq Flags
  BY DEF AddFlags, RemoveFlags, Flags, Marks

(* The fields of an entry with a flag more.                                *)
LEMMA EntryParts ==
    ASSUME NEW e \in Entry
    PROVE  /\ e.path \in Paths /\ e.flags \subseteq Flags
           /\ e.oldPath \in Paths \cup {NoPath}
           /\ e.infoChanged \in {<< >>} \cup (Values \X Values)
           /\ \A F \in SUBSET Flags : LET d == [e EXCEPT !.flags = F]
                IN  /\ d \in Entry /\ d.path = e.path /\ d.flags = F
                    /\ d.oldPath = e.oldPath /\ d.infoChanged = e.infoChanged
           /\ \A o \in Paths : LET d == [e EXCEPT !.oldPath = o]
                IN  /\ d \in Entry /\ d.path = e.path /\ d.flags = e.flags
                    /\ d.oldPath = o /\ d.infoChanged = e.infoChanged
           /\ \A i \in Values \X Values : LET d == [e EXCEPT !.infoChanged = i]
                IN  /\ d \in Entry /\ d.path = e.path /\ d.flags = e.flags
                    /\ d.oldPath = e.oldPath /\ d.infoChanged = i
  BY DEF Entry

(* A change of what the entry of p is.                                     *)
LEMMA ChangeAlters ==
    ASSUME NEW L \in Seq(Entry), NEW p \in Paths, NEW e \in Entry, e.path = p
    PROVE  Alters(L, Change(L, p, e), p, EntryOf(L, p), e)
<1>1. Changes1(L, Change(L, p, e), e)
  BY ChangeMeans
<1>2. /\ EntryOf(L, p) \in Entry /\ EntryOf(L, p).path = p
      /\ EntryOf(L, p) \in Range(L) \cup {NewEntry(p)}
  BY EntryOfTyped
<1>. QED  BY <1>1, <1>2 DEF Changes1, Alters

(* Apart makes the last entry about p one without these flags.             *)
LEMMA ApartMeans ==
    ASSUME NEW L \in Seq(Entry), NEW p \in Paths, NEW fs, fs \subseteq Marks
    PROVE  LET A == Apart(L, p, fs)
           IN  /\ A \in Seq(Entry)
               /\ Range(A) \subseteq Range(L) \cup {NewEntry(p)}
               /\ Range(L) \subseteq Range(A)
               /\ EntryOf(A, p) \in Range(L) \cup {NewEntry(p)}
               /\ EntryOf(A, p).flags \cap fs = {}
               /\ HasEntry(L, p) => HasEntry(A, p)
               /\ \A q : q # p => /\ HasEntry(A, q) <=> HasEntry(L, q)
                                  /\ EntryOf(A, q) = EntryOf(L, q)
               /\ EarlierMarked(L) => EarlierMarked(A)
<1>. DEFINE A == Apart(L, p, fs)
<1>1. CASE HasEntry(L, p) /\ EntryOf(L, p).flags \cap fs # {}
  <2>1. A = Append(L, NewEntry(p))
    BY <1>1 DEF Apart, EntryOf
  <2>2. EntryOf(L, p).flags \cap Marks # {}
    BY <1>1
  <2>3. NewEntry(p) \in Entry /\ NewEntry(p).path = p /\ NewEntry(p).flags = {}
    BY NewEntryTyped
  <2>. HIDE DEF A
  <2>4. /\ A \in Seq(Entry)
        /\ Range(A) = Range(L) \cup {NewEntry(p)}
        /\ HasEntry(A, p) /\ EntryOf(A, p) = NewEntry(p)
        /\ \A q : q # p => /\ HasEntry(A, q) <=> HasEntry(L, q)
                           /\ EntryOf(A, q) = EntryOf(L, q)
        /\ EarlierMarked(L) => EarlierMarked(A)
    BY <1>1, <2>1, <2>2, <2>3, AppendMeans
  <2>. QED  BY <2>3, <2>4 DEF A
<1>2. CASE ~(HasEntry(L, p) /\ EntryOf(L, p).flags \cap fs # {})
  <2>1. A = L
    BY <1>2 DEF Apart, EntryOf
  <2>2. EntryOf(L, p) \in Range(L) \cup {NewEntry(p)}
    BY EntryOfTyped
  <2>3. EntryOf(L, p).flags \cap fs = {}
    BY <1>2, EntryOfTyped, NewEntryTyped
  <2>. HIDE DEF A
  <2>. QED  BY <2>1, <2>2, <2>3 DEF A
<1>. QED  BY <1>1, <1>2

(* The entry of p, apart from what has one of fs, gets a flag.             *)
LEMMA FlagApartAlters ==
    ASSUME NEW L \in Seq(Entry), NEW p \in Paths, NEW fs, fs \subseteq Marks,
           NEW x \in Flags
    PROVE  \E u \in Entry :
             /\ u.flags \cap fs = {}
             /\ Alters(L, Flag(Apart(L, p, fs), p, x), p, u,
                       [u EXCEPT !.flags = u.flags \cup {x}])
<1>. DEFINE A == Apart(L, p, fs)
            u == EntryOf(A, p)
            e == [u EXCEPT !.flags = u.flags \cup {x}]
            M == Change(A, p, e)
<1>1. /\ A \in Seq(Entry)
      /\ Range(A) \subseteq Range(L) \cup {NewEntry(p)}
      /\ Range(L) \subseteq Range(A)
      /\ u \in Range(L) \cup {NewEntry(p)}
      /\ u.flags \cap fs = {}
      /\ \A q : q # p => /\ HasEntry(A, q) <=> HasEntry(L, q)
                         /\ EntryOf(A, q) = EntryOf(L, q)
      /\ EarlierMarked(L) => EarlierMarked(A)
  BY ApartMeans
<1>. HIDE DEF A
<1>2. u \in Entry /\ u.path = p
  BY <1>1, EntryOfTyped
<1>3. e \in Entry /\ e.path = p
  <2>. HIDE DEF u
  <2>1. u.flags \cup {x} \in SUBSET Flags
    BY <1>2, EntryParts
  <2>. QED  BY <1>2, <2>1, EntryParts
<1>4. Alters(A, M, p, u, e)
  <2>. HIDE DEF e
  <2>. QED  BY <1>1, <1>3, ChangeAlters
<1>5. Flag(A, p, x) = M
  BY DEF Flag
<1>. HIDE DEF u, e, M
<1>6. Alters(L, M, p, u, e)
  BY <1>1, <1>2, <1>3, <1>4 DEF Alters
<1>. QED  BY <1>1, <1>2, <1>5, <1>6 DEF A, e

(* A removal marks an entry that told of no addition.                      *)
LEMMA DidRemovePrimAlters ==
    ASSUME NEW L \in Seq(Entry), NEW p \in Paths, NEW inert \in BOOLEAN
    PROVE  \E u \in Entry, x \in RemoveFlags :
             /\ u.flags \cap AddFlags = {}
             /\ x = IF inert THEN "didRemoveInertPrim" ELSE "didRemoveNonInertPrim"
             /\ Alters(L, DidRemovePrim(L, p, inert), p, u,
                       [u EXCEPT !.flags = u.flags \cup {x}])
<1>. DEFINE x == IF inert THEN "didRemoveInertPrim" ELSE "didRemoveNonInertPrim"
<1>1. x \in RemoveFlags /\ x \in Flags /\ AddFlags \subseteq Marks
  BY DEF RemoveFlags, Flags, Marks
<1>2. DidRemovePrim(L, p, inert) = Flag(Apart(L, p, AddFlags), p, x)
  BY DEF DidRemovePrim
<1>. HIDE DEF x
<1>3. PICK u \in Entry :
        /\ u.flags \cap AddFlags = {}
        /\ Alters(L, Flag(Apart(L, p, AddFlags), p, x), p, u,
                  [u EXCEPT !.flags = u.flags \cup {x}])
  BY <1>1, FlagApartAlters
<1>. QED  BY <1>1, <1>2, <1>3 DEF x

(* An addition marks an entry that told of no removal.                     *)
LEMMA DidAddPrimAlters ==
    ASSUME NEW L \in Seq(Entry), NEW p \in Paths, NEW inert \in BOOLEAN
    PROVE  \E u \in Entry, x \in AddFlags :
             /\ u.flags \cap RemoveFlags = {}
             /\ x = IF inert THEN "didAddInertPrim" ELSE "didAddNonInertPrim"
             /\ Alters(L, DidAddPrim(L, p, inert), p, u,
                       [u EXCEPT !.flags = u.flags \cup {x}])
<1>. DEFINE x == IF inert THEN "didAddInertPrim" ELSE "didAddNonInertPrim"
<1>1. x \in AddFlags /\ x \in Flags /\ RemoveFlags \subseteq Marks
  BY DEF AddFlags, Flags, Marks
<1>2. DidAddPrim(L, p, inert) = Flag(Apart(L, p, RemoveFlags), p, x)
  BY DEF DidAddPrim
<1>. HIDE DEF x
<1>3. PICK u \in Entry :
        /\ u.flags \cap RemoveFlags = {}
        /\ Alters(L, Flag(Apart(L, p, RemoveFlags), p, x), p, u,
                  [u EXCEPT !.flags = u.flags \cup {x}])
  BY <1>1, FlagApartAlters
<1>. QED  BY <1>1, <1>2, <1>3 DEF x

(* A change of info alters the entry of p.                                 *)
LEMMA DidChangeInfoAlters ==
    ASSUME NEW L \in Seq(Entry), NEW p \in Paths, NEW old \in Values, NEW new \in Values
    PROVE  LET u == EntryOf(L, p)
               inf == << IF u.infoChanged = << >> THEN old ELSE u.infoChanged[1], new >>
           IN  /\ inf \in Values \X Values
               /\ Alters(L, DidChangeInfo(L, p, old, new), p, u, [u EXCEPT !.infoChanged = inf])
<1>. DEFINE u == EntryOf(L, p)
            inf == << IF u.infoChanged = << >> THEN old ELSE u.infoChanged[1], new >>
            e == [u EXCEPT !.infoChanged = inf]
<1>1. u \in Entry /\ u.path = p
  BY EntryOfTyped
<1>2. DidChangeInfo(L, p, old, new) = Change(L, p, e)
  BY DEF DidChangeInfo
<1>3. inf \in Values \X Values
  <2>. HIDE DEF u
  <2>1. u.infoChanged \in {<< >>} \cup (Values \X Values)
    BY <1>1, EntryParts
  <2>. QED  BY <2>1
<1>4. e \in Entry /\ e.path = p
  <2>. HIDE DEF u, inf
  <2>. QED  BY <1>1, <1>3, EntryParts
<1>5. Alters(L, Change(L, p, e), p, u, e)
  <2>. HIDE DEF e
  <2>. QED  BY <1>4, ChangeAlters
<1>. QED  BY <1>2, <1>3, <1>5

(* An entry that is not marked is the last of its path.                    *)
LEMMA UnmarkedIsLast ==
    ASSUME NEW L \in Seq(Entry), EarlierMarked(L), NEW e \in Range(L),
           e.flags \cap Marks = {}
    PROVE  HasEntry(L, e.path) /\ EntryOf(L, e.path) = e
<1>1. PICK i \in DOMAIN L : L[i] = e
  BY RangeMeans
<1>2. \A j \in DOMAIN L : j > i => L[j].path # e.path
  BY <1>1, RangeMeans DEF EarlierMarked
<1>. QED  BY <1>1, <1>2, LastEntry

(* RemoveAt takes the entry at i away and keeps the order of the others.   *)
LEMMA RemoveAtMeans ==
    ASSUME NEW L \in Seq(Entry), NEW k \in DOMAIN L
    PROVE  LET M == RemoveAt(L, k)
           IN  /\ M \in Seq(Entry) /\ Len(L) \in Nat /\ Len(L) > 0 /\ k \in 1 .. Len(L)
               /\ DOMAIN M = 1 .. Len(L) - 1
               /\ \A i \in 1 .. Len(L) - 1 : M[i] = IF i < k THEN L[i] ELSE L[i + 1]
<1>. DEFINE n == Len(L)
            A == SubSeq(L, 1, k - 1)
            B == SubSeq(L, k + 1, n)
            M == RemoveAt(L, k)
<1>1. n \in Nat /\ k \in 1 .. n /\ \A i \in 1 .. n : L[i] \in Entry
  BY ElementOfSeq
<1>2. /\ A \in Seq(Entry) /\ Len(A) = k - 1
      /\ \A i \in 1 .. k - 1 : A[i] = L[i]
  <2>1. 1 \in Int /\ k - 1 \in Int /\ \A i \in 1 .. k - 1 : L[i] \in Entry
    BY <1>1
  <2>. HIDE DEF n
  <2>2. /\ SubSeq(L, 1, k - 1) \in Seq(Entry)
        /\ Len(SubSeq(L, 1, k - 1)) = IF 1 <= k - 1 THEN k - 1 - 1 + 1 ELSE 0
        /\ \A i \in 1 .. k - 1 - 1 + 1 : SubSeq(L, 1, k - 1)[i] = L[1 + i - 1]
    BY <2>1, SubSeqProperties
  <2>3. \A i \in 1 .. k - 1 : i \in 1 .. k - 1 - 1 + 1 /\ 1 + i - 1 = i
    BY <1>1
  <2>. QED  BY <1>1, <2>2, <2>3
<1>3. /\ B \in Seq(Entry) /\ Len(B) = n - k
      /\ \A i \in 1 .. n - k : B[i] = L[k + i]
  <2>1. k + 1 \in Int /\ n \in Int /\ \A i \in k + 1 .. n : L[i] \in Entry
    BY <1>1
  <2>. HIDE DEF n
  <2>2. /\ SubSeq(L, k + 1, n) \in Seq(Entry)
        /\ Len(SubSeq(L, k + 1, n)) = IF k + 1 <= n THEN n - (k + 1) + 1 ELSE 0
        /\ \A i \in 1 .. n - (k + 1) + 1 : SubSeq(L, k + 1, n)[i] = L[k + 1 + i - 1]
    BY <2>1, SubSeqProperties
  <2>3. \A i \in 1 .. n - k : i \in 1 .. n - (k + 1) + 1 /\ k + 1 + i - 1 = k + i
    BY <1>1
  <2>. QED  BY <1>1, <2>2, <2>3
<1>4. M = A \o B
  BY DEF RemoveAt
<1>. HIDE DEF A, B, M, n
<1>5. /\ M \in Seq(Entry) /\ Len(M) = Len(A) + Len(B)
      /\ \A i \in 1 .. Len(A) + Len(B) : M[i] = IF i <= Len(A) THEN A[i] ELSE B[i - Len(A)]
  BY <1>2, <1>3, <1>4, ConcatProperties
<1>6. Len(M) = n - 1 /\ DOMAIN M = 1 .. n - 1
  BY <1>1, <1>2, <1>3, <1>5
<1>7. ASSUME NEW i \in 1 .. n - 1  PROVE M[i] = IF i < k THEN L[i] ELSE L[i + 1]
  <2>1. Len(A) + Len(B) = n - 1 /\ Len(A) = k - 1
    BY <1>1, <1>2, <1>3
  <2>2. CASE i < k
    <3>1. i \in 1 .. k - 1 /\ i <= Len(A)
      BY <1>1, <2>1, <2>2
    <3>. QED  BY <1>2, <1>5, <2>1, <2>2, <3>1
  <2>3. CASE ~(i < k)
    <3>1. i - (k - 1) \in 1 .. n - k /\ ~(i <= Len(A)) /\ k + (i - (k - 1)) = i + 1
      BY <1>1, <2>1, <2>3
    <3>2. M[i] = B[i - (k - 1)]
      BY <1>5, <2>1, <3>1
    <3>. QED  BY <1>3, <2>3, <3>1, <3>2
  <2>. QED  BY <2>2, <2>3
<1>. QED  BY <1>1, <1>5, <1>6, <1>7 DEF n, M

(* The last entry of a path is taken out.                                  *)
LEMMA TakeOutMeans ==
    ASSUME NEW L \in Seq(Entry), NEW p \in Paths, HasEntry(L, p)
    PROVE  LET M == RemoveAt(L, FindEntry(L, p))
           IN  /\ M \in Seq(Entry)
               /\ Range(M) \subseteq Range(L)
               /\ Range(L) \subseteq Range(M) \cup {EntryOf(L, p)}
               /\ \A q : q # p => /\ HasEntry(M, q) <=> HasEntry(L, q)
                                  /\ EntryOf(M, q) = EntryOf(L, q)
               /\ EarlierMarked(L) => EarlierMarked(M)
<1>. DEFINE k == FindEntry(L, p)
            M == RemoveAt(L, k)
            At(i) == IF i < k THEN i ELSE i + 1
            From(i) == IF i < k THEN i ELSE i - 1
<1>1. /\ k \in DOMAIN L /\ L[k].path = p /\ EntryOf(L, p) = L[k]
  BY FindMeans DEF EntryOf
<1>. HIDE DEF k
<1>2. /\ M \in Seq(Entry) /\ Len(L) \in Nat /\ k \in 1 .. Len(L) /\ DOMAIN L = 1 .. Len(L)
      /\ DOMAIN M = 1 .. Len(L) - 1
      /\ \A i \in 1 .. Len(L) - 1 : M[i] = IF i < k THEN L[i] ELSE L[i + 1]
  BY <1>1, RemoveAtMeans
<1>. HIDE DEF M
<1>3. \A i \in DOMAIN M : At(i) \in DOMAIN L /\ M[i] = L[At(i)]
  BY <1>2
<1>4. \A i \in DOMAIN L : i # k => From(i) \in DOMAIN M /\ M[From(i)] = L[i]
  <2>1. ASSUME NEW i \in DOMAIN L, i # k
        PROVE  From(i) \in DOMAIN M /\ At(From(i)) = i
    BY <1>2, <2>1
  <2>. HIDE DEF At, From
  <2>. QED  BY <1>3, <2>1
<1>5. /\ \A i, j \in DOMAIN M : i < j => At(i) < At(j)
      /\ \A i, j \in DOMAIN L : i # k /\ j # k /\ i < j => From(i) < From(j)
      /\ \A i \in DOMAIN L, j \in DOMAIN M : i # k /\ j > From(i) => At(j) > i
  BY <1>2
<1>. HIDE DEF At, From
<1>6. Range(M) \subseteq Range(L) /\ Range(L) \subseteq Range(M) \cup {EntryOf(L, p)}
  BY <1>1, <1>3, <1>4 DEF Range
<1>7. ASSUME NEW q, q # p
      PROVE  (HasEntry(M, q) <=> HasEntry(L, q)) /\ EntryOf(M, q) = EntryOf(L, q)
  <2>1. CASE HasEntry(L, q)
    <3>1. PICK j \in DOMAIN L : /\ EntryOf(L, q) = L[j] /\ L[j].path = q
                                /\ \A i \in DOMAIN L : i > j => L[i].path # q
      BY <2>1, FindMeans DEF EntryOf
    <3>2. j # k /\ From(j) \in DOMAIN M /\ M[From(j)] = L[j]
      BY <1>1, <1>4, <1>7, <3>1
    <3>3. \A i \in DOMAIN M : i > From(j) => M[i].path # q
      BY <1>3, <1>5, <3>1, <3>2
    <3>4. PICK h \in DOMAIN M : M[h] = L[j] /\ \A i \in DOMAIN M : i > h => M[i].path # q
      BY <3>2, <3>3
    <3>5. M[h].path = q
      BY <3>1, <3>4
    <3>6. HasEntry(M, q) /\ EntryOf(M, q) = M[h]
      <4>1. M \in Seq(Entry) /\ h \in DOMAIN M /\ \A i \in DOMAIN M : i > h => M[i].path # q
        BY <1>2, <3>4
      <4>. QED  BY <3>5, <4>1, LastEntry
    <3>. QED  BY <2>1, <3>1, <3>4, <3>6
  <2>2. CASE ~HasEntry(L, q)
    <3>1. \A j \in DOMAIN M : M[j].path # q
      BY <1>3, <2>2, FindMeans
    <3>2. ~HasEntry(M, q)
      BY <1>2, <3>1, FindMeans
    <3>. QED  BY <2>2, <3>2 DEF EntryOf
  <2>. QED  BY <2>1, <2>2
<1>8. EarlierMarked(L) => EarlierMarked(M)
  BY <1>3, <1>5 DEF EarlierMarked
<1>. QED  BY <1>2, <1>6, <1>7, <1>8 DEF M, k

(* The entry of old once it is that of new.                                *)
MovedEntry(tmp, old, new) ==
    [tmp EXCEPT !.path = new, !.flags = tmp.flags \cup {"didRename"},
                !.oldPath = IF tmp.oldPath = NoPath THEN old ELSE tmp.oldPath]

(* What a moved entry is.                                                  *)
LEMMA MovedEntryMeans ==
    ASSUME NEW tmp \in Entry, NEW old \in Paths, NEW new \in Paths
    PROVE  LET e == MovedEntry(tmp, old, new)
           IN  /\ e \in Entry /\ e.path = new /\ e.flags = tmp.flags \cup {"didRename"}
               /\ e.oldPath = IF tmp.oldPath = NoPath THEN old ELSE tmp.oldPath
               /\ e.infoChanged = tmp.infoChanged
<1>1. tmp.flags \cup {"didRename"} \subseteq Flags
  BY EntryParts, FlagsTyped
<1>2. (IF tmp.oldPath = NoPath THEN old ELSE tmp.oldPath) \in Paths \cup {NoPath}
  BY EntryParts
<1>. QED  BY <1>1, <1>2 DEF MovedEntry, Entry

(* What a rename leaves in the list.                                       *)
LEMMA DidChangePrimNameMeans ==
    ASSUME NEW L \in Seq(Entry), NEW old \in Paths, NEW new \in Paths, old # new
    PROVE  LET M == DidChangePrimName(L, old, new)
               tmp == EntryOf(L, old)
               e == MovedEntry(tmp, old, new)
           IN  /\ M \in Seq(Entry) /\ e \in Range(M)
               /\ Range(M) \subseteq Range(L) \cup {e, NewEntry(old), NewEntry(new)}
               /\ \E v \in Entry : /\ v.path = new /\ v.flags \cap RemoveFlags = {}
                                   /\ Range(L) \subseteq Range(M) \cup {tmp, v}
               /\ EarlierMarked(L) => EarlierMarked(M)
<1>. DEFINE G == GetEntry(L, new)
            A == Apart(G, new, RemoveFlags)
            i == FindEntry(A, old)
            tmp == EntryOf(A, old)
            left == IF i = 0 THEN A
                    ELSE IF tmp.flags \cap AddFlags # {} /\ tmp.oldPath = NoPath
                         THEN [A EXCEPT ![i] = NewEntry(old)]
                         ELSE RemoveAt(A, i)
            e == MovedEntry(tmp, old, new)
            M == Change(left, new, e)
            v == EntryOf(A, new)
<1>1. DidChangePrimName(L, old, new) = M
  BY DEF DidChangePrimName, MoveEntry, MovedEntry
<1>2. Alters(L, G, new, EntryOf(L, new), EntryOf(L, new))
  BY EntryOfTyped, ChangeAlters DEF GetEntry
<1>3. /\ G \in Seq(Entry) /\ HasEntry(G, new) /\ EntryOf(G, old) = EntryOf(L, old)
      /\ Range(G) \subseteq Range(L) \cup {NewEntry(new)} /\ Range(L) \subseteq Range(G)
      /\ EarlierMarked(L) => EarlierMarked(G)
  <2>. HIDE DEF G
  <2>. QED  BY <1>2 DEF Alters
<1>. HIDE DEF G
<1>4. /\ A \in Seq(Entry) /\ HasEntry(A, new) /\ EntryOf(A, old) = EntryOf(L, old)
      /\ Range(A) \subseteq Range(L) \cup {NewEntry(new)} /\ Range(L) \subseteq Range(A)
      /\ v.flags \cap RemoveFlags = {} /\ v \in Entry /\ v.path = new
      /\ EarlierMarked(L) => EarlierMarked(A)
  <2>1. RemoveFlags \subseteq Marks
    BY DEF Marks
  <2>2. /\ A \in Seq(Entry)
        /\ Range(A) \subseteq Range(G) \cup {NewEntry(new)}
        /\ Range(G) \subseteq Range(A)
        /\ EntryOf(A, new).flags \cap RemoveFlags = {}
        /\ HasEntry(G, new) => HasEntry(A, new)
        /\ EntryOf(A, old) = EntryOf(G, old)
        /\ EarlierMarked(G) => EarlierMarked(A)
    BY <1>3, <2>1, ApartMeans
  <2>3. v \in Entry /\ v.path = new
    <3>. HIDE DEF A
    <3>. QED  BY <2>2, EntryOfTyped
  <2>. HIDE DEF A
  <2>. QED  BY <1>3, <2>2, <2>3
<1>. HIDE DEF A
<1>5. /\ left \in Seq(Entry) /\ HasEntry(left, new) /\ EntryOf(left, new) = v
      /\ Range(left) \subseteq Range(A) \cup {NewEntry(old)}
      /\ Range(A) \subseteq Range(left) \cup {tmp}
      /\ EarlierMarked(A) => EarlierMarked(left)
  <2>1. CASE i = 0
    BY <1>4, <2>1
  <2>2. CASE i # 0 /\ tmp.flags \cap AddFlags # {} /\ tmp.oldPath = NoPath
    <3>1. HasEntry(A, old)
      BY <2>2 DEF HasEntry
    <3>2. left = Change(A, old, NewEntry(old))
      BY <2>2, <3>1 DEF Change
    <3>3. Alters(A, Change(A, old, NewEntry(old)), old, tmp, NewEntry(old))
      <4>1. NewEntry(old) \in Entry /\ NewEntry(old).path = old
        BY NewEntryTyped
      <4>. QED  BY <1>4, <4>1, ChangeAlters
    <3>. HIDE DEF left
    <3>4. Alters(A, left, old, tmp, NewEntry(old))
      BY <3>2, <3>3
    <3>. QED  BY <1>4, <3>4 DEF Alters
  <2>3. CASE i # 0 /\ ~(tmp.flags \cap AddFlags # {} /\ tmp.oldPath = NoPath)
    <3>1. HasEntry(A, old)
      BY <2>3 DEF HasEntry
    <3>2. left = RemoveAt(A, FindEntry(A, old))
      BY <2>3
    <3>. HIDE DEF left
    <3>3. /\ left \in Seq(Entry)
          /\ Range(left) \subseteq Range(A)
          /\ Range(A) \subseteq Range(left) \cup {EntryOf(A, old)}
          /\ \A q : q # old => /\ HasEntry(left, q) <=> HasEntry(A, q)
                               /\ EntryOf(left, q) = EntryOf(A, q)
          /\ EarlierMarked(A) => EarlierMarked(left)
      BY <1>4, <3>1, <3>2, TakeOutMeans
    <3>. QED  BY <1>4, <3>3
  <2>. QED  BY <2>1, <2>2, <2>3
<1>. HIDE DEF left
<1>6. e \in Entry /\ e.path = new
  <2>1. tmp \in Entry
    BY <1>4, EntryOfTyped
  <2>. HIDE DEF tmp
  <2>. QED  BY <2>1, MovedEntryMeans
<1>7. Alters(left, M, new, v, e)
  <2>. HIDE DEF e, v
  <2>1. Alters(left, Change(left, new, e), new, EntryOf(left, new), e)
    BY <1>5, <1>6, ChangeAlters
  <2>. QED  BY <1>5, <2>1
<1>. HIDE DEF M
<1>8. tmp = EntryOf(L, old)
  BY <1>4
<1>. HIDE DEF tmp, v, e
<1>9. /\ M \in Seq(Entry) /\ e \in Range(M)
      /\ Range(M) \subseteq Range(L) \cup {e, NewEntry(old), NewEntry(new)}
      /\ Range(L) \subseteq Range(M) \cup {tmp, v}
      /\ EarlierMarked(L) => EarlierMarked(M)
  BY <1>4, <1>5, <1>7 DEF Alters
<1>10. e = MovedEntry(EntryOf(L, old), old, new)
  BY <1>8 DEF e
<1>. QED  BY <1>1, <1>4, <1>8, <1>9, <1>10

(* Some entry of L tells it; what is known of the info of q.               *)
IsTold(L, c, q, m) == \E e \in Range(L) : TellsGone(e, c, q, m)
Known(L, q) == {e.infoChanged : e \in {f \in Range(L) : f.path = q}}

(* The paths of an entry are paths.                                        *)
LEMMA EntryPaths ==
    ASSUME NEW L \in Seq(Entry), NEW e \in Range(L)
    PROVE  /\ e \in Entry /\ e.path \in Paths /\ e.path \in AnyPrimPath
           /\ e.path # NoPath /\ e.oldPath \in AnyPrimPath
           /\ e.flags \subseteq Flags
<1>1. e \in Entry
  BY RangeMeans
<1>2. e.path \in Paths /\ e.flags \subseteq Flags /\ e.oldPath \in Paths \cup {NoPath}
  BY <1>1, EntryParts
<1>. QED  BY <1>1, <1>2, PrimPathsAreSeqs

(* What is told at a path is told below it.                                *)
LEMMA ToldBelow ==
    ASSUME NEW L \in Seq(Entry), NEW c, NEW q \in Paths, NEW p \in Paths, NEW m \in Paths,
           IsTold(L, c, q, p), Under(m, p)
    PROVE  IsTold(L, c, q, m)
<1>1. PICK e \in Range(L) : TellsGone(e, c, q, p)
  BY DEF IsTold
<1>2. e.oldPath \in AnyPrimPath /\ p \in AnyPrimPath /\ m \in AnyPrimPath
  BY EntryPaths, PrimPathsAreSeqs
<1>3. Under(p, e.oldPath) => Under(m, e.oldPath)
  BY <1>2, UnderOrder
<1>4. TellsGone(e, c, q, m)
  BY <1>1, <1>3 DEF TellsGone, RenamedSince
<1>. QED  BY <1>4 DEF IsTold

(* A path whose entry is marked has been told.                             *)
LEMMA MarkedAreTold ==
    ASSUME NEW w, NEW c, NEW L \in Seq(Entry), ReplacedAreTold(w, c, L),
           NEW e \in Range(L), e.flags \cap Marks # {}, w[e.path] # Absent
    PROVE  IsTold(L, c, e.path, e.path)
<1>1. e.path \in Paths /\ Under(e.path, e.path)
  BY EntryPaths, UnderOrder
<1>2. CASE e.oldPath # NoPath \/ e.flags \cap AddFlags # {}
  BY <1>1, <1>2 DEF ReplacedAreTold, ToldGone, IsTold
<1>3. CASE e.oldPath = NoPath /\ e.flags \cap AddFlags = {}
  <2>1. e.flags \cap RemoveFlags # {}
    BY <1>3 DEF Marks
  <2>2. RemovedHere(e, e.path)
    BY <1>1, <1>3, <2>1 DEF RemovedHere, RemoveFlags
  <2>. QED  BY <2>2 DEF IsTold, TellsGone
<1>. QED  BY <1>2, <1>3

(* What is to be shown of a step, if whatever has been told stays told.    *)
LEMMA OldStaysTold ==
    ASSUME NEW w, NEW c, NEW d, NEW L \in Seq(Entry), NEW M \in Seq(Entry),
           OldTold(w, c, L), EarlierMarked(M), RenamesFit(M),
           \A q, m \in Paths : w[q] # Absent /\ Under(q, m) /\ IsTold(L, c, q, m) =>
               IsTold(M, d, q, m),
           \A m \in Paths : d[m] = Absent /\ c[m] # Absent => ToldGone(w, d, M, m),
           \A e \in Range(M) \ Range(L) :
               e.oldPath # NoPath \/ e.flags \cap AddFlags # {} => ToldGone(w, c, L, e.path),
           \A q \in Paths : w[q] # Absent /\ ~IsTold(M, d, q, q) /\ ~IsTold(L, c, q, q) =>
               \/ d[q] = c[q] /\ Known(M, q) = Known(L, q)
               \/ /\ Known(M, q) \subseteq {<< >>, << w[q], d[q] >>}
                  /\ w[q] # d[q] => ~(Known(M, q) \subseteq {<< >>})
    PROVE  OldTold(w, d, M)
<1>1. \A m \in Paths : ToldGone(w, c, L, m) => ToldGone(w, d, M, m)
  BY DEF ToldGone, IsTold
<1>2. GoneAreTold(w, d, M)
  BY <1>1 DEF GoneAreTold, OldTold
<1>3. ReplacedAreTold(w, d, M)
  <2>1. ASSUME NEW e \in Range(M), e.oldPath # NoPath \/ e.flags \cap AddFlags # {}
        PROVE  ToldGone(w, d, M, e.path)
    <3>1. e.path \in Paths
      BY EntryPaths
    <3>2. ToldGone(w, c, L, e.path)
      BY <2>1 DEF OldTold, ReplacedAreTold
    <3>. QED  BY <1>1, <3>1, <3>2
  <2>. QED  BY <2>1 DEF ReplacedAreTold
<1>4. InfosFit(w, d, M)
  <2>1. ASSUME NEW q \in Paths, w[q] # Absent, ~IsTold(M, d, q, q)
        PROVE  /\ Known(M, q) \subseteq {<< >>, << w[q], d[q] >>}
               /\ w[q] # d[q] => ~(Known(M, q) \subseteq {<< >>})
    <3>1. Under(q, q)
      BY PrimPathsAreSeqs, UnderOrder
    <3>2. ~IsTold(L, c, q, q)
      BY <2>1, <3>1
    <3>3. /\ Known(L, q) \subseteq {<< >>, << w[q], c[q] >>}
          /\ w[q] # c[q] => ~(Known(L, q) \subseteq {<< >>})
      BY <2>1, <3>2 DEF OldTold, InfosFit, Known, IsTold
    <3>. QED  BY <2>1, <3>2, <3>3
  <2>. QED  BY <2>1 DEF InfosFit, Known, IsTold
<1>. QED  BY <1>2, <1>3, <1>4 DEF OldTold

(* The infos of other paths stay.                                          *)
LEMMA KnownStays ==
    ASSUME NEW L \in Seq(Entry), NEW M \in Seq(Entry), NEW p, NEW u, NEW e,
           Alters(L, M, p, u, e), NEW q, q # p
    PROVE  Known(M, q) = Known(L, q)
<1>1. \A d \in Range(M) : d.path = q => d \in Range(L)
  BY NewEntryTyped DEF Alters, NewEntry
<1>2. \A d \in Range(L) : d.path = q => d \in Range(M)
  BY DEF Alters
<1>3. {f \in Range(M) : f.path = q} = {f \in Range(L) : f.path = q}
  BY <1>1, <1>2
<1>. QED  BY <1>3 DEF Known

(* An entry is marked as removed: nothing told is lost.                    *)
LEMMA MarkRemoved ==
    ASSUME NEW w, NEW c, NEW L \in Seq(Entry), NEW M, NEW p \in Paths,
           NEW u \in Entry, NEW x \in RemoveFlags, NEW e,
           OldTold(w, c, L), u.flags \cap AddFlags = {},
           e = [u EXCEPT !.flags = u.flags \cup {x}], Alters(L, M, p, u, e)
    PROVE  OldTold(w, c, M)
<1>1. /\ M \in Seq(Entry) /\ e \in Range(M) /\ Range(M) \subseteq Range(L) \cup {e, NewEntry(p)}
      /\ u \in Range(L) \cup {NewEntry(p)} /\ Range(L) \subseteq Range(M) \cup {u}
      /\ u.path = p /\ e.path = p
      /\ EarlierMarked(M)
  BY DEF Alters, OldTold
<1>2. /\ e.flags = u.flags \cup {x} /\ e.oldPath = u.oldPath /\ e.infoChanged = u.infoChanged
      /\ x \notin AddFlags /\ x # "didRename" /\ e.flags \cap RemoveFlags # {}
      /\ e.flags \cap AddFlags = {}
  <2>1. u.flags \cup {x} \in SUBSET Flags
    BY EntryParts, FlagsTyped
  <2>2. e.flags = u.flags \cup {x} /\ e.oldPath = u.oldPath /\ e.infoChanged = u.infoChanged
    BY <2>1, EntryParts
  <2>3. x \notin AddFlags /\ x # "didRename"
    BY FlagsTyped DEF Marks
  <2>. QED  BY <2>2, <2>3
<1>3. ASSUME NEW q \in Paths, NEW m \in Paths, Under(q, m), IsTold(L, c, q, m)
      PROVE  IsTold(M, c, q, m)
  <2>1. PICK d \in Range(L) : TellsGone(d, c, q, m)
    BY <1>3 DEF IsTold
  <2>2. CASE d \in Range(M)
    BY <2>1, <2>2 DEF IsTold
  <2>3. CASE d = u
    <3>1. Under(m, u.oldPath) => Under(q, u.oldPath)
      <4>1. u.oldPath \in AnyPrimPath /\ q \in AnyPrimPath /\ m \in AnyPrimPath
        BY EntryParts, PrimPathsAreSeqs
      <4>. QED  BY <1>3, <4>1, UnderOrder
    <3>2. RemovedHere(u, q) => RemovedHere(e, q)
      BY <1>1, <1>2 DEF RemovedHere
    <3>3. RemovedElsewhere(u, q) => RemovedElsewhere(e, q)
      BY <1>2 DEF RemovedElsewhere
    <3>4. RenamedSince(u, c, m) => RemovedElsewhere(e, q)
      BY <1>2, <3>1 DEF RemovedElsewhere, RenamedSince
    <3>. QED  BY <1>1, <2>1, <2>3, <3>2, <3>3, <3>4 DEF IsTold, TellsGone
  <2>. QED  BY <1>1, <2>2, <2>3
<1>4. RenamesFit(M)
  <2>1. ASSUME NEW d \in Range(M)
        PROVE  /\ "didRename" \in d.flags => d.oldPath # NoPath
               /\ d.oldPath # NoPath /\ d.flags \cap AddFlags = {} =>
                    "didRename" \in d.flags /\ Parent(d.oldPath) = Parent(d.path)
    <3>1. CASE d \in Range(L)
      BY <3>1 DEF OldTold, RenamesFit
    <3>2. CASE d = NewEntry(p)
      BY <3>2, NewEntryTyped
    <3>3. CASE d = e
      <4>1. CASE u \in Range(L)
        BY <1>1, <1>2, <3>3, <4>1 DEF OldTold, RenamesFit
      <4>2. CASE u = NewEntry(p)
        BY <1>2, <3>3, <4>2, NewEntryTyped
      <4>. QED  BY <1>1, <4>1, <4>2
    <3>. QED  BY <1>1, <3>1, <3>2, <3>3
  <2>. QED  BY <2>1 DEF RenamesFit
<1>5. ASSUME NEW d \in Range(M) \ Range(L), d.oldPath # NoPath \/ d.flags \cap AddFlags # {}
      PROVE  ToldGone(w, c, L, d.path)
  <2>1. d = e
    BY <1>1, <1>5, NewEntryTyped
  <2>2. u \in Range(L) /\ u.oldPath # NoPath
    BY <1>1, <1>2, <1>5, <2>1, NewEntryTyped
  <2>. QED  BY <1>1, <2>1, <2>2 DEF OldTold, ReplacedAreTold
<1>6. ASSUME NEW q \in Paths, w[q] # Absent, ~IsTold(M, c, q, q), ~IsTold(L, c, q, q)
      PROVE  Known(M, q) = Known(L, q)
  <2>1. CASE q = p
    <3>1. CASE u.oldPath # NoPath
      <4>1. u \in Range(L)
        BY <1>1, <3>1, NewEntryTyped
      <4>2. ToldGone(w, c, L, p)
        BY <1>1, <3>1, <4>1 DEF OldTold, ReplacedAreTold
      <4>3. Under(q, p)
        BY <2>1, PrimPathsAreSeqs, UnderOrder
      <4>. QED  BY <1>6, <2>1, <4>2, <4>3 DEF ToldGone, IsTold
    <3>2. CASE u.oldPath = NoPath
      <4>1. Under(p, p)
        BY PrimPathsAreSeqs, UnderOrder
      <4>2. RemovedHere(e, p)
        BY <1>1, <1>2, <3>2, <4>1 DEF RemovedHere, RemoveFlags
      <4>. QED  BY <1>1, <1>6, <2>1, <4>2 DEF IsTold, TellsGone
    <3>. QED  BY <3>1, <3>2
  <2>2. CASE q # p
    BY <1>1, <2>2, KnownStays
  <2>. QED  BY <2>1, <2>2
<1>7. OldTold(w, c, M)
  BY <1>1, <1>3, <1>4, <1>5, <1>6, OldStaysTold
<1>. QED  BY <1>7

(* A removal is one more account: what has come is still told.             *)
LEMMA MarkRemovedNew ==
    ASSUME NEW w, NEW c, NEW L \in Seq(Entry), NEW M, NEW p \in Paths,
           NEW u \in Entry, NEW x \in RemoveFlags, NEW e,
           e = [u EXCEPT !.flags = u.flags \cup {x}], Alters(L, M, p, u, e),
           NewAreTold(w, c, L)
    PROVE  NewAreTold(w, c, M)
<1>1. /\ e \in Range(M) /\ Range(L) \subseteq Range(M) \cup {u}
      /\ u.path = p /\ e.path = p
  BY DEF Alters
<1>2. e.flags = u.flags \cup {x}
  <2>1. u.flags \cup {x} \in SUBSET Flags
    BY EntryParts, FlagsTyped
  <2>. QED  BY <2>1, EntryParts
<1>3. ASSUME NEW q \in Paths, w[q] = Absent, c[q] # Absent
      PROVE  \E d \in Range(M) : TellsNew(d, q)
  <2>1. PICK d \in Range(L) : TellsNew(d, q)
    BY <1>3 DEF NewAreTold
  <2>2. TellsNew(u, q) => TellsNew(e, q)
    BY <1>1, <1>2 DEF TellsNew
  <2>. QED  BY <1>1, <2>1, <2>2
<1>. QED  BY <1>3 DEF NewAreTold

Without(c, p) == [q \in Paths |-> IF Under(q, p) THEN Absent ELSE c[q]]

(* Everything under p goes, and the list has told it.                      *)
LEMMA LeaveTold ==
    ASSUME NEW w, NEW c, NEW L \in Seq(Entry), NEW p \in Paths, OldTold(w, c, L),
           \A e \in Range(L), q, m \in Paths :
               w[q] # Absent /\ Under(q, m) /\ RenamedSince(e, c, m) /\ Under(e.path, p) =>
               IsTold(L, Without(c, p), q, m),
           \A m \in Paths : Under(m, p) /\ c[m] # Absent =>
               ToldGone(w, Without(c, p), L, m)
    PROVE  /\ OldTold(w, Without(c, p), L)
           /\ NewAreTold(w, c, L) => NewAreTold(w, Without(c, p), L)
<1>. DEFINE d == Without(c, p)
<1>1. \A q \in Paths : d[q] = IF Under(q, p) THEN Absent ELSE c[q]
  BY DEF Without
<1>. HIDE DEF d
<1>2. EarlierMarked(L) /\ RenamesFit(L)
  BY DEF OldTold
<1>3. ASSUME NEW q \in Paths, NEW m \in Paths, w[q] # Absent, Under(q, m), IsTold(L, c, q, m)
      PROVE  IsTold(L, d, q, m)
  <2>1. PICK e \in Range(L) : TellsGone(e, c, q, m)
    BY <1>3 DEF IsTold
  <2>2. e.path \in Paths
    BY EntryPaths
  <2>3. CASE RenamedSince(e, c, m) /\ Under(e.path, p)
    BY <1>3, <2>3 DEF d
  <2>4. CASE RenamedSince(e, c, m) /\ ~Under(e.path, p)
    <3>1. RenamedSince(e, d, m)
      BY <1>1, <2>2, <2>4 DEF RenamedSince
    <3>. QED  BY <3>1 DEF IsTold, TellsGone
  <2>5. CASE RemovedHere(e, q) \/ RemovedElsewhere(e, q)
    BY <2>5 DEF IsTold, TellsGone
  <2>. QED  BY <2>1, <2>3, <2>4, <2>5 DEF TellsGone
<1>4. \A m \in Paths : d[m] = Absent /\ c[m] # Absent => ToldGone(w, d, L, m)
  BY <1>1 DEF d
<1>5. ASSUME NEW q \in Paths, w[q] # Absent, ~IsTold(L, d, q, q)
      PROVE  d[q] = c[q] /\ Known(L, q) = Known(L, q)
  <2>1. Under(q, q)
    BY PrimPathsAreSeqs, UnderOrder
  <2>2. ~(d[q] = Absent /\ c[q] # Absent)
    BY <1>4, <1>5, <2>1 DEF ToldGone, IsTold
  <2>. QED  BY <1>1, <2>2
<1>6. \A e \in Range(L) \ Range(L) :
         e.oldPath # NoPath \/ e.flags \cap AddFlags # {} => ToldGone(w, c, L, e.path)
  OBVIOUS
<1>7. OldTold(w, d, L)
  BY <1>2, <1>3, <1>4, <1>5, <1>6, OldStaysTold
<1>8. NewAreTold(w, c, L) => NewAreTold(w, d, L)
  BY <1>1 DEF NewAreTold
<1>. QED  BY <1>7, <1>8 DEF d

(* An entry that tells of a rename below p came from below p.              *)
LEMMA RenamedBelow ==
    ASSUME NEW L \in Seq(Entry), RenamesFit(L), NEW e \in Range(L), NEW c, NEW m \in Paths,
           RenamedSince(e, c, m), NEW p \in Paths, Under(e.path, p), e.path # p
    PROVE  Under(e.oldPath, p) /\ e.oldPath # p
<1>1. e.oldPath # NoPath /\ Parent(e.oldPath) = Parent(e.path)
  BY DEF RenamesFit, RenamedSince, Marks
<1>. QED  BY <1>1, EntryPaths, PrimPathsAreSeqs, SiblingsUnder

(* A prim and all below it, told as one.                                   *)
LEMMA LeaveWhole ==
    ASSUME NEW w, NEW c, NEW L \in Seq(Entry), NEW p \in Paths, OldTold(w, c, L),
           HasEntry(L, p), "didRemoveNonInertPrim" \in EntryOf(L, p).flags
    PROVE  /\ OldTold(w, Without(c, p), L)
           /\ NewAreTold(w, c, L) => NewAreTold(w, Without(c, p), L)
<1>. DEFINE d == Without(c, p)
            f == EntryOf(L, p)
<1>1. \A q \in Paths : d[q] = IF Under(q, p) THEN Absent ELSE c[q]
  BY DEF Without
<1>2. /\ f \in Range(L) /\ f.path = p /\ f.flags \cap Marks # {}
      /\ "didRemoveNonInertPrim" \in f.flags
  BY EntryOfTyped DEF Marks, RemoveFlags
<1>3. EarlierMarked(L) /\ RenamesFit(L)
  BY DEF OldTold
<1>4. ASSUME NEW e \in Range(L), NEW m \in Paths, RenamedSince(e, c, m), Under(e.path, p)
      PROVE  Under(e.oldPath, p) /\ e.oldPath # p
  <2>1. e.path # p
    BY <1>2, <1>3, <1>4, UnmarkedIsLast DEF RenamedSince
  <2>. QED  BY <1>3, <1>4, <2>1, RenamedBelow
<1>. HIDE DEF d, f
<1>5. ASSUME NEW q \in Paths, NEW m \in Paths, w[q] # Absent, Under(q, m), Under(m, p)
      PROVE  IsTold(L, d, q, m)
  <2>1. Under(q, p)
    BY <1>5, PrimPathsAreSeqs, UnderOrder
  <2>2. CASE f.oldPath = NoPath
    <3>1. RemovedHere(f, q)
      BY <1>2, <2>1, <2>2 DEF RemovedHere
    <3>. QED  BY <1>2, <3>1 DEF IsTold, TellsGone
  <2>3. CASE f.oldPath # NoPath
    <3>1. PICK e \in Range(L) : TellsGone(e, c, q, p)
      BY <1>2, <1>5, <2>1, <2>3 DEF OldTold, ReplacedAreTold, ToldGone
    <3>2. CASE RemovedHere(e, q) \/ RemovedElsewhere(e, q)
      BY <3>2 DEF IsTold, TellsGone
    <3>3. CASE RenamedSince(e, c, p)
      <4>1. /\ Under(p, e.oldPath) /\ e.oldPath \in AnyPrimPath /\ p \in AnyPrimPath
            /\ m \in AnyPrimPath /\ e.path \in Paths
        BY <3>3, EntryPaths, PrimPathsAreSeqs DEF RenamedSince
      <4>2. ~Under(e.path, p)
        BY <1>4, <3>3, <4>1, UnderOrder
      <4>3. Under(m, e.oldPath)
        BY <1>5, <4>1, UnderOrder
      <4>4. RenamedSince(e, d, m)
        BY <1>1, <3>3, <4>1, <4>2, <4>3 DEF RenamedSince
      <4>. QED  BY <4>4 DEF IsTold, TellsGone
    <3>. QED  BY <3>1, <3>2, <3>3 DEF TellsGone
  <2>. QED  BY <2>2, <2>3
<1>6. ASSUME NEW e \in Range(L), NEW q \in Paths, NEW m \in Paths, w[q] # Absent, Under(q, m),
             RenamedSince(e, c, m), Under(e.path, p)
      PROVE  IsTold(L, d, q, m)
  <2>1. Under(e.oldPath, p) /\ Under(m, e.oldPath) /\ e.oldPath \in AnyPrimPath
    BY <1>4, <1>6, EntryPaths DEF RenamedSince
  <2>2. Under(m, p)
    BY <2>1, PrimPathsAreSeqs, UnderOrder
  <2>. QED  BY <1>5, <1>6, <2>2
<1>7. \A m \in Paths : Under(m, p) /\ c[m] # Absent => ToldGone(w, d, L, m)
  BY <1>5 DEF ToldGone, IsTold
<1>. QED  BY <1>5, <1>6, <1>7, LeaveTold DEF d

(* A prim and all below it, each told by itself.                           *)
LEMMA LeaveEach ==
    ASSUME NEW w, NEW c, NEW L \in Seq(Entry), NEW p \in Paths, OldTold(w, c, L),
           \A n \in Paths : Under(n, p) /\ c[n] # Absent =>
               HasEntry(L, n) /\ EntryOf(L, n).flags \cap RemoveFlags # {}
    PROVE  /\ OldTold(w, Without(c, p), L)
           /\ NewAreTold(w, c, L) => NewAreTold(w, Without(c, p), L)
<1>. DEFINE d == Without(c, p)
<1>1. \A q \in Paths : d[q] = IF Under(q, p) THEN Absent ELSE c[q]
  BY DEF Without
<1>3. EarlierMarked(L) /\ RenamesFit(L)
  BY DEF OldTold
<1>4. ASSUME NEW e \in Range(L), NEW m \in Paths, RenamedSince(e, c, m)
      PROVE  ~Under(e.path, p)
  <2>1. e.flags \cap Marks = {} /\ c[e.path] # Absent /\ e.path \in Paths
    BY <1>4, EntryPaths DEF RenamedSince
  <2>2. EntryOf(L, e.path) = e
    BY <1>3, <2>1, UnmarkedIsLast
  <2>. QED  BY <2>1, <2>2 DEF Marks
<1>. HIDE DEF d
<1>5. ASSUME NEW q \in Paths, NEW m \in Paths, IsTold(L, c, q, m)
      PROVE  IsTold(L, d, q, m)
  <2>1. PICK e \in Range(L) : TellsGone(e, c, q, m)
    BY <1>5 DEF IsTold
  <2>2. CASE RemovedHere(e, q) \/ RemovedElsewhere(e, q)
    BY <2>2 DEF IsTold, TellsGone
  <2>3. CASE RenamedSince(e, c, m)
    <3>1. e.path \in Paths /\ ~Under(e.path, p)
      BY <1>4, <2>3, EntryPaths
    <3>2. RenamedSince(e, d, m)
      BY <1>1, <2>3, <3>1 DEF RenamedSince
    <3>. QED  BY <3>2 DEF IsTold, TellsGone
  <2>. QED  BY <2>1, <2>2, <2>3 DEF TellsGone
<1>6. ASSUME NEW m \in Paths, Under(m, p), c[m] # Absent, NEW q \in Paths, w[q] # Absent, Under(q, m)
      PROVE  IsTold(L, d, q, m)
  <2>1. /\ q \in AnyPrimPath /\ m \in AnyPrimPath /\ p \in AnyPrimPath
        /\ Under(q, q) /\ Under(q, p)
    BY <1>6, PrimPathsAreSeqs, UnderOrder
  <2>2. IsTold(L, c, q, q)
    <3>1. CASE c[q] = Absent
      BY <1>6, <2>1, <3>1 DEF OldTold, GoneAreTold, ToldGone, IsTold
    <3>2. CASE c[q] # Absent
      <4>1. HasEntry(L, q) /\ EntryOf(L, q).flags \cap Marks # {}
        BY <2>1, <3>2 DEF Marks
      <4>2. EntryOf(L, q) \in Range(L) /\ EntryOf(L, q).path = q
        BY <4>1, EntryOfTyped
      <4>. QED  BY <1>6, <4>1, <4>2, MarkedAreTold DEF OldTold
    <3>. QED  BY <3>1, <3>2
  <2>3. PICK e \in Range(L) : TellsGone(e, c, q, q)
    BY <2>2 DEF IsTold
  <2>4. CASE RemovedHere(e, q) \/ RemovedElsewhere(e, q)
    BY <2>4 DEF IsTold, TellsGone
  <2>5. CASE RenamedSince(e, c, q)
    <3>1. /\ e.path \in Paths /\ ~Under(e.path, p) /\ e.oldPath \in AnyPrimPath
          /\ Under(q, e.oldPath) /\ e.path \in AnyPrimPath
          /\ e.path # NoPath /\ e.oldPath # NoPath /\ Parent(e.oldPath) = Parent(e.path)
      BY <1>3, <1>4, <2>5, EntryPaths DEF RenamedSince, RenamesFit, Marks
    <3>2. Under(m, e.oldPath)
      <4>1. CASE Under(e.oldPath, m) /\ e.oldPath # m
        <5>1. Under(e.path, m)
          BY <2>1, <3>1, <4>1, SiblingsUnder
        <5>. QED  BY <1>6, <2>1, <3>1, <5>1, UnderOrder
      <4>. QED  BY <1>6, <2>1, <3>1, <4>1, UnderOrder
    <3>3. RenamedSince(e, c, m)
      BY <2>5, <3>2 DEF RenamedSince
    <3>4. IsTold(L, c, q, m)
      BY <3>3 DEF IsTold, TellsGone
    <3>. QED  BY <1>5, <3>4
  <2>. QED  BY <2>3, <2>4, <2>5 DEF TellsGone
<1>7. \A m \in Paths : Under(m, p) /\ c[m] # Absent => ToldGone(w, d, L, m)
  BY <1>6 DEF ToldGone, IsTold
<1>9. \A e \in Range(L), q, m \in Paths :
               w[q] # Absent /\ Under(q, m) /\ RenamedSince(e, c, m) /\ Under(e.path, p) =>
               IsTold(L, d, q, m)
  BY <1>4
<1>. QED  BY <1>7, <1>9, LeaveTold DEF d

(* Nothing at p or below; no difference but there; nothing below p.        *)
Vacant(c, p) == \A q \in Paths : Under(q, p) => c[q] = Absent
SameOutside(c, d, p) == \A q \in Paths : ~Under(q, p) => d[q] = c[q]
NothingBelow(d, p) == \A q \in Paths : d[q] # Absent /\ Under(q, p) => q = p

(* Where there was nothing, p is added, and what is below it with it.      *)
LEMMA Arrive ==
    ASSUME NEW w, NEW c, NEW d, NEW L \in Seq(Entry), NEW M, NEW p \in Paths,
           NEW u \in Entry, NEW x \in AddFlags, NEW e,
           OldTold(w, c, L), u.flags \cap RemoveFlags = {},
           e = [u EXCEPT !.flags = u.flags \cup {x}], Alters(L, M, p, u, e),
           Vacant(c, p), SameOutside(c, d, p)
    PROVE  OldTold(w, d, M)
<1>0. /\ \A q \in Paths : Under(q, p) => c[q] = Absent
      /\ \A q \in Paths : ~Under(q, p) => d[q] = c[q]
  BY DEF Vacant, SameOutside
<1>1. /\ M \in Seq(Entry) /\ e \in Range(M) /\ Range(M) \subseteq Range(L) \cup {e, NewEntry(p)}
      /\ u \in Range(L) \cup {NewEntry(p)} /\ Range(L) \subseteq Range(M) \cup {u}
      /\ u.path = p /\ e.path = p
      /\ EarlierMarked(M)
  BY DEF Alters, OldTold
<1>2. /\ e.flags = u.flags \cup {x} /\ e.oldPath = u.oldPath /\ e.infoChanged = u.infoChanged
      /\ e.flags \cap AddFlags # {} /\ x # "didRename"
  <2>1. u.flags \cup {x} \in SUBSET Flags
    BY EntryParts, FlagsTyped
  <2>2. e.flags = u.flags \cup {x} /\ e.oldPath = u.oldPath /\ e.infoChanged = u.infoChanged
    BY <2>1, EntryParts
  <2>3. x # "didRename"
    BY FlagsTyped DEF Marks
  <2>. QED  BY <2>2, <2>3
<1>p. p \in AnyPrimPath /\ Under(p, p)
  BY PrimPathsAreSeqs, UnderOrder
<1>3. ASSUME NEW q \in Paths, NEW m \in Paths, Under(q, m), IsTold(L, c, q, m)
      PROVE  IsTold(M, d, q, m)
  <2>1. PICK g \in Range(L) : TellsGone(g, c, q, m)
    BY <1>3 DEF IsTold
  <2>2. g # u
    BY <1>0, <1>1, <1>p, <2>1 DEF TellsGone, RemovedHere, RemovedElsewhere,
       RenamedSince, RemoveFlags
  <2>3. g \in Range(M) /\ g.path \in Paths
    BY <1>1, <2>2, EntryPaths
  <2>4. RenamedSince(g, c, m) => RenamedSince(g, d, m)
    BY <1>0, <2>3 DEF RenamedSince
  <2>. QED  BY <2>1, <2>3, <2>4 DEF IsTold, TellsGone
<1>4. RenamesFit(M)
  <2>1. ASSUME NEW g \in Range(M)
        PROVE  /\ "didRename" \in g.flags => g.oldPath # NoPath
               /\ g.oldPath # NoPath /\ g.flags \cap AddFlags = {} =>
                    "didRename" \in g.flags /\ Parent(g.oldPath) = Parent(g.path)
    <3>1. CASE g \in Range(L)
      BY <3>1 DEF OldTold, RenamesFit
    <3>2. CASE g = NewEntry(p)
      BY <3>2, NewEntryTyped
    <3>3. CASE g = e
      <4>1. CASE u \in Range(L)
        BY <1>1, <1>2, <3>3, <4>1 DEF OldTold, RenamesFit
      <4>2. CASE u = NewEntry(p)
        BY <1>2, <3>3, <4>2, NewEntryTyped
      <4>. QED  BY <1>1, <4>1, <4>2
    <3>. QED  BY <1>1, <3>1, <3>2, <3>3
  <2>. QED  BY <2>1 DEF RenamesFit
<1>5. ASSUME NEW g \in Range(M) \ Range(L), g.oldPath # NoPath \/ g.flags \cap AddFlags # {}
      PROVE  ToldGone(w, c, L, g.path)
  <2>1. g = e
    BY <1>1, <1>5, NewEntryTyped
  <2>2. c[p] = Absent
    BY <1>0, <1>p
  <2>. QED  BY <1>1, <2>1, <2>2 DEF OldTold, GoneAreTold
<1>6. ASSUME NEW q \in Paths, w[q] # Absent, ~IsTold(L, c, q, q)
      PROVE  d[q] = c[q] /\ Known(M, q) = Known(L, q)
  <2>1. Under(q, q)
    BY PrimPathsAreSeqs, UnderOrder
  <2>2. c[q] # Absent
    BY <1>6, <2>1 DEF OldTold, GoneAreTold, ToldGone, IsTold
  <2>3. ~Under(q, p) /\ q # p
    BY <1>0, <1>p, <2>2
  <2>. QED  BY <1>0, <1>1, <2>3, KnownStays
<1>7. \A m \in Paths : ~(d[m] = Absent /\ c[m] # Absent)
  BY <1>0
<1>8. OldTold(w, d, M)
  BY <1>1, <1>3, <1>4, <1>5, <1>6, <1>7, OldStaysTold
<1>. QED  BY <1>8

(* ... and it is told.                                                     *)
LEMMA ArriveNew ==
    ASSUME NEW w, NEW c, NEW d, NEW L \in Seq(Entry), NEW M, NEW p \in Paths,
           NEW u \in Entry, NEW x \in AddFlags, NEW e,
           e = [u EXCEPT !.flags = u.flags \cup {x}], Alters(L, M, p, u, e),
           SameOutside(c, d, p),
           NewAreTold(w, c, L), x = "didAddNonInertPrim" \/ NothingBelow(d, p)
    PROVE  NewAreTold(w, d, M)
<1>1. /\ e \in Range(M) /\ Range(L) \subseteq Range(M) \cup {u}
      /\ u.path = p /\ e.path = p
  BY DEF Alters
<1>2. e.flags = u.flags \cup {x}
  <2>1. u.flags \cup {x} \in SUBSET Flags
    BY EntryParts, FlagsTyped
  <2>. QED  BY <2>1, EntryParts
<1>3. ASSUME NEW q \in Paths, w[q] = Absent, d[q] # Absent
      PROVE  \E g \in Range(M) : TellsNew(g, q)
  <2>1. CASE Under(q, p)
    <3>1. TellsNew(e, q)
      BY <1>1, <1>2, <1>3, <2>1 DEF TellsNew, NothingBelow
    <3>. QED  BY <1>1, <3>1
  <2>2. CASE ~Under(q, p)
    <3>1. PICK g \in Range(L) : TellsNew(g, q)
      BY <1>3, <2>2 DEF NewAreTold, SameOutside
    <3>2. TellsNew(u, q) => TellsNew(e, q)
      BY <1>1, <1>2 DEF TellsNew
    <3>. QED  BY <1>1, <3>1, <3>2
  <2>. QED  BY <2>1, <2>2
<1>. QED  BY <1>3 DEF NewAreTold

(* An addition is given where it came from.                                *)
LEMMA SetOldPath ==
    ASSUME NEW w, NEW c, NEW L \in Seq(Entry), NEW M, NEW p \in Paths, NEW o \in Paths,
           NEW u \in Entry, NEW e,
           OldTold(w, c, L), u.flags \cap RemoveFlags = {}, u.flags \cap AddFlags # {},
           e = [u EXCEPT !.oldPath = o], Alters(L, M, p, u, e)
    PROVE  /\ OldTold(w, c, M)
           /\ NewAreTold(w, c, L) => NewAreTold(w, c, M)
<1>1. /\ M \in Seq(Entry) /\ e \in Range(M) /\ Range(M) \subseteq Range(L) \cup {e, NewEntry(p)}
      /\ u \in Range(L) \cup {NewEntry(p)} /\ Range(L) \subseteq Range(M) \cup {u}
      /\ u.path = p /\ e.path = p
      /\ EarlierMarked(M)
  BY DEF Alters, OldTold
<1>2. e.flags = u.flags /\ e.oldPath = o /\ o # NoPath
  BY EntryParts, PrimPathsAreSeqs
<1>p. Under(p, p)
  BY PrimPathsAreSeqs, UnderOrder
<1>u. u \in Range(L)
  BY <1>1, NewEntryTyped
<1>3. ASSUME NEW q \in Paths, NEW m \in Paths, Under(q, m), IsTold(L, c, q, m)
      PROVE  IsTold(M, c, q, m)
  <2>1. PICK g \in Range(L) : TellsGone(g, c, q, m)
    BY <1>3 DEF IsTold
  <2>2. g # u
    BY <2>1 DEF TellsGone, RemovedHere, RemovedElsewhere, RenamedSince, RemoveFlags,
       Marks
  <2>3. g \in Range(M)
    BY <1>1, <2>2
  <2>. QED  BY <2>1, <2>3 DEF IsTold
<1>4. RenamesFit(M)
  <2>1. ASSUME NEW g \in Range(M)
        PROVE  /\ "didRename" \in g.flags => g.oldPath # NoPath
               /\ g.oldPath # NoPath /\ g.flags \cap AddFlags = {} =>
                    "didRename" \in g.flags /\ Parent(g.oldPath) = Parent(g.path)
    <3>1. CASE g \in Range(L)
      BY <3>1 DEF OldTold, RenamesFit
    <3>2. CASE g = NewEntry(p)
      BY <3>2, NewEntryTyped
    <3>3. CASE g = e
      BY <1>2, <3>3
    <3>. QED  BY <1>1, <3>1, <3>2, <3>3
  <2>. QED  BY <2>1 DEF RenamesFit
<1>g. ToldGone(w, c, L, p)
  BY <1>1, <1>u DEF OldTold, ReplacedAreTold
<1>5. ASSUME NEW g \in Range(M) \ Range(L), g.oldPath # NoPath \/ g.flags \cap AddFlags # {}
      PROVE  ToldGone(w, c, L, g.path)
  <2>1. g = e
    BY <1>1, <1>5, NewEntryTyped
  <2>. QED  BY <1>1, <1>g, <2>1
<1>6. ASSUME NEW q \in Paths, w[q] # Absent, ~IsTold(L, c, q, q)
      PROVE  Known(M, q) = Known(L, q)
  <2>1. q # p
    BY <1>6, <1>p, <1>g DEF ToldGone, IsTold
  <2>. QED  BY <1>1, <2>1, KnownStays
<1>8. OldTold(w, c, M)
  BY <1>1, <1>3, <1>4, <1>5, <1>6, OldStaysTold
<1>9. ASSUME NewAreTold(w, c, L)
      PROVE  NewAreTold(w, c, M)
  <2>1. ASSUME NEW q \in Paths, w[q] = Absent, c[q] # Absent
        PROVE  \E g \in Range(M) : TellsNew(g, q)
    <3>1. PICK g \in Range(L) : TellsNew(g, q)
      BY <1>9, <2>1 DEF NewAreTold
    <3>2. TellsNew(u, q) => TellsNew(e, q)
      BY <1>1, <1>2 DEF TellsNew
    <3>. QED  BY <1>1, <3>1, <3>2
  <2>. QED  BY <2>1 DEF NewAreTold
<1>. QED  BY <1>8, <1>9

(* A field is set.                                                         *)
LEMMA SetInfo ==
    ASSUME NEW w, NEW c \in [Paths -> Values \cup {Absent}], NEW L \in Seq(Entry),
           NEW p \in Paths, NEW old \in Values, NEW new \in Values,
           Absent \notin Values, OldTold(w, c, L), c[p] # Absent,
           w[p] # Absent /\ ~IsTold(L, c, p, p) => old = c[p]
    PROVE  LET M == DidChangeInfo(L, p, old, new)
               d == [c EXCEPT ![p] = new]
           IN  /\ OldTold(w, d, M)
               /\ NewAreTold(w, c, L) => NewAreTold(w, d, M)
<1>. DEFINE M == DidChangeInfo(L, p, old, new)
            d == [c EXCEPT ![p] = new]
            u == EntryOf(L, p)
            inf == << IF u.infoChanged = << >> THEN old ELSE u.infoChanged[1], new >>
            e == [u EXCEPT !.infoChanged = inf]
<1>0. /\ u \in Entry /\ inf \in Values \X Values /\ Alters(L, M, p, u, e)
      /\ e.flags = u.flags /\ e.oldPath = u.oldPath /\ e.infoChanged = inf
  BY EntryOfTyped, DidChangeInfoAlters, EntryParts
<1>d. \A q \in Paths : /\ q # p => d[q] = c[q]
                       /\ d[q] = Absent <=> c[q] = Absent
                       /\ d[p] = new
  OBVIOUS
<1>i. inf # << >> /\ inf = << IF u.infoChanged = << >> THEN old ELSE u.infoChanged[1], new >>
  OBVIOUS
<1>. HIDE DEF M, d, inf, e
<1>1. /\ M \in Seq(Entry) /\ e \in Range(M) /\ Range(M) \subseteq Range(L) \cup {e, NewEntry(p)}
      /\ u \in Range(L) \cup {NewEntry(p)} /\ Range(L) \subseteq Range(M) \cup {u}
      /\ u.path = p /\ e.path = p /\ EntryOf(M, p) = e
      /\ EarlierMarked(M)
  BY <1>0 DEF Alters, OldTold
<1>2. HasEntry(L, p) => u \in Range(L)
  BY EntryOfTyped
<1>3. ASSUME NEW q \in Paths, NEW m \in Paths, Under(q, m), IsTold(L, c, q, m)
      PROVE  IsTold(M, d, q, m)
  <2>1. PICK g \in Range(L) : TellsGone(g, c, q, m)
    BY <1>3 DEF IsTold
  <2>2. g.path \in Paths
    BY EntryPaths
  <2>3. TellsGone(g, d, q, m)
    BY <1>d, <2>1, <2>2 DEF TellsGone, RenamedSince
  <2>4. TellsGone(u, d, q, m) => TellsGone(e, d, q, m)
    BY <1>0, <1>1 DEF TellsGone, RemovedHere, RemovedElsewhere, RenamedSince
  <2>. QED  BY <1>1, <2>3, <2>4 DEF IsTold
<1>4. RenamesFit(M)
  <2>1. ASSUME NEW g \in Range(M)
        PROVE  /\ "didRename" \in g.flags => g.oldPath # NoPath
               /\ g.oldPath # NoPath /\ g.flags \cap AddFlags = {} =>
                    "didRename" \in g.flags /\ Parent(g.oldPath) = Parent(g.path)
    <3>1. CASE g \in Range(L)
      BY <3>1 DEF OldTold, RenamesFit
    <3>2. CASE g = NewEntry(p)
      BY <3>2, NewEntryTyped
    <3>3. CASE g = e
      <4>1. CASE u \in Range(L)
        BY <1>0, <1>1, <3>3, <4>1 DEF OldTold, RenamesFit
      <4>2. CASE u = NewEntry(p)
        BY <1>0, <3>3, <4>2, NewEntryTyped
      <4>. QED  BY <1>1, <4>1, <4>2
    <3>. QED  BY <1>1, <3>1, <3>2, <3>3
  <2>. QED  BY <2>1 DEF RenamesFit
<1>5. ASSUME NEW g \in Range(M) \ Range(L), g.oldPath # NoPath \/ g.flags \cap AddFlags # {}
      PROVE  ToldGone(w, c, L, g.path)
  <2>1. g = e
    BY <1>1, <1>5, NewEntryTyped
  <2>2. u \in Range(L)
    BY <1>0, <1>1, <1>5, <2>1, NewEntryTyped
  <2>3. u.oldPath # NoPath \/ u.flags \cap AddFlags # {}
    BY <1>0, <1>5, <2>1
  <2>. QED  BY <1>1, <2>1, <2>2, <2>3 DEF OldTold, ReplacedAreTold
<1>6. ASSUME NEW q \in Paths, w[q] # Absent, ~IsTold(L, c, q, q)
      PROVE  \/ d[q] = c[q] /\ Known(M, q) = Known(L, q)
             \/ /\ Known(M, q) \subseteq {<< >>, << w[q], d[q] >>}
                /\ w[q] # d[q] => ~(Known(M, q) \subseteq {<< >>})
  <2>1. CASE q # p
    BY <1>0, <1>1, <1>d, <2>1, KnownStays
  <2>2. CASE q = p
    <3>1. \A g \in Range(L) : g.path = p => g.flags \cap Marks = {}
      BY <1>6, <2>2, MarkedAreTold DEF OldTold
    <3>2. \A g \in Range(M) : g.path = p => g = e
      <4>1. ASSUME NEW g \in Range(M), g.path = p  PROVE g = e
        <5>1. g.flags \cap Marks = {}
          <6>1. CASE g \in Range(L)
            BY <3>1, <4>1, <6>1
          <6>2. CASE g = NewEntry(p)
            BY <6>2, NewEntryTyped
          <6>3. CASE g = e
            <7>1. u.flags \cap Marks = {}
              BY <1>1, <3>1, NewEntryTyped
            <7>. QED  BY <1>0, <6>3, <7>1
          <6>. QED  BY <1>1, <6>1, <6>2, <6>3
        <5>. QED  BY <1>1, <4>1, <5>1, UnmarkedIsLast
      <4>. QED  BY <4>1
    <3>3. Known(M, p) = {inf}
      BY <1>0, <1>1, <3>2 DEF Known
    <3>4. /\ Known(L, p) \subseteq {<< >>, << w[p], c[p] >>}
          /\ w[p] # c[p] => ~(Known(L, p) \subseteq {<< >>})
      BY <1>6, <2>2 DEF OldTold, InfosFit, Known, IsTold
    <3>5. inf = << w[p], new >>
      <4>1. CASE u.infoChanged = << >>
        <5>1. \A g \in Range(L) : g.path = p => g = u
          BY <3>1, UnmarkedIsLast DEF OldTold
        <5>2. Known(L, p) \subseteq {<< >>}
          BY <4>1, <5>1 DEF Known
        <5>. QED  BY <1>6, <1>i, <2>2, <3>4, <4>1, <5>2
      <4>2. CASE u.infoChanged # << >>
        <5>1. u \in Range(L)
          BY <1>1, <4>2, NewEntryTyped
        <5>2. u.infoChanged \in Known(L, p)
          BY <1>1, <5>1 DEF Known
        <5>3. u.infoChanged = << w[p], c[p] >>
          BY <3>4, <4>2, <5>2
        <5>. QED  BY <1>i, <4>2, <5>3
      <4>. QED  BY <4>1, <4>2
    <3>. QED  BY <1>d, <1>i, <2>2, <3>3, <3>5
  <2>. QED  BY <2>1, <2>2
<1>7. \A m \in Paths : ~(d[m] = Absent /\ c[m] # Absent)
  BY <1>d
<1>8. OldTold(w, d, M)
  BY <1>1, <1>3, <1>4, <1>5, <1>6, <1>7, OldStaysTold
<1>9. ASSUME NewAreTold(w, c, L)
      PROVE  NewAreTold(w, d, M)
  <2>1. ASSUME NEW q \in Paths, w[q] = Absent, d[q] # Absent
        PROVE  \E g \in Range(M) : TellsNew(g, q)
    <3>1. PICK g \in Range(L) : TellsNew(g, q)
      BY <1>9, <1>d, <2>1 DEF NewAreTold
    <3>2. TellsNew(u, q) => TellsNew(e, q)
      BY <1>0, <1>1 DEF TellsNew
    <3>. QED  BY <1>1, <3>1, <3>2
  <2>. QED  BY <2>1 DEF NewAreTold
<1>. QED  BY <1>8, <1>9 DEF M, d

(* A prim is renamed, and what is below it goes along.                     *)
LEMMA Rename ==
    ASSUME NEW w, NEW c, NEW d, NEW L \in Seq(Entry), NEW p \in Paths, NEW q \in Paths,
           OldTold(w, c, L), p # q, Parent(p) = Parent(q), ~Under(q, p), ~Under(p, q),
           \A r \in Paths : Under(r, q) => c[r] = Absent,
           \A r \in Paths : Under(r, p) => d[r] = Absent,
           \A r \in Paths : ~Under(r, p) /\ ~Under(r, q) => d[r] = c[r],
           d[q] # Absent
    PROVE  LET M == DidChangePrimName(L, p, q)
           IN  /\ OldTold(w, d, M)
               /\ NewAreTold(w, c, L) => NewAreTold(w, d, M)
<1>. DEFINE M == DidChangePrimName(L, p, q)
            tmp == EntryOf(L, p)
            e == MovedEntry(tmp, p, q)
<1>0. /\ M \in Seq(Entry) /\ e \in Range(M)
      /\ Range(M) \subseteq Range(L) \cup {e, NewEntry(p), NewEntry(q)}
      /\ EarlierMarked(M)
  BY DidChangePrimNameMeans DEF OldTold
<1>1. PICK v \in Entry : /\ v.path = q /\ v.flags \cap RemoveFlags = {}
                         /\ Range(L) \subseteq Range(M) \cup {tmp, v}
  BY DidChangePrimNameMeans
<1>2. /\ tmp \in Entry /\ tmp.path = p /\ (HasEntry(L, p) => tmp \in Range(L))
      /\ ~HasEntry(L, p) => tmp.flags = {} /\ tmp.oldPath = NoPath
  BY EntryOfTyped, NewEntryTyped
<1>3. /\ e.path = q /\ e.flags = tmp.flags \cup {"didRename"}
      /\ e.oldPath = IF tmp.oldPath = NoPath THEN p ELSE tmp.oldPath
  BY <1>2, MovedEntryMeans
<1>4. EarlierMarked(L) /\ RenamesFit(L) /\ "didRename" \notin Marks
  BY FlagsTyped DEF OldTold
<1>5. /\ p \in AnyPrimPath /\ q \in AnyPrimPath /\ p # NoPath /\ q # NoPath
      /\ Under(p, p) /\ Under(q, q)
  BY PrimPathsAreSeqs, UnderOrder
<1>6. tmp.oldPath # NoPath \/ tmp.flags # {} => tmp \in Range(L)
  BY <1>2
<1>. HIDE DEF M, tmp, e
<1>7. /\ "didRename" \in tmp.flags => tmp.oldPath # NoPath
      /\ tmp.oldPath # NoPath /\ tmp.flags \cap AddFlags = {} =>
           "didRename" \in tmp.flags /\ Parent(tmp.oldPath) = Parent(p)
  BY <1>2, <1>4, <1>6 DEF RenamesFit
<1>8. e.flags \cap Marks = tmp.flags \cap Marks /\ e.flags \cap RemoveFlags = tmp.flags \cap RemoveFlags
      /\ e.flags \cap AddFlags = tmp.flags \cap AddFlags /\ "didRename" \in e.flags
  BY <1>3, <1>4 DEF Marks
(* What told of something still does, but for renames below p.             *)
<1>9. ASSUME NEW r \in Paths, NEW m \in Paths, Under(r, m), NEW g \in Range(L),
             TellsGone(g, c, r, m), ~(RenamedSince(g, c, m) /\ Under(g.path, p) /\ g.path # p)
      PROVE  IsTold(M, d, r, m)
  <2>1. g # v
    BY <1>1, <1>5, <1>9 DEF TellsGone, RemovedHere, RemovedElsewhere, RenamedSince,
       RemoveFlags
  <2>2. CASE g = tmp
    <3>1. RemovedHere(tmp, r) => RemovedElsewhere(e, r)
      BY <1>2, <1>3, <1>5, <1>8 DEF RemovedHere, RemovedElsewhere, RemoveFlags
    <3>2. RemovedElsewhere(tmp, r) => RemovedElsewhere(e, r)
      BY <1>3, <1>7, <1>8 DEF RemovedElsewhere
    <3>3. RenamedSince(tmp, c, m) => RenamedSince(e, d, m)
      BY <1>3, <1>7, <1>8 DEF RenamedSince
    <3>. QED  BY <1>0, <1>9, <2>2, <3>1, <3>2, <3>3 DEF IsTold, TellsGone, e, tmp
  <2>3. CASE g \in Range(M) /\ g # tmp
    <3>1. CASE RenamedSince(g, c, m)
      <4>1. /\ g.path \in Paths /\ c[g.path] # Absent /\ g.flags \cap Marks = {}
        BY <3>1, EntryPaths DEF RenamedSince
      <4>2. g.path # p
        BY <1>4, <2>3, <4>1, UnmarkedIsLast DEF tmp
      <4>3. d[g.path] = c[g.path]
        BY <1>9, <3>1, <4>1, <4>2
      <4>4. RenamedSince(g, d, m)
        BY <3>1, <4>3 DEF RenamedSince
      <4>. QED  BY <2>3, <4>4 DEF IsTold, TellsGone
    <3>2. CASE RemovedHere(g, r) \/ RemovedElsewhere(g, r)
      BY <2>3, <3>2 DEF IsTold, TellsGone
    <3>. QED  BY <1>9, <3>1, <3>2 DEF TellsGone
  <2>. QED  BY <1>1, <2>1, <2>2, <2>3 DEF tmp
(* All there was below p has been told.                                    *)
<1>10. ASSUME NEW r \in Paths, NEW m \in Paths, w[r] # Absent, Under(r, m), Under(m, p)
       PROVE  IsTold(M, d, r, m)
  <2>1. /\ Under(r, p) /\ r \in AnyPrimPath /\ m \in AnyPrimPath
    BY <1>5, <1>10, PrimPathsAreSeqs, UnderOrder
  <2>2. CASE ToldGone(w, c, L, p)
    <3>1. PICK g \in Range(L) : TellsGone(g, c, r, p)
      BY <1>10, <2>1, <2>2 DEF ToldGone
    <3>2. ~(RenamedSince(g, c, p) /\ Under(g.path, p) /\ g.path # p)
      <4>1. ASSUME RenamedSince(g, c, p), Under(g.path, p), g.path # p  PROVE FALSE
        <5>1. Under(g.oldPath, p) /\ g.oldPath # p
          BY <1>4, <4>1, RenamedBelow
        <5>2. Under(p, g.oldPath) /\ g.oldPath \in AnyPrimPath
          BY <4>1, EntryPaths DEF RenamedSince
        <5>. QED  BY <1>5, <5>1, <5>2, UnderOrder
      <4>. QED  BY <4>1
    <3>3. IsTold(M, d, r, p)
      BY <1>9, <2>1, <3>1, <3>2
    <3>. QED  BY <1>0, <1>10, <3>3, ToldBelow
  <2>3. CASE ~ToldGone(w, c, L, p)
    <3>1. tmp.oldPath = NoPath /\ tmp.flags \cap AddFlags = {}
      BY <1>2, <1>6, <2>3 DEF OldTold, ReplacedAreTold
    <3>2. e.oldPath = p
      BY <1>3, <3>1
    <3>3. CASE tmp.flags \cap RemoveFlags # {}
      <4>1. RemovedElsewhere(e, r)
        BY <1>8, <2>1, <3>2, <3>3 DEF RemovedElsewhere
      <4>. QED  BY <1>0, <4>1 DEF IsTold, TellsGone, e, tmp
    <3>4. CASE tmp.flags \cap RemoveFlags = {}
      <4>1. RenamedSince(e, d, m)
        BY <1>3, <1>8, <1>10, <3>1, <3>2, <3>4 DEF RenamedSince, Marks
      <4>. QED  BY <1>0, <4>1 DEF IsTold, TellsGone, e, tmp
    <3>. QED  BY <3>3, <3>4
  <2>. QED  BY <2>2, <2>3
<1>11. ASSUME NEW r \in Paths, NEW m \in Paths, w[r] # Absent, Under(r, m), IsTold(L, c, r, m)
       PROVE  IsTold(M, d, r, m)
  <2>1. PICK g \in Range(L) : TellsGone(g, c, r, m)
    BY <1>11 DEF IsTold
  <2>2. CASE RenamedSince(g, c, m) /\ Under(g.path, p) /\ g.path # p
    <3>1. Under(g.oldPath, p) /\ Under(m, g.oldPath) /\ g.oldPath \in AnyPrimPath
      BY <1>4, <2>2, RenamedBelow, EntryPaths DEF RenamedSince
    <3>2. Under(m, p)
      BY <1>5, <3>1, PrimPathsAreSeqs, UnderOrder
    <3>. QED  BY <1>10, <1>11, <3>2
  <2>. QED  BY <1>9, <1>11, <2>1, <2>2
<1>12. \A m \in Paths : d[m] = Absent /\ c[m] # Absent => ToldGone(w, d, M, m)
  <2>1. ASSUME NEW m \in Paths, d[m] = Absent, c[m] # Absent  PROVE Under(m, p)
    BY <2>1
  <2>. QED  BY <1>10, <2>1 DEF ToldGone, IsTold
<1>13. RenamesFit(M)
  <2>1. ASSUME NEW g \in Range(M)
        PROVE  /\ "didRename" \in g.flags => g.oldPath # NoPath
               /\ g.oldPath # NoPath /\ g.flags \cap AddFlags = {} =>
                    "didRename" \in g.flags /\ Parent(g.oldPath) = Parent(g.path)
    <3>1. CASE g \in Range(L)
      BY <1>4, <3>1 DEF RenamesFit
    <3>2. CASE g \in {NewEntry(p), NewEntry(q)}
      BY <3>2, NewEntryTyped
    <3>3. CASE g = e
      BY <1>3, <1>5, <1>7, <1>8, <3>3
    <3>. QED  BY <1>0, <3>1, <3>2, <3>3 DEF e, tmp
  <2>. QED  BY <2>1 DEF RenamesFit
<1>14. ASSUME NEW g \in Range(M) \ Range(L), g.oldPath # NoPath \/ g.flags \cap AddFlags # {}
       PROVE  ToldGone(w, c, L, g.path)
  <2>1. g = e
    BY <1>0, <1>14, NewEntryTyped DEF e, tmp
  <2>2. c[q] = Absent
    BY <1>5
  <2>. QED  BY <1>3, <2>1, <2>2 DEF OldTold, GoneAreTold
<1>15. ASSUME NEW r \in Paths, w[r] # Absent, ~IsTold(M, d, r, r), ~IsTold(L, c, r, r)
       PROVE  d[r] = c[r] /\ Known(M, r) = Known(L, r)
  <2>1. Under(r, r)
    BY PrimPathsAreSeqs, UnderOrder
  <2>2. ~Under(r, p)
    BY <1>10, <1>15, <2>1
  <2>3. ~Under(r, q)
    BY <1>15, <2>1 DEF OldTold, GoneAreTold, ToldGone, IsTold
  <2>4. r # p /\ r # q
    BY <1>5, <2>2, <2>3
  <2>5. \A g \in Range(M) : g.path = r => g \in Range(L)
    BY <1>0, <1>3, <2>4, NewEntryTyped DEF e, tmp
  <2>6. \A g \in Range(L) : g.path = r => g \in Range(M)
    BY <1>1, <1>2, <2>4 DEF tmp
  <2>7. {f \in Range(M) : f.path = r} = {f \in Range(L) : f.path = r}
    BY <2>5, <2>6
  <2>. QED  BY <2>2, <2>3, <2>7 DEF Known
<1>16. OldTold(w, d, M)
  BY <1>0, <1>11, <1>12, <1>13, <1>14, <1>15, OldStaysTold DEF M
<1>17. ASSUME NewAreTold(w, c, L)
       PROVE  NewAreTold(w, d, M)
  <2>1. ASSUME NEW r \in Paths, w[r] = Absent, d[r] # Absent
        PROVE  \E g \in Range(M) : TellsNew(g, r)
    <3>1. CASE Under(r, q)
      <4>1. TellsNew(e, r)
        BY <1>3, <1>8, <3>1 DEF TellsNew
      <4>. QED  BY <1>0, <4>1 DEF e, tmp
    <3>2. CASE ~Under(r, q)
      <4>1. ~Under(r, p) /\ r # p /\ r # q
        BY <1>5, <2>1, <3>2
      <4>2. PICK g \in Range(L) : TellsNew(g, r)
        BY <1>17, <2>1, <3>2, <4>1 DEF NewAreTold
      <4>3. g # tmp /\ g # v
        BY <1>1, <1>2, <3>2, <4>1, <4>2 DEF TellsNew
      <4>. QED  BY <1>1, <4>2, <4>3 DEF tmp
    <3>. QED  BY <3>1, <3>2
  <2>. QED  BY <2>1 DEF NewAreTold
<1>. QED  BY <1>16, <1>17 DEF M

(* Induction up to n, over a set of numbers.                               *)
LEMMA UpTo ==
    ASSUME NEW n \in Nat, NEW T, 0 \in T, \A i \in 1 .. n : i - 1 \in T => i \in T
    PROVE  \A i \in 0 .. n : i \in T
<1>. DEFINE U == {i \in 0 .. n : i \notin T}
<1>. SUFFICES ASSUME U # {}  PROVE FALSE
  OBVIOUS
<1>1. PICK i \in U : \A j \in U : i <= j
  <2>1. U \subseteq Nat
    OBVIOUS
  <2>. HIDE DEF U
  <2>. QED  BY <2>1, Least
<1>2. i \in 1 .. n /\ i - 1 \in 0 .. n
  OBVIOUS
<1>3. i - 1 \in T
  BY <1>1, <1>2
<1>. QED  BY <1>2, <1>3

(* What is applied again and again has its sequence of results.            *)
Iterates(g, n, A, a, F) ==
  g \in [0 .. n -> A] /\ g[0] = a /\ \A i \in 1 .. n : g[i] = F[<<i, g[i - 1]>>]

(* What is applied again and again has its sequence of results.            *)
LEMMA Iteration ==
    ASSUME NEW n \in Nat, NEW A, NEW a \in A, NEW F,
           \A i \in 1 .. n, x \in A : F[<<i, x>>] \in A
    PROVE  \E g : Iterates(g, n, A, a, F)
<1>. DEFINE T == {m \in 0 .. n : \E g : Iterates(g, m, A, a, F)}
<1>1. 0 \in T
  <2>1. Iterates([i \in 0 .. 0 |-> a], 0, A, a, F)
    BY DEF Iterates
  <2>2. 0 \in 0 .. n
    OBVIOUS
  <2>. QED  BY <2>1, <2>2
<1>2. ASSUME NEW m \in 1 .. n, m - 1 \in T  PROVE m \in T
  <2>1. PICK g : Iterates(g, m - 1, A, a, F)
    BY <1>2
  <2>. DEFINE h == [i \in 0 .. m |-> IF i = m THEN F[<<m, g[m - 1]>>] ELSE g[i]]
  <2>2. m - 1 \in 0 .. m - 1 /\ g[m - 1] \in A /\ F[<<m, g[m - 1]>>] \in A
    <3>1. m - 1 \in 0 .. m - 1
      OBVIOUS
    <3>2. g[m - 1] \in A
      BY <2>1, <3>1 DEF Iterates
    <3>. QED  BY <3>1, <3>2
  <2>3. h \in [0 .. m -> A] /\ h[0] = a
    BY <2>1, <2>2 DEF Iterates
  <2>4. ASSUME NEW i \in 1 .. m  PROVE h[i] = F[<<i, h[i - 1]>>]
    <3>1. i - 1 \in 0 .. m /\ i - 1 # m /\ h[i - 1] = g[i - 1]
      OBVIOUS
    <3>2. CASE i = m
      BY <3>1, <3>2
    <3>3. CASE i # m
      <4>1. i \in 1 .. m - 1
        BY <3>3
      <4>. QED  BY <2>1, <3>1, <3>3, <4>1 DEF Iterates
    <3>. QED  BY <3>2, <3>3
  <2>. HIDE DEF h
  <2>5. Iterates(h, m, A, a, F)
    BY <2>3, <2>4 DEF Iterates
  <2>6. m \in 0 .. n
    OBVIOUS
  <2>. QED  BY <2>5, <2>6
<1>3. n \in T
  <2>. HIDE DEF T
  <2>1. n \in 0 .. n
    OBVIOUS
  <2>. QED  BY <1>1, <1>2, <2>1, UpTo
<1>. QED  BY <1>3

(* SetToSeq lists a finite set.                                            *)
LEMMA SetToSeqMeans ==
    ASSUME NEW S, IsFiniteSet(S)
    PROVE  SetToSeq(S) \in Seq(S) /\ Range(SetToSeq(S)) = S
<1>. DEFINE n == Cardinality(S)  f == SetToSeq(S)
<1>1. n \in Nat /\ ExistsBijection(1 .. n, S)
  BY FS_CardinalityType
<1>2. \E g \in [1 .. n -> S] : IsInjective(g)
  BY <1>1 DEF ExistsBijection, Bijection, Injection
<1>3. f \in [1 .. n -> S] /\ IsInjective(f)
  BY <1>2 DEF SetToSeq
<1>. HIDE DEF f
<1>4. IsFiniteSet(1 .. n) /\ Cardinality(1 .. n) = n
  BY <1>1, FS_Interval
<1>5. f \in Surjection(1 .. n, S)
  BY <1>3, <1>4, FS_Injection DEF Injection
<1>6. \A x \in S : \E i \in 1 .. n : f[i] = x
  BY <1>5 DEF Surjection
<1>7. f \in Seq(S)
  BY <1>1, <1>3
<1>8. Range(f) = S
  BY <1>3, <1>6 DEF Range
<1>. QED  BY <1>7, <1>8 DEF f

-----------------------------------------------------------------------------
(* The edits of a layer                                                    *)

(* No spec without those above it.                                         *)
ClosedIn(c) == \A p, q \in Paths : c[p] # Absent /\ Under(p, q) => c[q] # Absent

(* A layer and the list of how it came from w.                             *)
Fine(w, c, L) ==
  /\ c \in [Paths -> Values \cup {Absent}] /\ ClosedIn(c)
  /\ L \in Seq(Entry) /\ ListInv(w, c, L)

(* A list that has an entry is not empty.                                  *)
LEMMA EntryNonempty ==
    ASSUME NEW L \in Seq(Entry), NEW p, HasEntry(L, p)
    PROVE  L # << >>
<1>1. FindEntry(L, p) \in DOMAIN L
  BY FindMeans
<1>. QED  BY <1>1

(* What is strictly above p is at or above its parent.                     *)
LEMMA ParentUnder ==
    ASSUME NEW p \in Paths, NEW q \in Paths, Under(p, q), p # q
    PROVE  Len(p) > 1 /\ Parent(p) \in Paths /\ Under(Parent(p), q)
<1>1. p \in AnyPrimPath /\ q \in AnyPrimPath /\ p # NoPath /\ q # NoPath
  BY PrimPathsAreSeqs
<1>2. /\ Front(p) \in AnyPrimPath /\ IsPrefix(Front(p), p)
      /\ Len(p) \in Nat \ {0} /\ Len(Front(p)) = Len(p) - 1
      /\ Len(q) \in Nat \ {0}
  BY <1>1, SeqFrontMeans DEF AnyPrimPath, NoPath
<1>3. IsPrefix(q, p) /\ Len(q) <= Len(p)
  BY <1>1, SeqPrefixOrder DEF Under, AnyPrimPath
<1>4. Len(q) # Len(p)
  <2>1. ASSUME Len(p) = Len(q)  PROVE FALSE
    <3>1. IsPrefix(p, q)
      BY <1>1, <1>3, <2>1, SeqPrefixMeans DEF AnyPrimPath
    <3>. QED  BY <1>1, <1>3, <3>1, SeqPrefixOrder DEF AnyPrimPath
  <2>. QED  BY <2>1
<1>5. Len(p) > 1 /\ Len(q) <= Len(Front(p))
  BY <1>2, <1>3, <1>4
<1>6. IsPrefix(q, Front(p))
  BY <1>1, <1>2, <1>3, <1>5, SeqPrefixOrder DEF AnyPrimPath
<1>. QED  BY <1>5, <1>6, PrimPathsAssumption DEF Under, Parent

(* The list stays right when a spec is created.                            *)
LEMMA CreateFine ==
    ASSUME NEW w, NEW c, NEW L, NEW p \in Paths, NEW v \in Values,
           Absent \notin Values, Fine(w, c, L), c[p] = Absent, Len(p) > 1 => c[Parent(p)] # Absent
    PROVE  LET E == CreateSpec(c, L, p, v)
           IN  Fine(w, E.c, E.list) /\ E.list # << >>
<1>. DEFINE inert == v = Bare
            M == DidAddPrim(L, p, inert)
            d == [c EXCEPT ![p] = v]
            N == DidChangeInfo(M, p, Bare, v)
<1>1. /\ c \in [Paths -> Values \cup {Absent}] /\ ClosedIn(c)
      /\ L \in Seq(Entry) /\ OldTold(w, c, L) /\ NewAreTold(w, c, L)
  BY DEF Fine, ListInv
<1>2. PICK u \in Entry, x \in AddFlags :
             /\ u.flags \cap RemoveFlags = {}
             /\ Alters(L, M, p, u, [u EXCEPT !.flags = u.flags \cup {x}])
  <2>1. inert \in BOOLEAN
    OBVIOUS
  <2>. HIDE DEF inert
  <2>. QED  BY <1>1, <2>1, DidAddPrimAlters
<1>e. PICK e \in Entry : e = [u EXCEPT !.flags = u.flags \cup {x}] /\ Alters(L, M, p, u, e)
  BY <1>2 DEF Alters
<1>u. u.flags \cap RemoveFlags = {}
  BY <1>2
<1>3. /\ d \in [Paths -> Values \cup {Absent}] /\ d[p] = v /\ v # Absent
      /\ \A q \in Paths : q # p => d[q] = c[q]
  BY <1>1
<1>. HIDE DEF d, M
<1>4. Under(p, p) /\ \A q \in Paths : Under(q, p) => c[q] = Absent
  BY <1>1, PrimPathsAreSeqs, UnderOrder DEF ClosedIn
<1>5. \A q \in Paths : ~Under(q, p) => d[q] = c[q]
  BY <1>3, <1>4
<1>v. Vacant(c, p) /\ SameOutside(c, d, p)
  BY <1>4, <1>5 DEF Vacant, SameOutside
<1>6. \A q \in Paths : d[q] # Absent /\ Under(q, p) => q = p
  BY <1>3, <1>4
<1>7. OldTold(w, d, M) /\ NewAreTold(w, d, M)
  <2>1. OldTold(w, d, M)
    BY <1>1, <1>u, <1>e, <1>v, Arrive
  <2>2. NewAreTold(w, d, M)
    <3>1. NothingBelow(d, p)
      BY <1>6 DEF NothingBelow
    <3>. QED  BY <1>1, <1>e, <1>v, <3>1, ArriveNew
  <2>. QED  BY <2>1, <2>2
<1>8. M \in Seq(Entry) /\ HasEntry(M, p) /\ EntryOf(M, p) = e /\ e \in Range(M) /\ e.path = p
  BY <1>e DEF Alters
<1>9. e.flags \cap Marks # {}
  <2>1. u.flags \cup {x} \in SUBSET Flags
    BY EntryParts, FlagsTyped
  <2>2. e.flags = u.flags \cup {x}
    BY <2>1, <1>e, EntryParts
  <2>. QED  BY <2>2 DEF Marks
<1>10. ClosedIn(d)
  <2>1. ASSUME NEW a \in Paths, NEW b \in Paths, d[a] # Absent, Under(a, b)  PROVE d[b] # Absent
    <3>1. CASE b = p
      BY <1>3, <3>1
    <3>2. CASE b # p /\ a # p
      BY <1>1, <1>3, <2>1, <3>2 DEF ClosedIn
    <3>3. CASE b # p /\ a = p
      <4>1. Len(p) > 1 /\ Parent(p) \in Paths /\ Under(Parent(p), b)
        BY <2>1, <3>3, ParentUnder
      <4>2. c[b] # Absent
        BY <1>1, <4>1 DEF ClosedIn
      <4>. QED  BY <1>3, <3>3, <4>2
    <3>. QED  BY <3>1, <3>2, <3>3
  <2>. QED  BY <2>1 DEF ClosedIn
<1>11. CASE v = Bare
  <2>1. M # << >>
    BY <1>8, EntryNonempty
  <2>. QED  BY <1>3, <1>7, <1>8, <1>10, <1>11, <2>1 DEF CreateSpec, Fine, ListInv, M, d
<1>12. CASE v # Bare
  <2>1. Bare \in Values
    BY PrimPathsAssumption
  <2>2. w[p] # Absent => IsTold(M, d, p, p)
    BY <1>7, <1>8, <1>9, MarkedAreTold DEF OldTold
  <2>3. [d EXCEPT ![p] = v] = d
    BY <1>3
  <2>4. d[p] # Absent
    BY <1>3
  <2>5. OldTold(w, d, N) /\ NewAreTold(w, d, N)
    BY <1>3, <1>7, <1>8, <2>1, <2>2, <2>3, <2>4, SetInfo
  <2>6. N \in Seq(Entry) /\ HasEntry(N, p)
    BY <1>8, <2>1, DidChangeInfoAlters DEF Alters
  <2>7. N # << >>
    BY <2>6, EntryNonempty
  <2>. QED  BY <1>3, <1>10, <1>12, <2>5, <2>6, <2>7 DEF CreateSpec, Fine, ListInv, M, d
<1>. QED  BY <1>11, <1>12

(* The list stays right when a field is set.                               *)
LEMMA SetFine ==
    ASSUME NEW w, NEW c, NEW L, NEW p \in Paths, NEW v \in Values,
           Absent \notin Values, Fine(w, c, L), c[p] # Absent
    PROVE  LET E == SetField(c, L, p, v)
           IN  Fine(w, E.c, E.list) /\ E.list # << >>
<1>. DEFINE d == [c EXCEPT ![p] = v]
            N == DidChangeInfo(L, p, c[p], v)
<1>1. /\ c \in [Paths -> Values \cup {Absent}] /\ ClosedIn(c)
      /\ L \in Seq(Entry) /\ OldTold(w, c, L) /\ NewAreTold(w, c, L)
  BY DEF Fine, ListInv
<1>2. c[p] \in Values
  BY <1>1
<1>3. /\ d \in [Paths -> Values \cup {Absent}]
      /\ \A q \in Paths : d[q] = Absent <=> c[q] = Absent
  BY <1>1
<1>5. OldTold(w, d, N) /\ NewAreTold(w, d, N)
  BY <1>1, <1>2, SetInfo
<1>6. N \in Seq(Entry) /\ HasEntry(N, p)
  BY <1>1, <1>2, DidChangeInfoAlters DEF Alters
<1>7. N # << >>
  BY <1>6, EntryNonempty
<1>8. ClosedIn(d)
  BY <1>1, <1>3 DEF ClosedIn
<1>. HIDE DEF d
<1>9. SetField(c, L, p, v).c = d /\ SetField(c, L, p, v).list = N
  BY DEF SetField, d
<1>. HIDE DEF N
<1>. QED  BY <1>3, <1>5, <1>6, <1>7, <1>8, <1>9 DEF Fine, ListInv

(* Removals that are told                                                  *)
MarkedRemoved(M, q) == HasEntry(M, q) /\ EntryOf(M, q).flags \cap RemoveFlags # {}

(* A removal told once more does no harm to a list.                        *)
LEMMA RemovePrimFine ==
    ASSUME NEW w, NEW c, NEW L \in Seq(Entry), NEW p \in Paths, NEW inert \in BOOLEAN
    PROVE  LET M == DidRemovePrim(L, p, inert)
           IN  /\ M \in Seq(Entry) /\ HasEntry(M, p) /\ MarkedRemoved(M, p)
               /\ ~inert => "didRemoveNonInertPrim" \in EntryOf(M, p).flags
               /\ \A q : MarkedRemoved(L, q) => MarkedRemoved(M, q)
               /\ ListInv(w, c, L) => ListInv(w, c, M)
<1>. DEFINE M == DidRemovePrim(L, p, inert)
<1>1. PICK u \in Entry, x \in RemoveFlags, e \in Entry :
           /\ u.flags \cap AddFlags = {} /\ e = [u EXCEPT !.flags = u.flags \cup {x}]
           /\ x = IF inert THEN "didRemoveInertPrim" ELSE "didRemoveNonInertPrim"
           /\ Alters(L, M, p, u, e)
  <2>1. PICK u \in Entry, x \in RemoveFlags : u.flags \cap AddFlags = {}
             /\ x = (IF inert THEN "didRemoveInertPrim" ELSE "didRemoveNonInertPrim")
             /\ Alters(L, M, p, u, [u EXCEPT !.flags = u.flags \cup {x}])
    BY DidRemovePrimAlters
  <2>2. [u EXCEPT !.flags = u.flags \cup {x}] \in Entry
    BY <2>1 DEF Alters
  <2>. QED  BY <2>1, <2>2
<1>. HIDE DEF M
<1>2. e.flags = u.flags \cup {x}
  <2>1. u.flags \cup {x} \in SUBSET Flags
    BY EntryParts, FlagsTyped
  <2>. QED  BY <1>1, <2>1, EntryParts
<1>3. M \in Seq(Entry) /\ HasEntry(M, p) /\ EntryOf(M, p) = e
  BY <1>1 DEF Alters
<1>4. MarkedRemoved(M, p)
  BY <1>2, <1>3 DEF MarkedRemoved
<1>5. \A q : MarkedRemoved(L, q) => MarkedRemoved(M, q)
  BY <1>1, <1>4 DEF Alters, MarkedRemoved
<1>6. ASSUME ListInv(w, c, L)  PROVE ListInv(w, c, M)
  <2>0. OldTold(w, c, L) /\ NewAreTold(w, c, L)
    BY <1>6 DEF ListInv
  <2>1. OldTold(w, c, M)
    BY <1>1, <2>0, MarkRemoved
  <2>2. NewAreTold(w, c, M)
    BY <1>1, <2>0, MarkRemovedNew
  <2>. QED  BY <2>1, <2>2 DEF ListInv
<1>7. ~inert => x \in e.flags /\ x = "didRemoveNonInertPrim"
  BY <1>1, <1>2
<1>. QED  BY <1>3, <1>4, <1>5, <1>6, <1>7 DEF M

(* Each of some specs is told as removed.                                  *)
AllTold(c, L, specs) ==
  LET told[i \in 0 .. Len(specs)] ==
        IF i = 0 THEN L ELSE DidRemovePrim(told[i - 1], specs[i], TRUE)
  IN  told[Len(specs)]

(* Its intermediate lists.                                                 *)
Telling(g, L, specs) ==
  /\ g \in [0 .. Len(specs) -> Seq(Entry)] /\ g[0] = L
  /\ \A i \in 1 .. Len(specs) : g[i] = DidRemovePrim(g[i - 1], specs[i], TRUE)

(* AllTold is what its intermediate lists lead to.                         *)
LEMMA AllToldMeans ==
    ASSUME NEW c, NEW L \in Seq(Entry), NEW specs \in Seq(Paths)
    PROVE  \E g : Telling(g, L, specs) /\ AllTold(c, L, specs) = g[Len(specs)]
<1>. DEFINE n == Len(specs)
            Value(g, i) == IF i = 0 THEN L ELSE DidRemovePrim(g[i - 1], specs[i], TRUE)
            Runs(g) == g = [i \in 0 .. n |-> Value(g, i)]
            f == CHOOSE g : Runs(g)
            F == [ix \in (1 .. n) \X Seq(Entry) |-> DidRemovePrim(ix[2], specs[ix[1]], TRUE)]
<1>1. n \in Nat /\ \A i \in 1 .. n : specs[i] \in Paths
  OBVIOUS
<1>7. AllTold(c, L, specs) = f[n]
  BY DEF AllTold
<1>. HIDE DEF n, f
<1>2. \A i \in 1 .. n, x \in Seq(Entry) : DidRemovePrim(x, specs[i], TRUE) \in Seq(Entry)
  <2>1. ASSUME NEW i \in 1 .. n, NEW x \in Seq(Entry)
        PROVE  DidRemovePrim(x, specs[i], TRUE) \in Seq(Entry)
    BY <1>1, DidRemovePrimAlters DEF Alters
  <2>. QED  BY <2>1
<1>3. \A i \in 1 .. n, x \in Seq(Entry) : F[<<i, x>>] = DidRemovePrim(x, specs[i], TRUE)
  OBVIOUS
<1>4. PICK g : Iterates(g, n, Seq(Entry), L, F)
  <2>1. \A i \in 1 .. n, x \in Seq(Entry) : F[<<i, x>>] \in Seq(Entry)
    BY <1>2, <1>3
  <2>. HIDE DEF F
  <2>. QED  BY <1>1, <2>1, Iteration
<1>. HIDE DEF F
<1>5. g \in [0 .. n -> Seq(Entry)] /\ g[0] = L
  BY <1>4 DEF Iterates
<1>6. ASSUME NEW i \in 1 .. n  PROVE g[i] = DidRemovePrim(g[i - 1], specs[i], TRUE)
  <2>1. i - 1 \in 0 .. n
    BY <1>1
  <2>2. g[i - 1] \in Seq(Entry)
    BY <1>5, <2>1
  <2>3. g[i] = F[<<i, g[i - 1]>>]
    BY <1>4 DEF Iterates
  <2>. QED  BY <1>3, <2>2, <2>3
<1>8. Runs(g)
  <2>1. ASSUME NEW i \in 0 .. n  PROVE g[i] = Value(g, i)
    <3>1. CASE i = 0
      BY <1>5, <3>1
    <3>2. CASE i # 0
      <4>1. i \in 1 .. n
        BY <1>1, <3>2
      <4>. QED  BY <1>6, <3>2, <4>1
    <3>. QED  BY <3>1, <3>2
  <2>2. g = [i \in 0 .. n |-> g[i]]
    BY <1>5
  <2>. HIDE DEF Value
  <2>. QED  BY <2>1, <2>2
<1>9. \A i \in 0 .. n : f[i] = Value(f, i)
  <2>1. Runs(f)
    BY <1>8 DEF f
  <2>. HIDE DEF Value
  <2>. QED  BY <2>1
<1>. DEFINE T == {i \in 0 .. n : f[i] = g[i]}
<1>10. \A i \in 0 .. n : i \in T
  <2>0. 0 \in 0 .. n
    BY <1>1
  <2>1. 0 \in T
    BY <1>5, <1>9, <2>0
  <2>2. ASSUME NEW i \in 1 .. n, i - 1 \in T  PROVE i \in T
    <3>1. i \in 0 .. n /\ i # 0 /\ i - 1 \in 0 .. n
      BY <1>1
    <3>2. f[i] = DidRemovePrim(f[i - 1], specs[i], TRUE) /\ f[i - 1] = g[i - 1]
      BY <1>9, <2>2, <3>1
    <3>. QED  BY <1>6, <3>1, <3>2
  <2>. HIDE DEF T
  <2>. QED  BY <1>1, <2>1, <2>2, UpTo
<1>11. f[n] = g[n]
  BY <1>1, <1>10
<1>12. Telling(g, L, specs)
  BY <1>5, <1>6 DEF Telling, n
<1>. QED  BY <1>7, <1>11, <1>12 DEF n

(* What is marked of the list stays, and the list stays as good.           *)
LEMMA AllToldFine ==
    ASSUME NEW w, NEW c, NEW L \in Seq(Entry), NEW specs \in Seq(Paths), ListInv(w, c, L)
    PROVE  LET M == AllTold(c, L, specs)
           IN  /\ M \in Seq(Entry) /\ ListInv(w, c, M)
               /\ \A i \in 1 .. Len(specs) :
                    MarkedRemoved(M, specs[i])
<1>. DEFINE n == Len(specs)
<1>0. PICK g : Telling(g, L, specs) /\ AllTold(c, L, specs) = g[Len(specs)]
  BY AllToldMeans
<1>1. /\ g \in [0 .. n -> Seq(Entry)] /\ AllTold(c, L, specs) = g[n] /\ g[0] = L
      /\ \A i \in 1 .. n : g[i] = DidRemovePrim(g[i - 1], specs[i], TRUE)
  BY <1>0 DEF Telling
<1>2. n \in Nat /\ \A i \in 1 .. n : specs[i] \in Paths
  OBVIOUS
<1>. HIDE DEF n
<1>. DEFINE T == {i \in 0 .. n :
                    ListInv(w, c, g[i]) /\ \A j \in 1 .. i : MarkedRemoved(g[i], specs[j])}
<1>3. 0 \in T
  BY <1>1, <1>2
<1>4. ASSUME NEW i \in 1 .. n, i - 1 \in T  PROVE i \in T
  <2>0. i \in 0 .. n /\ i - 1 \in 0 .. n
    BY <1>2
  <2>1. /\ specs[i] \in Paths /\ g[i - 1] \in Seq(Entry)
        /\ g[i] = DidRemovePrim(g[i - 1], specs[i], TRUE) /\ ListInv(w, c, g[i - 1])
    BY <1>1, <1>2, <1>4, <2>0
  <2>2. \A j \in 1 .. i - 1 : MarkedRemoved(g[i - 1], specs[j])
    BY <1>4
  <2>3. /\ ListInv(w, c, g[i]) /\ MarkedRemoved(g[i], specs[i])
        /\ \A q : MarkedRemoved(g[i - 1], q) => MarkedRemoved(g[i], q)
    <3>. DEFINE K == g[i - 1]  p == specs[i]
    <3>1. K \in Seq(Entry) /\ p \in Paths /\ g[i] = DidRemovePrim(K, p, TRUE)
          /\ ListInv(w, c, K)
      BY <2>1
    <3>. HIDE DEF K, p
    <3>2. ListInv(w, c, g[i]) /\ MarkedRemoved(g[i], p)
          /\ \A q : MarkedRemoved(K, q) => MarkedRemoved(g[i], q)
      <4>. DEFINE M == DidRemovePrim(K, p, TRUE)
      <4>1. TRUE \in BOOLEAN
        OBVIOUS
      <4>2. ListInv(w, c, M) /\ MarkedRemoved(M, p)
        BY <3>1, <4>1, RemovePrimFine
      <4>3. \A q : MarkedRemoved(K, q) => MarkedRemoved(M, q)
        BY <3>1, <4>1, RemovePrimFine
      <4>. QED  BY <3>1, <4>2, <4>3
    <3>. QED  BY <3>2 DEF K, p
  <2>4. \A j \in 1 .. i : j = i \/ j \in 1 .. i - 1
    BY <1>2
  <2>5. \A j \in 1 .. i : MarkedRemoved(g[i], specs[j])
    BY <2>2, <2>3, <2>4
  <2>. QED  BY <2>0, <2>3, <2>5
<1>5. n \in T
  <2>. HIDE DEF T
  <2>1. n \in 0 .. n
    BY <1>2
  <2>. QED  BY <1>2, <1>3, <1>4, <2>1, UpTo
<1>6. g[n] \in Seq(Entry)
  BY <1>1, <1>2
<1>. QED  BY <1>1, <1>5, <1>6 DEF n

(* The list stays right when a subtree is deleted.                         *)
LEMMA DeleteFine ==
    ASSUME NEW w, NEW c, NEW L, NEW p \in Paths, Fine(w, c, L), c[p] # Absent
    PROVE  LET E == DeleteSpec(c, L, p)
           IN  E.c = Without(c, p) /\ Fine(w, E.c, E.list) /\ E.list # << >>
<1>. DEFINE d == Without(c, p)
            M == RemovalsOf(c, L, p)
<1>1. /\ c \in [Paths -> Values \cup {Absent}] /\ ClosedIn(c)
      /\ L \in Seq(Entry) /\ OldTold(w, c, L) /\ NewAreTold(w, c, L) /\ ListInv(w, c, L)
  BY DEF Fine, ListInv
<1>2. p \in AnyPrimPath /\ Under(p, p)
  BY PrimPathsAreSeqs, UnderOrder
<1>3. d \in [Paths -> Values \cup {Absent}] /\ ClosedIn(d)
  <2>1. d \in [Paths -> Values \cup {Absent}]
    BY <1>1 DEF Without
  <2>2. ASSUME NEW a \in Paths, NEW b \in Paths, d[a] # Absent, Under(a, b)  PROVE d[b] # Absent
    <3>1. ~Under(a, p) /\ c[a] # Absent
      BY <2>2 DEF Without
    <3>2. c[b] # Absent
      BY <1>1, <2>2, <3>1 DEF ClosedIn
    <3>3. ~Under(b, p)
      BY <1>2, <2>2, <3>1, PrimPathsAreSeqs, UnderOrder
    <3>. QED  BY <3>2, <3>3 DEF Without
  <2>. HIDE DEF d
  <2>. QED  BY <2>1, <2>2 DEF ClosedIn
<1>4. CASE \A q \in SubtreeOf(c, p) : c[q] = Bare
  <2>. DEFINE specs == Traverse(c, p)
  <2>1. SubtreeOf(c, p) \subseteq Paths /\ IsFiniteSet(SubtreeOf(c, p)) /\ p \in SubtreeOf(c, p)
    <3>1. SubtreeOf(c, p) \subseteq Paths /\ p \in SubtreeOf(c, p)
      BY <1>2 DEF SubtreeOf, Specs
    <3>. QED  BY <3>1, PrimPathsAssumption, FS_Subset
  <2>2. specs \in Seq(SubtreeOf(c, p)) /\ Range(specs) = SubtreeOf(c, p)
    BY <2>1, SetToSeqMeans DEF Traverse
  <2>. HIDE DEF specs
  <2>3. specs \in Seq(Paths) /\ \A q \in SubtreeOf(c, p) : \E i \in 1 .. Len(specs) : specs[i] = q
    BY <2>1, <2>2, RangeMeans
  <2>4. M = AllTold(c, L, specs)
    BY <1>4 DEF RemovalsOf, AllTold, specs
  <2>5. /\ M \in Seq(Entry) /\ ListInv(w, c, M)
        /\ \A i \in 1 .. Len(specs) :
             MarkedRemoved(M, specs[i])
    BY <1>1, <2>3, <2>4, AllToldFine
  <2>. HIDE DEF M
  <2>6. \A q \in Paths : Under(q, p) /\ c[q] # Absent =>
           HasEntry(M, q) /\ EntryOf(M, q).flags \cap RemoveFlags # {}
    BY <2>3, <2>5 DEF SubtreeOf, Specs, MarkedRemoved
  <2>7. OldTold(w, d, M) /\ NewAreTold(w, d, M)
    BY <2>5, <2>6, LeaveEach DEF ListInv
  <2>8. M # << >>
    BY <1>1, <1>2, <2>5, <2>6, EntryNonempty
  <2>9. DeleteSpec(c, L, p).c = d /\ DeleteSpec(c, L, p).list = M
    BY DEF DeleteSpec, Without, M
  <2>. HIDE DEF d
  <2>. QED  BY <1>3, <2>5, <2>7, <2>8, <2>9 DEF Fine, ListInv, d
<1>5. CASE ~\A q \in SubtreeOf(c, p) : c[q] = Bare
  <2>1. M = DidRemovePrim(L, p, FALSE)
    BY <1>5 DEF RemovalsOf
  <2>. HIDE DEF M
  <2>2. M \in Seq(Entry) /\ HasEntry(M, p) /\ ListInv(w, c, M)
        /\ "didRemoveNonInertPrim" \in EntryOf(M, p).flags
    BY <1>1, <2>1, RemovePrimFine
  <2>6. OldTold(w, d, M) /\ NewAreTold(w, d, M)
    BY <2>2, LeaveWhole DEF ListInv
  <2>7. M # << >>
    BY <2>2, EntryNonempty
  <2>8. DeleteSpec(c, L, p).c = d /\ DeleteSpec(c, L, p).list = M
    BY DEF DeleteSpec, Without, M
  <2>. HIDE DEF d
  <2>. QED  BY <1>3, <2>2, <2>6, <2>7, <2>8 DEF Fine, ListInv, d
<1>. QED  BY <1>4, <1>5

(* What is above a path is a path.                                         *)
LEMMA PrefixIsPath ==
    ASSUME NEW a \in Paths, NEW b \in AnyPrimPath, b # NoPath, Under(a, b)
    PROVE  b \in Paths
<1>. DEFINE T == {Len(x) : x \in {y \in Paths : Under(y, b)}}
<1>1. \A x \in Paths : x \in AnyPrimPath /\ x # NoPath /\ Len(x) \in Nat
  BY PrimPathsAreSeqs DEF AnyPrimPath
<1>2. T \subseteq Nat /\ T # {}
  BY <1>1
<1>3. \E m \in T : \A k \in T : m <= k
  <2>. HIDE DEF T
  <2>. QED  BY <1>2, Least
<1>4. PICK x \in Paths : Under(x, b) /\ \A y \in Paths : Under(y, b) => Len(x) <= Len(y)
  BY <1>3
<1>5. CASE x = b
  BY <1>5
<1>6. CASE x # b
  <2>1. /\ Front(x) \in AnyPrimPath /\ IsPrefix(Front(x), x)
        /\ Len(x) \in Nat \ {0} /\ Len(Front(x)) = Len(x) - 1
    BY <1>1, SeqFrontMeans DEF AnyPrimPath, NoPath
  <2>2. /\ Len(b) \in Nat \ {0}
    BY SeqFrontMeans DEF AnyPrimPath, NoPath
  <2>3. IsPrefix(b, x) /\ Len(b) <= Len(x)
    BY <1>1, <1>4, SeqPrefixOrder DEF Under, AnyPrimPath
  <2>4. Len(b) # Len(x)
    <3>1. ASSUME Len(x) = Len(b)  PROVE FALSE
      <4>1. IsPrefix(x, b)
        BY <1>1, <2>3, <3>1, SeqPrefixMeans DEF AnyPrimPath
      <4>. QED  BY <1>1, <1>6, <2>3, <4>1, SeqPrefixOrder DEF AnyPrimPath
    <3>. QED  BY <3>1
  <2>5. Len(x) > 1 /\ Len(b) <= Len(Front(x))
    BY <2>1, <2>2, <2>3, <2>4
  <2>6. IsPrefix(b, Front(x))
    BY <1>1, <2>1, <2>3, <2>5, SeqPrefixOrder DEF AnyPrimPath
  <2>7. Front(x) \in Paths
    BY <2>5, PrimPathsAssumption
  <2>8. Len(x) <= Len(Front(x))
    BY <1>4, <2>6, <2>7 DEF Under
  <2>. QED  BY <2>1, <2>8
<1>. QED  BY <1>5, <1>6

(* What is below q, below p instead.                                       *)
LEMMA ReplaceMeans ==
    ASSUME NEW p \in AnyPrimPath, NEW q \in AnyPrimPath, NEW r \in AnyPrimPath, Under(r, q)
    PROVE  LET x == ReplacePrefix(r, q, p)
           IN  /\ x \in AnyPrimPath /\ Len(x) = Len(p) + (Len(r) - Len(q))
               /\ Len(p) \in Nat /\ Len(q) \in Nat /\ Len(r) \in Nat /\ Len(q) <= Len(r)
               /\ \A i \in 1 .. Len(x) :
                    x[i] = IF i <= Len(p) THEN p[i] ELSE r[(i - Len(p)) + Len(q)]
<1>. DEFINE a == Len(q)  b == Len(r)  n == Len(p)
            t == SubSeq(r, a + 1, b)
            x == ReplacePrefix(r, q, p)
<1>1. /\ r \in Seq(PathNames) /\ p \in Seq(PathNames) /\ a \in Nat /\ b \in Nat /\ n \in Nat
      /\ a <= b
  BY SeqPrefixOrder DEF Under, AnyPrimPath
<1>2. \A i \in 1 .. b : r[i] \in PathNames
  BY <1>1, ElementOfSeq
<1>. HIDE DEF a, b, n
<1>3. \A i \in a + 1 .. b : i \in 1 .. b /\ r[i] \in PathNames
  BY <1>1, <1>2
<1>4. a + 1 \in Int /\ b \in Int
  BY <1>1
<1>5. /\ t \in Seq(PathNames)
      /\ Len(t) = IF a + 1 <= b THEN b - (a + 1) + 1 ELSE 0
      /\ \A i \in 1 .. b - (a + 1) + 1 : t[i] = r[(a + 1) + i - 1]
  BY <1>1, <1>3, <1>4, SubSeqProperties DEF b
<1>. HIDE DEF t
<1>6. Len(t) = b - a
  BY <1>1, <1>5
<1>7. \A i \in 1 .. b - a : t[i] = r[i + a]
  <2>1. ASSUME NEW i \in 1 .. b - a  PROVE t[i] = r[i + a]
    <3>1. i \in 1 .. b - (a + 1) + 1 /\ (a + 1) + i - 1 = i + a
      BY <1>1
    <3>. QED  BY <1>5, <3>1
  <2>. QED  BY <2>1
<1>8. x = p \o t
  BY DEF ReplacePrefix, t, a, b
<1>9. /\ x \in Seq(PathNames) /\ Len(x) = n + (b - a)
      /\ \A i \in 1 .. n + (b - a) : x[i] = IF i <= n THEN p[i] ELSE t[i - n]
  <2>1. /\ p \o t \in Seq(PathNames) /\ Len(p \o t) = Len(p) + Len(t)
        /\ \A i \in 1 .. Len(p) + Len(t) : (p \o t)[i] =
             IF i <= Len(p) THEN p[i] ELSE t[i - Len(p)]
    BY <1>1, <1>5, ConcatProperties
  <2>2. Len(p) = n
    BY DEF n
  <2>. QED  BY <1>6, <1>8, <2>1, <2>2
<1>. HIDE DEF x
<1>10. ASSUME NEW i \in 1 .. n + (b - a), ~(i <= n)  PROVE t[i - n] = r[(i - n) + a]
  <2>1. i - n \in 1 .. b - a
    BY <1>1, <1>10
  <2>. QED  BY <1>7, <2>1
<1>11. \A i \in 1 .. Len(x) : x[i] = IF i <= n THEN p[i] ELSE r[(i - n) + a]
  BY <1>9, <1>10
<1>. QED  BY <1>1, <1>9, <1>11 DEF x, n, a, b, AnyPrimPath

(* The old prefix itself becomes the new one.                              *)
LEMMA ReplaceSelf ==
    ASSUME NEW p \in AnyPrimPath, NEW q \in AnyPrimPath
    PROVE  ReplacePrefix(q, q, p) = p
<1>. DEFINE a == Len(q)
            t == SubSeq(q, a + 1, a)
<1>1. q \in Seq(PathNames) /\ p \in Seq(PathNames) /\ a \in Nat
  BY DEF AnyPrimPath
<1>. HIDE DEF a
<1>2. \A i \in a + 1 .. a : q[i] \in PathNames
  BY <1>1
<1>3. a + 1 \in Int /\ a \in Int /\ ~(a + 1 <= a)
  BY <1>1
<1>4. t \in Seq(PathNames) /\ Len(t) = IF a + 1 <= a THEN a - (a + 1) + 1 ELSE 0
  BY <1>1, <1>2, <1>3, SubSeqProperties
<1>5. t = << >>
  BY <1>3, <1>4, EmptySeq
<1>6. p \o << >> = p
  BY <1>1, ConcatEmptySeq
<1>. QED  BY <1>5, <1>6 DEF ReplacePrefix, a

(* Paths keep their order when their prefix is replaced.                   *)
LEMMA ReplaceOrder ==
    ASSUME NEW p \in AnyPrimPath, NEW q \in AnyPrimPath, NEW r \in AnyPrimPath,
           NEW s \in AnyPrimPath, Under(r, s), Under(s, q)
    PROVE  /\ Under(r, q) /\ ReplacePrefix(r, q, p) \in AnyPrimPath
           /\ ReplacePrefix(s, q, p) \in AnyPrimPath
           /\ Under(ReplacePrefix(r, q, p), ReplacePrefix(s, q, p))
           /\ Under(ReplacePrefix(s, q, p), p)
           /\ ReplacePrefix(q, q, p) = p
<1>. DEFINE x == ReplacePrefix(r, q, p)  y == ReplacePrefix(s, q, p)
            z == ReplacePrefix(q, q, p)
<1>1. Under(r, q) /\ Under(q, q)
  BY UnderOrder
<1>2. /\ x \in AnyPrimPath /\ Len(x) = Len(p) + (Len(r) - Len(q))
      /\ Len(p) \in Nat /\ Len(q) \in Nat /\ Len(r) \in Nat /\ Len(q) <= Len(r)
      /\ \A i \in 1 .. Len(x) : x[i] = IF i <= Len(p) THEN p[i] ELSE r[(i - Len(p)) + Len(q)]
  BY <1>1, ReplaceMeans
<1>3. /\ y \in AnyPrimPath /\ Len(y) = Len(p) + (Len(s) - Len(q))
      /\ Len(s) \in Nat /\ Len(q) <= Len(s)
      /\ \A i \in 1 .. Len(y) : y[i] = IF i <= Len(p) THEN p[i] ELSE s[(i - Len(p)) + Len(q)]
  BY ReplaceMeans
<1>. HIDE DEF x, y, z
<1>5. Len(s) <= Len(r) /\ \A i \in 1 .. Len(s) : s[i] = r[i]
  BY SeqPrefixMeans DEF Under, AnyPrimPath
<1>6. Len(y) <= Len(x)
  BY <1>2, <1>3, <1>5
<1>7. ASSUME NEW i \in 1 .. Len(y)  PROVE y[i] = x[i]
  <2>1. i \in 1 .. Len(x)
    BY <1>2, <1>3, <1>5
  <2>2. ~(i <= Len(p)) => (i - Len(p)) + Len(q) \in 1 .. Len(s)
    BY <1>2, <1>3
  <2>. QED  BY <1>2, <1>3, <1>5, <2>1, <2>2
<1>8. Under(x, y)
  BY <1>2, <1>3, <1>6, <1>7, SeqPrefixMeans DEF Under, AnyPrimPath
<1>9. Under(y, p)
  <2>1. Len(p) <= Len(y) /\ \A i \in 1 .. Len(p) : p[i] = y[i]
    BY <1>2, <1>3
  <2>. QED  BY <1>3, <2>1, SeqPrefixMeans DEF Under, AnyPrimPath
<1>10. z = p
  BY ReplaceSelf DEF z
<1>. QED  BY <1>1, <1>2, <1>3, <1>8, <1>9, <1>10 DEF x, y, z

(* A prim moves to another parent.                                         *)
LEMMA MoveAway ==
    ASSUME NEW w, NEW c, NEW d, NEW L \in Seq(Entry), NEW p \in Paths, NEW q \in Paths,
           ListInv(w, c, L), Vacant(c, q), Vacant(d, p),
           \A r \in Paths : ~Under(r, p) /\ ~Under(r, q) => d[r] = c[r]
    PROVE  LET M == DidMovePrim(L, p, q)
           IN  M \in Seq(Entry) /\ M # << >> /\ ListInv(w, d, M)
<1>. DEFINE b == Without(c, p)
            R == DidRemovePrim(L, p, FALSE)
            A == DidAddPrim(R, q, FALSE)
            M == Change(A, q, [EntryOf(A, q) EXCEPT !.oldPath = p])
<1>0. FALSE \in BOOLEAN
  OBVIOUS
<1>1. /\ R \in Seq(Entry) /\ HasEntry(R, p) /\ ListInv(w, c, R)
      /\ "didRemoveNonInertPrim" \in EntryOf(R, p).flags
  <2>1. R \in Seq(Entry) /\ HasEntry(R, p) /\ (ListInv(w, c, L) => ListInv(w, c, R))
    BY <1>0, RemovePrimFine
  <2>2. ~FALSE => "didRemoveNonInertPrim" \in EntryOf(R, p).flags
    BY <1>0, RemovePrimFine
  <2>. QED  BY <2>1, <2>2
<1>m. DidMovePrim(L, p, q) = M
  BY DEF DidMovePrim
<1>2. PICK u \in Entry, x \in AddFlags, e \in Entry :
           /\ u.flags \cap RemoveFlags = {} /\ e = [u EXCEPT !.flags = u.flags \cup {x}]
           /\ x = "didAddNonInertPrim" /\ Alters(R, A, q, u, e)
  <2>. HIDE DEF R
  <2>1. PICK u \in Entry, x \in AddFlags : u.flags \cap RemoveFlags = {}
             /\ x = (IF FALSE THEN "didAddInertPrim" ELSE "didAddNonInertPrim")
             /\ Alters(R, A, q, u, [u EXCEPT !.flags = u.flags \cup {x}])
    BY <1>0, <1>1, DidAddPrimAlters
  <2>2. [u EXCEPT !.flags = u.flags \cup {x}] \in Entry
    BY <2>1 DEF Alters
  <2>. QED  BY <2>1, <2>2
<1>. HIDE DEF R, A
<1>3. OldTold(w, b, R) /\ NewAreTold(w, b, R)
  BY <1>1, LeaveWhole DEF ListInv
<1>4. \A r \in Paths : b[r] = IF Under(r, p) THEN Absent ELSE c[r]
  BY DEF Without
<1>. HIDE DEF b, M
<1>5. Vacant(b, q) /\ SameOutside(b, d, q)
  BY <1>4 DEF Vacant, SameOutside
<1>6. OldTold(w, d, A)
  BY <1>1, <1>2, <1>3, <1>5, Arrive
<1>7. NewAreTold(w, d, A)
  BY <1>1, <1>2, <1>3, <1>5, ArriveNew
<1>8. /\ e.flags \cap RemoveFlags = {} /\ e.flags \cap AddFlags # {}
      /\ e.path = q /\ A \in Seq(Entry) /\ EntryOf(A, q) = e
  <2>1. u.flags \cup {x} \in SUBSET Flags
    BY EntryParts, FlagsTyped
  <2>2. e.flags = u.flags \cup {x}
    BY <1>2, <2>1, EntryParts
  <2>3. x \notin RemoveFlags
    BY FlagsTyped
  <2>. QED  BY <1>2, <2>2, <2>3 DEF Alters
<1>9. PICK k \in Entry : k = [e EXCEPT !.oldPath = p] /\ k.path = q
  <2>1. /\ [e EXCEPT !.oldPath = p] \in Entry /\ [e EXCEPT !.oldPath = p].path = e.path
    BY EntryParts
  <2>. QED  BY <1>8, <2>1
<1>10. M = Change(A, q, k)
  BY <1>8, <1>9 DEF M
<1>11. Alters(A, M, q, e, k)
  BY <1>8, <1>9, <1>10, ChangeAlters
<1>12. OldTold(w, d, M)
  BY <1>6, <1>8, <1>9, <1>11, SetOldPath
<1>13. NewAreTold(w, d, M)
  BY <1>6, <1>7, <1>8, <1>9, <1>11, SetOldPath
<1>14. M \in Seq(Entry) /\ M # << >>
  <2>1. M \in Seq(Entry) /\ HasEntry(M, q)
    BY <1>11 DEF Alters
  <2>. QED  BY <2>1, EntryNonempty
<1>. QED  BY <1>m, <1>12, <1>13, <1>14 DEF ListInv

(* The list stays right when a subtree is renamed or moved.                *)
LEMMA MoveFine ==
    ASSUME NEW w, NEW c, NEW L, NEW p \in Paths, NEW q \in Paths, Fine(w, c, L),
           ~Under(p, q), ~Under(q, p), c[p] # Absent, c[q] = Absent,
           Len(q) > 1 => c[Parent(q)] # Absent
    PROVE  LET E == MoveSpec(c, L, p, q)
           IN  Fine(w, E.c, E.list) /\ E.list # << >>
<1>. DEFINE d == MoveSpec(c, L, p, q).c
            M == MoveSpec(c, L, p, q).list
            Back(r) == ReplacePrefix(r, q, p)
<1>1. /\ c \in [Paths -> Values \cup {Absent}] /\ ClosedIn(c)
      /\ L \in Seq(Entry) /\ OldTold(w, c, L) /\ NewAreTold(w, c, L) /\ ListInv(w, c, L)
  BY DEF Fine, ListInv
<1>2. p \in AnyPrimPath /\ q \in AnyPrimPath /\ p # NoPath /\ q # NoPath /\ Under(p, p) /\ Under(q, q)
  BY PrimPathsAreSeqs, UnderOrder
<1>3. /\ d \in [Paths -> Values \cup {Absent}]
      /\ \A r \in Paths : d[r] = IF Back(r) \in Paths /\ Under(r, q) THEN c[Back(r)]
                                 ELSE IF Under(r, p) THEN Absent ELSE c[r]
  <2>. HIDE DEF Back
  <2>1. d = [r \in Paths |-> IF Back(r) \in Paths /\ Under(r, q) THEN c[Back(r)]
                             ELSE IF Under(r, p) THEN Absent ELSE c[r]]
    BY DEF MoveSpec, Back
  <2>. HIDE DEF d
  <2>. QED  BY <1>1, <2>1
<1>4. M = IF Parent(p) = Parent(q) THEN DidChangePrimName(L, p, q) ELSE DidMovePrim(L, p, q)
  BY DEF MoveSpec
<1>. HIDE DEF d, M, Back
<1>5. \A r \in Paths : ~(Under(r, p) /\ Under(r, q))
  BY <1>2, PrimPathsAreSeqs, UnderOrder
<1>6. \A r \in Paths : Under(r, q) => c[r] = Absent
  BY <1>1 DEF ClosedIn
<1>7. \A r \in Paths : /\ Under(r, p) => d[r] = Absent
                       /\ ~Under(r, p) /\ ~Under(r, q) => d[r] = c[r]
  BY <1>3, <1>5
<1>8. d[q] # Absent
  <2>1. Back(q) = p
    BY <1>2, ReplaceSelf DEF Back
  <2>. QED  BY <1>2, <1>3, <2>1
<1>9. ClosedIn(d)
  <2>1. ASSUME NEW r \in Paths, NEW s \in Paths, d[r] # Absent, Under(r, s)  PROVE d[s] # Absent
    <3>0. r \in AnyPrimPath /\ s \in AnyPrimPath /\ r # NoPath /\ s # NoPath
      BY PrimPathsAreSeqs
    <3>1. CASE ~Under(r, q)
      <4>1. ~Under(r, p) /\ d[r] = c[r]
        BY <1>7, <2>1, <3>1
      <4>2. ~Under(s, p) /\ ~Under(s, q)
        BY <1>2, <2>1, <3>0, <3>1, <4>1, UnderOrder
      <4>3. c[s] # Absent
        BY <1>1, <2>1, <4>1 DEF ClosedIn
      <4>. QED  BY <1>7, <4>2, <4>3
    <3>2. CASE Under(r, q) /\ Under(s, q)
      <4>1. Back(r) \in Paths /\ d[r] = c[Back(r)]
        BY <1>3, <1>5, <1>6, <2>1, <3>2
      <4>2. Back(s) \in AnyPrimPath /\ Under(Back(r), Back(s)) /\ Under(Back(s), p)
        BY <1>2, <2>1, <3>0, <3>2, ReplaceOrder DEF Back
      <4>3. Back(s) # NoPath
        BY <1>2, <4>2, UnderOrder, PrimPathsAreSeqs
      <4>4. Back(s) \in Paths
        BY <4>1, <4>2, <4>3, PrefixIsPath
      <4>5. c[Back(s)] # Absent
        BY <1>1, <2>1, <4>1, <4>2, <4>4 DEF ClosedIn
      <4>. QED  BY <1>3, <3>2, <4>4, <4>5
    <3>3. CASE Under(r, q) /\ ~Under(s, q)
      <4>1. Under(q, s) /\ q # s
        BY <1>2, <2>1, <3>0, <3>3, UnderOrder
      <4>2. Len(q) > 1 /\ Parent(q) \in Paths /\ Under(Parent(q), s)
        BY <4>1, ParentUnder
      <4>3. c[s] # Absent
        BY <1>1, <4>2 DEF ClosedIn
      <4>4. ~Under(s, p)
        BY <1>2, <3>0, <4>1, UnderOrder
      <4>. QED  BY <1>7, <3>3, <4>3, <4>4
    <3>. QED  BY <3>1, <3>2, <3>3
  <2>. QED  BY <2>1 DEF ClosedIn
<1>10. CASE Parent(p) = Parent(q)
  <2>1. p # q
    BY <1>2
  <2>2. M = DidChangePrimName(L, p, q)
    BY <1>4, <1>10
  <2>3. OldTold(w, d, DidChangePrimName(L, p, q))
    BY <1>1, <1>6, <1>7, <1>8, <1>10, <2>1, Rename
  <2>4. NewAreTold(w, c, L) => NewAreTold(w, d, DidChangePrimName(L, p, q))
    BY <1>1, <1>6, <1>7, <1>8, <1>10, <2>1, Rename
  <2>5. M \in Seq(Entry) /\ MovedEntry(EntryOf(L, p), p, q) \in Range(M)
    BY <1>1, <2>1, <2>2, DidChangePrimNameMeans
  <2>6. M # << >>
    BY <2>5, RangeMeans
  <2>. QED  BY <1>1, <1>3, <1>9, <2>2, <2>3, <2>4, <2>5, <2>6 DEF Fine, ListInv, d, M
<1>11. CASE Parent(p) # Parent(q)
  <2>1. M = DidMovePrim(L, p, q)
    BY <1>4, <1>11
  <2>2. Vacant(c, q) /\ Vacant(d, p)
    BY <1>6, <1>7 DEF Vacant
  <2>3. M \in Seq(Entry) /\ M # << >> /\ ListInv(w, d, M)
    BY <1>1, <1>7, <2>1, <2>2, MoveAway
  <2>. QED  BY <1>3, <1>9, <2>3 DEF Fine, d, M
<1>. QED  BY <1>10, <1>11

(* A layer from which inert specs have gone, and its list.                 *)
Edited == [c : [Paths -> Values \cup {Absent}], list : Seq(Entry)]

Held(w, c, L, e) ==
  /\ e \in Edited /\ Fine(w, e.c, e.list)
  /\ e.list = << >> => e.c = c /\ L = << >>
  /\ \A q \in Paths : e.c[q] = c[q] \/ (c[q] = Bare /\ e.c[q] = Absent)

(* One more inert spec may go.                                             *)
LEMMA RemoveOneHolds ==
    ASSUME NEW w, NEW c, NEW L, NEW e, Held(w, c, L, e), NEW p \in Paths
    PROVE  Held(w, c, L, RemoveOneIfInert(e, p))
<1>. DEFINE E == DeleteSpec(e.c, e.list, p)
<1>1. CASE ~IsInert(e.c, p)
  BY <1>1 DEF RemoveOneIfInert
<1>2. CASE IsInert(e.c, p)
  <2>1. RemoveOneIfInert(e, p) = E
    BY <1>2 DEF RemoveOneIfInert
  <2>2. Bare # Absent
    BY PrimPathsAssumption, ManagerAssumption
  <2>3. e.c[p] = Bare /\ SubtreeOf(e.c, p) = {p} /\ Fine(w, e.c, e.list)
    BY <1>2 DEF IsInert, Held
  <2>4. E.c = Without(e.c, p) /\ Fine(w, E.c, E.list) /\ E.list # << >>
    BY <2>2, <2>3, DeleteFine
  <2>5. E \in Edited
    <3>1. E.c \in [Paths -> Values \cup {Absent}] /\ E.list \in Seq(Entry)
      BY <2>4 DEF Fine
    <3>2. E = [c |-> E.c, list |-> E.list]
      BY DEF DeleteSpec
    <3>. HIDE DEF E
    <3>. QED  BY <3>1, <3>2 DEF Edited
  <2>6. \A q \in Paths : E.c[q] = e.c[q] \/ (e.c[q] = Bare /\ E.c[q] = Absent)
    BY <2>3, <2>4 DEF Without, SubtreeOf, Specs
  <2>. HIDE DEF E
  <2>7. \A q \in Paths : E.c[q] = c[q] \/ (c[q] = Bare /\ E.c[q] = Absent)
    BY <2>2, <2>6 DEF Held
  <2>. QED  BY <2>1, <2>4, <2>5, <2>7 DEF Held
<1>. QED  BY <1>1, <1>2

(* The first names of a path are a path.                                   *)
LEMMA PrefixIsPathToo ==
    ASSUME NEW p \in Paths, NEW k \in 1 .. Len(p)
    PROVE  SubSeq(p, 1, k) \in Paths
<1>. DEFINE n == Len(p)  t == SubSeq(p, 1, k)
<1>1. p \in Seq(PathNames) /\ p \in AnyPrimPath /\ n \in Nat
  BY PrimPathsAreSeqs DEF AnyPrimPath
<1>. HIDE DEF n
<1>2. \A i \in 1 .. n : p[i] \in PathNames
  BY <1>1, ElementOfSeq DEF n
<1>3. k \in 1 .. n
  BY DEF n
<1>4. 1 \in Int /\ k \in Int /\ \A i \in 1 .. k : p[i] \in PathNames
  BY <1>1, <1>2, <1>3
<1>5. /\ t \in Seq(PathNames)
      /\ Len(t) = IF 1 <= k THEN k - 1 + 1 ELSE 0
      /\ \A i \in 1 .. k - 1 + 1 : t[i] = p[1 + i - 1]
  BY <1>1, <1>4, SubSeqProperties
<1>. HIDE DEF t
<1>6. Len(t) = k /\ Len(t) <= n /\ \A i \in 1 .. Len(t) : t[i] = p[i]
  BY <1>1, <1>3, <1>5
<1>7. IsPrefix(t, p)
  BY <1>1, <1>5, <1>6, SeqPrefixMeans DEF n
<1>8. t # NoPath
  BY <1>3, <1>6 DEF NoPath
<1>9. t \in AnyPrimPath
  BY <1>5 DEF AnyPrimPath
<1>. QED  BY <1>7, <1>8, <1>9, PrefixIsPath DEF Under, t

(* What is removed with its ancestors was inert, and all of it is told.    *)
LEMMA RemoveIfInertFine ==
    ASSUME NEW w, NEW c, NEW L, NEW p \in Paths, Fine(w, c, L)
    PROVE  LET E == RemoveIfInert(c, L, p)
           IN  /\ Fine(w, E.c, E.list)
               /\ E.list = << >> => E.c = c /\ L = << >>
               /\ \A q \in Paths : E.c[q] = c[q] \/ (c[q] = Bare /\ E.c[q] = Absent)
<1>. DEFINE n == Len(p)
            first == [c |-> c, list |-> L]
            at(i) == SubSeq(p, 1, n + 1 - i)
            Value(g, i) == IF i = 0 THEN [c |-> c, list |-> L] ELSE RemoveOneIfInert(g[i - 1], at(i))
            Runs(g) == g = [i \in 0 .. n |-> Value(g, i)]
            f == CHOOSE g : Runs(g)
            A == {x \in Edited : Held(w, c, L, x)}
            F == [ix \in (1 .. n) \X A |-> RemoveOneIfInert(ix[2], at(ix[1]))]
<1>1. n \in Nat
  BY PrimPathsAreSeqs DEF AnyPrimPath
<1>2. RemoveIfInert(c, L, p) = IF IsInert(c, p) THEN f[n] ELSE first
  BY DEF RemoveIfInert
<1>a. \A i \in 1 .. n : at(i) \in Paths
  <2>1. \A i \in 1 .. n : n + 1 - i \in 1 .. n
    BY <1>1
  <2>. QED  BY <2>1, PrefixIsPathToo
<1>. HIDE DEF n, f, at
<1>3. \A x \in A : Held(w, c, L, x)
  OBVIOUS
<1>4. \A x : Held(w, c, L, x) => x \in A
  BY DEF Held
<1>5. first \in A /\ Held(w, c, L, first)
  <2>1. first \in Edited
    BY DEF Fine, Edited
  <2>2. Held(w, c, L, first)
    BY <2>1 DEF Held
  <2>. HIDE DEF first, A
  <2>. QED  BY <1>4, <2>2
<1>. HIDE DEF A
<1>6. \A i \in 1 .. n, x \in A : RemoveOneIfInert(x, at(i)) \in A
  BY <1>a, <1>3, <1>4, RemoveOneHolds
<1>7. \A i \in 1 .. n, x \in A : F[<<i, x>>] = RemoveOneIfInert(x, at(i))
  OBVIOUS
<1>8. PICK g : Iterates(g, n, A, first, F)
  <2>1. \A i \in 1 .. n, x \in A : F[<<i, x>>] \in A
    BY <1>6, <1>7
  <2>. HIDE DEF F, first
  <2>. QED  BY <1>1, <1>5, <2>1, Iteration
<1>. HIDE DEF F
<1>9. g \in [0 .. n -> A] /\ g[0] = first
  BY <1>8 DEF Iterates
<1>10. ASSUME NEW i \in 1 .. n  PROVE g[i] = RemoveOneIfInert(g[i - 1], at(i))
  <2>1. i - 1 \in 0 .. n
    BY <1>1
  <2>2. g[i - 1] \in A
    BY <1>9, <2>1
  <2>3. g[i] = F[<<i, g[i - 1]>>]
    BY <1>8 DEF Iterates
  <2>. QED  BY <1>7, <2>2, <2>3
<1>11. Runs(g)
  <2>1. ASSUME NEW i \in 0 .. n  PROVE g[i] = Value(g, i)
    <3>1. CASE i = 0
      BY <1>9, <3>1
    <3>2. CASE i # 0
      <4>1. i \in 1 .. n
        BY <1>1, <3>2
      <4>. QED  BY <1>10, <3>2, <4>1
    <3>. QED  BY <3>1, <3>2
  <2>2. g = [i \in 0 .. n |-> g[i]]
    BY <1>9
  <2>. HIDE DEF Value
  <2>. QED  BY <2>1, <2>2
<1>12. \A i \in 0 .. n : f[i] = Value(f, i)
  <2>1. Runs(f)
    BY <1>11 DEF f
  <2>. HIDE DEF Value
  <2>. QED  BY <2>1
<1>. DEFINE T == {i \in 0 .. n : f[i] = g[i]}
<1>13. \A i \in 0 .. n : i \in T
  <2>0. 0 \in 0 .. n
    BY <1>1
  <2>1. 0 \in T
    BY <1>9, <1>12, <2>0
  <2>2. ASSUME NEW i \in 1 .. n, i - 1 \in T  PROVE i \in T
    <3>1. i \in 0 .. n /\ i # 0 /\ i - 1 \in 0 .. n
      BY <1>1
    <3>2. f[i] = RemoveOneIfInert(f[i - 1], at(i)) /\ f[i - 1] = g[i - 1]
      BY <1>12, <2>2, <3>1
    <3>. QED  BY <1>10, <3>1, <3>2
  <2>. HIDE DEF T
  <2>. QED  BY <1>1, <2>1, <2>2, UpTo
<1>14. f[n] = g[n] /\ g[n] \in A
  BY <1>1, <1>9, <1>13
<1>15. Held(w, c, L, RemoveIfInert(c, L, p))
  BY <1>2, <1>3, <1>5, <1>14
<1>. HIDE DEF first
<1>. QED  BY <1>15 DEF Held

(* What the list of a layer tells, if it is right.                         *)
LEMMA FineCovers ==
    ASSUME NEW w, NEW c, NEW L, Fine(w, c, L), NEW p \in Paths, w[p] # c[p]
    PROVE  Covers(L, p)
<1>1. L \in Seq(Entry) /\ OldTold(w, c, L) /\ NewAreTold(w, c, L)
  BY DEF Fine, ListInv
<1>2. ASSUME NEW e \in Range(L), TellsGone(e, c, p, p)  PROVE Resyncs(e, p)
  BY <1>2 DEF TellsGone, RemovedHere, RemovedElsewhere, RenamedSince, Resyncs,
     RemoveFlags
<1>3. CASE w[p] = Absent
  <2>1. PICK e \in Range(L) : TellsNew(e, p)
    BY <1>1, <1>3 DEF NewAreTold
  <2>2. Resyncs(e, p)
    BY <2>1 DEF TellsNew, Resyncs
  <2>. QED  BY <2>2 DEF Covers, Resynced
<1>4. CASE w[p] # Absent
  <2>1. CASE \E e \in Range(L) : TellsGone(e, c, p, p)
    BY <1>2, <2>1 DEF Covers, Resynced
  <2>2. CASE ~\E e \in Range(L) : TellsGone(e, c, p, p)
    <3>1. ~(Known(L, p) \subseteq {<< >>})
      BY <1>1, <1>4, <2>2 DEF OldTold, InfosFit, Known
    <3>. QED  BY <3>1 DEF Covers, Known
  <2>. QED  BY <2>1, <2>2
<1>. QED  BY <1>3, <1>4

(* The info of a spec that was not resynced is told exactly.               *)
LEMMA FineInfos ==
    ASSUME NEW w, NEW c, NEW L, Fine(w, c, L), NEW p \in Paths, w[p] # Absent, ~Resynced(L, p)
    PROVE  LET known == {e.infoChanged : e \in {f \in Range(L) : f.path = p}}
           IN  /\ known \subseteq {<< >>, << w[p], c[p] >>}
               /\ w[p] # c[p] => ~(known \subseteq {<< >>})
<1>1. OldTold(w, c, L)
  BY DEF Fine, ListInv
<1>2. ASSUME NEW e \in Range(L), TellsGone(e, c, p, p)  PROVE FALSE
  <2>1. Resyncs(e, p)
    BY <1>2 DEF TellsGone, RemovedHere, RemovedElsewhere, RenamedSince, Resyncs,
       RemoveFlags
  <2>. QED  BY <2>1 DEF Resynced
<1>. QED  BY <1>1, <1>2 DEF OldTold, InfosFit

-----------------------------------------------------------------------------
(* The changes of the thread                                               *)

(* What a layer may hold, and what the thread knows of one it changed.     *)
Content == [Paths -> Values \cup {Absent}]
ChangeOf == [layer : Layers, list : Seq(Entry), was : Content]

(* No spec without its parent.                                             *)
LayersFit(s) == s \in [Layers -> Content] /\ \A l \in Layers : ClosedIn(s[l])

(* One list per layer, not empty, and right about how the layer came to    *)
(* what it is.                                                             *)
ChangesFit(s, ch) ==
  /\ ch \in Seq(ChangeOf)
  /\ \A i, j \in DOMAIN ch : ch[i].layer = ch[j].layer => i = j
  /\ \A i \in DOMAIN ch : ch[i].list # << >> /\ Fine(ch[i].was, s[ch[i].layer], ch[i].list)

(* What a layer was before the changes not sent.                           *)
Was(s, ch, l) == IF ListAt(ch, l) = 0 THEN s[l] ELSE ch[ListAt(ch, l)].was

(* ListAt is where the list of l is, 0 if there is none.                   *)
LEMMA ListAtMeans ==
    ASSUME NEW S, NEW ch \in Seq(S), NEW l
    PROVE  /\ ListAt(ch, l) \in 0 .. Len(ch) /\ Len(ch) \in Nat /\ DOMAIN ch = 1 .. Len(ch)
           /\ ListAt(ch, l) # 0 => ListAt(ch, l) \in DOMAIN ch /\ ch[ListAt(ch, l)].layer = l
           /\ ListAt(ch, l) = 0 => \A i \in DOMAIN ch : ch[i].layer # l
<1>. DEFINE I == {i \in 1 .. Len(ch) : ch[i].layer = l}
<1>1. Len(ch) \in Nat /\ DOMAIN ch = 1 .. Len(ch)
  OBVIOUS
<1>2. ListAt(ch, l) = IF I # {} THEN Min(I) ELSE 0
  BY DEF ListAt, SelectInSeq
<1>3. CASE I = {}
  BY <1>1, <1>2, <1>3
<1>4. CASE I # {}
  <2>1. \E m \in I : \A k \in I : m <= k
    <3>1. I \subseteq Nat
      BY <1>1
    <3>. HIDE DEF I
    <3>. QED  BY <1>4, <3>1, Least
  <2>2. Min(I) \in I
    <3>. HIDE DEF I
    <3>. QED  BY <2>1 DEF Min
  <2>3. ListAt(ch, l) \in I
    BY <1>2, <1>4, <2>2
  <2>. QED  BY <1>1, <2>3
<1>. QED  BY <1>3, <1>4

(* An empty list is right of what has not changed.                         *)
LEMMA NothingYet ==
    ASSUME NEW c \in Content, ClosedIn(c)
    PROVE  Fine(c, c, << >>)
<1>1. << >> \in Seq(Entry) /\ Range(<< >>) = {}
  BY EmptySeq DEF Range
<1>2. EarlierMarked(<< >>) /\ RenamesFit(<< >>) /\ ReplacedAreTold(c, c, << >>)
  BY <1>1 DEF EarlierMarked, RenamesFit, ReplacedAreTold
<1>3. GoneAreTold(c, c, << >>)
  BY DEF GoneAreTold, ToldGone, ClosedIn
<1>4. InfosFit(c, c, << >>)
  BY <1>1 DEF InfosFit
<1>5. NewAreTold(c, c, << >>)
  BY DEF NewAreTold
<1>. QED  BY <1>1, <1>2, <1>3, <1>4, <1>5 DEF Fine, ListInv, OldTold, Content

(* The list of every layer is right.                                       *)
LEMMA ListOfFine ==
    ASSUME NEW s, NEW ch, LayersFit(s), ChangesFit(s, ch), NEW l \in Layers
    PROVE  Fine(Was(s, ch, l), s[l], ListOf(ch, l))
<1>1. CASE ListAt(ch, l) = 0
  BY <1>1, NothingYet DEF LayersFit, Was, ListOf
<1>2. CASE ListAt(ch, l) # 0
  <2>1. ListAt(ch, l) \in DOMAIN ch /\ ch[ListAt(ch, l)].layer = l
    BY <1>2, ListAtMeans DEF ChangesFit
  <2>. QED  BY <1>2, <2>1 DEF ChangesFit, Was, ListOf
<1>. QED  BY <1>1, <1>2

(* There is only one place for the list of a layer.                        *)
LEMMA ListAtIs ==
    ASSUME NEW S, NEW ch \in Seq(S), NEW i \in DOMAIN ch,
           \A k, j \in DOMAIN ch : ch[k].layer = ch[j].layer => k = j
    PROVE  ListAt(ch, ch[i].layer) = i
  BY ListAtMeans

(* An edit of one layer: the others stay, and what they all were.          *)
LEMMA EditStep ==
    ASSUME NEW s, NEW ch, LayersFit(s), ChangesFit(s, ch), NEW l \in Layers,
           NEW c, NEW L, Fine(Was(s, ch, l), c, L),
           L = << >> => c = s[l] /\ ListOf(ch, l) = << >>
    PROVE  LET t == [s EXCEPT ![l] = c]
               dh == WithList(ch, l, L, s[l])
           IN  /\ LayersFit(t) /\ ChangesFit(t, dh)
               /\ \A k \in Layers : Was(t, dh, k) = Was(s, ch, k)
<1>. DEFINE t == [s EXCEPT ![l] = c]
            dh == WithList(ch, l, L, s[l])
            n == Len(ch)
            a == ListAt(ch, l)
            x == [layer |-> l, list |-> L, was |-> s[l]]
<1>1. /\ s \in [Layers -> Content] /\ c \in Content /\ ClosedIn(c) /\ L \in Seq(Entry)
      /\ ch \in Seq(ChangeOf) /\ n \in Nat /\ DOMAIN ch = 1 .. n
      /\ \A i \in 1 .. n : ch[i] \in ChangeOf
      /\ \A i, j \in 1 .. n : ch[i].layer = ch[j].layer => i = j
      /\ \A i \in 1 .. n : ch[i].list # << >> /\ Fine(ch[i].was, s[ch[i].layer], ch[i].list)
  BY DEF LayersFit, ChangesFit, Fine, Content
<1>2. LayersFit(t)
  BY <1>1 DEF LayersFit
<1>3. t[l] = c /\ \A k \in Layers : k # l => t[k] = s[k]
  BY <1>1
<1>. HIDE DEF t, n
<1>4. CASE L = << >>
  <2>1. t = s
    BY <1>1, <1>4 DEF t
  <2>2. dh = ch
    BY <1>4 DEF WithList
  <2>. HIDE DEF dh
  <2>. QED  BY <1>2, <2>1, <2>2 DEF t, dh
<1>5. CASE L # << >> /\ a = 0
  <2>0. x \in ChangeOf
    BY <1>1 DEF ChangeOf
  <2>1. \A i \in 1 .. n : ch[i].layer # l
    BY <1>1, <1>5, ListAtMeans
  <2>2. dh = Append(ch, x)
    BY <1>5 DEF WithList
  <2>3. /\ dh \in Seq(ChangeOf) /\ Len(dh) = n + 1 /\ DOMAIN dh = 1 .. n + 1
        /\ dh[n + 1] = x /\ \A i \in 1 .. n : dh[i] = ch[i]
    <3>. HIDE DEF dh, x
    <3>. QED  BY <1>1, <2>0, <2>2, AppendProperties DEF n
  <2>4. x.layer = l /\ x.list = L /\ x.was = s[l]
    OBVIOUS
  <2>. HIDE DEF dh, x, a
  <2>5. Was(s, ch, l) = s[l]
    BY <1>5 DEF Was, a
  <2>6. \A i \in 1 .. n + 1 : i \in 1 .. n \/ i = n + 1
    BY <1>1
  <2>7. \A i, j \in DOMAIN dh : dh[i].layer = dh[j].layer => i = j
    BY <1>1, <2>1, <2>3, <2>4, <2>6
  <2>8. \A i \in 1 .. n : ch[i].layer \in Layers /\ ch[i].layer # l
    BY <1>1, <2>1 DEF ChangeOf
  <2>9. \A i \in DOMAIN dh : dh[i].list # << >> /\ Fine(dh[i].was, t[dh[i].layer], dh[i].list)
    <3>1. ASSUME NEW i \in 1 .. n
          PROVE  dh[i].list # << >> /\ Fine(dh[i].was, t[dh[i].layer], dh[i].list)
      BY <1>1, <1>3, <2>3, <2>8
    <3>2. Fine(x.was, t[x.layer], x.list)
      BY <1>3, <2>4, <2>5
    <3>. QED  BY <1>5, <2>3, <2>4, <2>6, <3>1, <3>2
  <2>10. ChangesFit(t, dh)
    BY <2>3, <2>7, <2>9 DEF ChangesFit
  <2>11. ASSUME NEW k \in Layers  PROVE Was(t, dh, k) = Was(s, ch, k)
    <3>1. CASE k = l
      <4>1. n + 1 \in DOMAIN dh /\ n + 1 # 0
        BY <1>1, <2>3
      <4>2. ListAt(dh, l) = n + 1
        BY <2>3, <2>4, <2>7, <4>1, ListAtIs
      <4>. QED  BY <2>3, <2>4, <2>5, <3>1, <4>1, <4>2 DEF Was
    <3>2. CASE k # l /\ ListAt(ch, k) # 0
      <4>1. ListAt(ch, k) \in 1 .. n /\ ch[ListAt(ch, k)].layer = k
        BY <1>1, <3>2, ListAtMeans
      <4>2. ListAt(ch, k) \in DOMAIN dh
        BY <1>1, <2>3, <4>1
      <4>3. ListAt(dh, k) = ListAt(ch, k)
        BY <2>3, <2>7, <4>1, <4>2, ListAtIs
      <4>. QED  BY <2>3, <3>2, <4>1, <4>3 DEF Was
    <3>3. CASE k # l /\ ListAt(ch, k) = 0
      <4>1. \A i \in 1 .. n : ch[i].layer # k
        BY <1>1, <3>3, ListAtMeans
      <4>2. \A i \in DOMAIN dh : dh[i].layer # k
        BY <2>3, <2>4, <2>6, <3>3, <4>1
      <4>3. ListAt(dh, k) = 0
        BY <2>3, <4>2, ListAtMeans
      <4>. QED  BY <1>3, <3>3, <4>3 DEF Was
    <3>. QED  BY <3>1, <3>2, <3>3
  <2>. QED  BY <1>2, <2>10, <2>11 DEF t, dh
<1>6. CASE L # << >> /\ a # 0
  <2>1. a \in 1 .. n /\ ch[a].layer = l
    BY <1>1, <1>6, ListAtMeans
  <2>2. dh = [ch EXCEPT ![a].list = L]
    BY <1>6 DEF WithList
  <2>. HIDE DEF dh
  <2>. DEFINE y == [ch[a] EXCEPT !.list = L]
  <2>3. /\ y \in ChangeOf /\ y.layer = l /\ y.list = L /\ y.was = ch[a].was
    BY <1>1, <2>1 DEF ChangeOf
  <2>4. dh = [ch EXCEPT ![a] = y]
    BY <2>2
  <2>5. /\ dh \in Seq(ChangeOf) /\ Len(dh) = n /\ DOMAIN dh = 1 .. n
        /\ dh[a] = y /\ \A i \in 1 .. n : i # a => dh[i] = ch[i]
    <3>. HIDE DEF y, a
    <3>1. dh = [i \in 1 .. n |-> IF i = a THEN y ELSE ch[i]]
      BY <1>1, <2>1, <2>4
    <3>2. \A i \in 1 .. n : (IF i = a THEN y ELSE ch[i]) \in ChangeOf
      BY <1>1, <2>3
    <3>3. dh \in Seq(ChangeOf)
      BY <1>1, <3>1, <3>2, IsASeq
    <3>4. Len(dh) = n
      BY <1>1, <3>1, <3>3
    <3>. QED  BY <2>1, <3>1, <3>3, <3>4
  <2>. HIDE DEF y
  <2>6. Was(s, ch, l) = ch[a].was
    BY <1>6 DEF Was
  <2>. HIDE DEF a
  <2>7. \A i \in 1 .. n : dh[i].layer = ch[i].layer /\ dh[i].was = ch[i].was
    BY <2>1, <2>3, <2>5
  <2>8. \A i \in 1 .. n : i # a => ch[i].layer \in Layers /\ ch[i].layer # l
    BY <1>1, <2>1 DEF ChangeOf
  <2>9. \A i \in DOMAIN dh : dh[i].list # << >> /\ Fine(dh[i].was, t[dh[i].layer], dh[i].list)
    <3>1. ASSUME NEW i \in 1 .. n, i # a
          PROVE  dh[i].list # << >> /\ Fine(dh[i].was, t[dh[i].layer], dh[i].list)
      BY <1>1, <1>3, <2>5, <2>8, <3>1
    <3>2. Fine(y.was, t[y.layer], y.list)
      BY <1>3, <2>3, <2>6
    <3>. QED  BY <1>6, <2>3, <2>5, <3>1, <3>2
  <2>10. \A i, j \in DOMAIN dh : dh[i].layer = dh[j].layer => i = j
    BY <1>1, <2>5, <2>7
  <2>11. ChangesFit(t, dh)
    BY <2>5, <2>9, <2>10 DEF ChangesFit
  <2>12. ASSUME NEW k \in Layers  PROVE Was(t, dh, k) = Was(s, ch, k)
    <3>2. CASE ListAt(ch, k) # 0
      <4>1. ListAt(ch, k) \in 1 .. n /\ ch[ListAt(ch, k)].layer = k
        BY <1>1, <3>2, ListAtMeans
      <4>2. ListAt(ch, k) \in DOMAIN dh /\ dh[ListAt(ch, k)].layer = k
        BY <2>5, <2>7, <4>1
      <4>3. ListAt(dh, k) = ListAt(ch, k)
        BY <2>5, <2>10, <4>2, ListAtIs
      <4>. QED  BY <2>7, <3>2, <4>1, <4>3 DEF Was
    <3>3. CASE ListAt(ch, k) = 0
      <4>1. \A i \in 1 .. n : ch[i].layer # k
        BY <1>1, <3>3, ListAtMeans
      <4>2. \A i \in DOMAIN dh : dh[i].layer # k
        BY <2>5, <2>7, <4>1
      <4>3. ListAt(dh, k) = 0
        BY <2>5, <4>2, ListAtMeans
      <4>4. k # l
        BY <2>1, <4>1
      <4>. QED  BY <1>3, <3>3, <4>3, <4>4 DEF Was
    <3>. QED  BY <3>2, <3>3
  <2>. QED  BY <1>2, <2>11, <2>12 DEF t, dh
<1>. QED  BY <1>4, <1>5, <1>6

(* What the removals that wait have made of the layers.                    *)
OnlyInertGo(s, t) == \A k \in Layers, q \in Paths :
  t[k][q] = s[k][q] \/ (s[k][q] = Bare /\ t[k][q] = Absent)

Cleaned(s, ch, x) ==
  /\ x \in [s : [Layers -> Content], ch : Seq(ChangeOf)]
  /\ LayersFit(x.s) /\ ChangesFit(x.s, x.ch)
  /\ \A k \in Layers : Was(x.s, x.ch, k) = Was(s, ch, k)
  /\ OnlyInertGo(s, x.s)

(* One removal that waited takes inert specs only, and they are told.      *)
LEMMA ProcessOneCleans ==
    ASSUME NEW s, NEW ch, NEW x, Cleaned(s, ch, x), NEW r \in [layer : Layers, path : Paths]
    PROVE  Cleaned(s, ch, ProcessOne(x, r))
<1>. DEFINE l == r.layer  p == r.path
            e == RemoveIfInert(x.s[l], ListOf(x.ch, l), p)
            t == [x.s EXCEPT ![l] = e.c]
            dh == WithList(x.ch, l, e.list, x.s[l])
<1>1. l \in Layers /\ p \in Paths
  OBVIOUS
<1>2. /\ x.s \in [Layers -> Content] /\ LayersFit(x.s) /\ ChangesFit(x.s, x.ch)
      /\ \A k \in Layers : Was(x.s, x.ch, k) = Was(s, ch, k)
      /\ OnlyInertGo(s, x.s)
  BY DEF Cleaned
<1>3. ProcessOne(x, r) = [s |-> t, ch |-> dh]
  BY DEF ProcessOne
<1>. HIDE DEF l, p
<1>4. Fine(Was(x.s, x.ch, l), x.s[l], ListOf(x.ch, l))
  BY <1>1, <1>2, ListOfFine
<1>5. /\ Fine(Was(x.s, x.ch, l), e.c, e.list)
      /\ e.list = << >> => e.c = x.s[l] /\ ListOf(x.ch, l) = << >>
      /\ \A q \in Paths : e.c[q] = x.s[l][q] \/ (x.s[l][q] = Bare /\ e.c[q] = Absent)
  BY <1>1, <1>4, RemoveIfInertFine
<1>. HIDE DEF e
<1>6. /\ LayersFit(t) /\ ChangesFit(t, dh)
      /\ \A k \in Layers : Was(t, dh, k) = Was(x.s, x.ch, k)
  BY <1>1, <1>2, <1>5, EditStep
<1>7. t[l] = e.c /\ \A k \in Layers : k # l => t[k] = x.s[k]
  BY <1>1, <1>2
<1>. HIDE DEF t, dh
<1>8. OnlyInertGo(s, t)
  <2>1. ASSUME NEW k \in Layers, NEW q \in Paths
        PROVE  t[k][q] = s[k][q] \/ (s[k][q] = Bare /\ t[k][q] = Absent)
    <3>1. Bare # Absent
      BY PrimPathsAssumption, ManagerAssumption
    <3>2. x.s[k][q] = s[k][q] \/ (s[k][q] = Bare /\ x.s[k][q] = Absent)
      BY <1>2 DEF OnlyInertGo
    <3>3. t[k][q] = x.s[k][q] \/ (x.s[k][q] = Bare /\ t[k][q] = Absent)
      BY <1>5, <1>7
    <3>. QED  BY <3>1, <3>2, <3>3
  <2>. QED  BY <2>1 DEF OnlyInertGo
<1>9. t \in [Layers -> Content] /\ dh \in Seq(ChangeOf)
  BY <1>6 DEF LayersFit, ChangesFit
<1>. QED  BY <1>2, <1>3, <1>6, <1>8, <1>9 DEF Cleaned

(* So do all of them.                                                      *)
LEMMA ProcessCleans ==
    ASSUME NEW s, NEW ch, LayersFit(s), ChangesFit(s, ch),
           NEW rs \in Seq([layer : Layers, path : Paths])
    PROVE  Cleaned(s, ch, Process(rs, s, ch))
<1>. DEFINE n == Len(rs)
            first == [s |-> s, ch |-> ch]
            Value(g, i) == IF i = 0 THEN [s |-> s, ch |-> ch] ELSE ProcessOne(g[i - 1], rs[i])
            Runs(g) == g = [i \in 0 .. n |-> Value(g, i)]
            f == CHOOSE g : Runs(g)
            A == {x \in [s : [Layers -> Content], ch : Seq(ChangeOf)] : Cleaned(s, ch, x)}
            F == [ix \in (1 .. n) \X A |-> ProcessOne(ix[2], rs[ix[1]])]
<1>1. n \in Nat /\ \A i \in 1 .. n : rs[i] \in [layer : Layers, path : Paths]
  BY ElementOfSeq, LenProperties
<1>2. Process(rs, s, ch) = f[n]
  BY DEF Process
<1>. HIDE DEF n, f
<1>3. \A x \in A : Cleaned(s, ch, x)
  OBVIOUS
<1>4. \A x : Cleaned(s, ch, x) => x \in A
  BY DEF Cleaned
<1>5. first \in A
  <2>1. OnlyInertGo(s, s)
    BY DEF OnlyInertGo
  <2>2. Cleaned(s, ch, first)
    BY <2>1 DEF Cleaned, LayersFit, ChangesFit
  <2>. HIDE DEF first, A
  <2>. QED  BY <1>4, <2>2
<1>. HIDE DEF A
<1>6. \A i \in 1 .. n, x \in A : ProcessOne(x, rs[i]) \in A
  BY <1>1, <1>3, <1>4, ProcessOneCleans
<1>7. \A i \in 1 .. n, x \in A : F[<<i, x>>] = ProcessOne(x, rs[i])
  OBVIOUS
<1>8. PICK g : Iterates(g, n, A, first, F)
  <2>1. \A i \in 1 .. n, x \in A : F[<<i, x>>] \in A
    BY <1>6, <1>7
  <2>. HIDE DEF F, first
  <2>. QED  BY <1>1, <1>5, <2>1, Iteration
<1>. HIDE DEF F
<1>9. g \in [0 .. n -> A] /\ g[0] = first
  BY <1>8 DEF Iterates
<1>10. ASSUME NEW i \in 1 .. n  PROVE g[i] = ProcessOne(g[i - 1], rs[i])
  <2>1. i - 1 \in 0 .. n
    BY <1>1
  <2>2. g[i - 1] \in A
    BY <1>9, <2>1
  <2>3. g[i] = F[<<i, g[i - 1]>>]
    BY <1>8 DEF Iterates
  <2>. QED  BY <1>7, <2>2, <2>3
<1>11. Runs(g)
  <2>1. ASSUME NEW i \in 0 .. n  PROVE g[i] = Value(g, i)
    <3>1. CASE i = 0
      BY <1>9, <3>1
    <3>2. CASE i # 0
      <4>1. i \in 1 .. n
        BY <1>1, <3>2
      <4>. QED  BY <1>10, <3>2, <4>1
    <3>. QED  BY <3>1, <3>2
  <2>2. g = [i \in 0 .. n |-> g[i]]
    BY <1>9
  <2>. HIDE DEF Value
  <2>. QED  BY <2>1, <2>2
<1>12. \A i \in 0 .. n : f[i] = Value(f, i)
  <2>1. Runs(f)
    BY <1>11 DEF f
  <2>. HIDE DEF Value
  <2>. QED  BY <2>1
<1>. DEFINE T == {i \in 0 .. n : f[i] = g[i]}
<1>13. \A i \in 0 .. n : i \in T
  <2>0. 0 \in 0 .. n
    BY <1>1
  <2>1. 0 \in T
    BY <1>9, <1>12, <2>0
  <2>2. ASSUME NEW i \in 1 .. n, i - 1 \in T  PROVE i \in T
    <3>1. i \in 0 .. n /\ i # 0 /\ i - 1 \in 0 .. n
      BY <1>1
    <3>2. f[i] = ProcessOne(f[i - 1], rs[i]) /\ f[i - 1] = g[i - 1]
      BY <1>12, <2>2, <3>1
    <3>. QED  BY <1>10, <3>1, <3>2
  <2>. HIDE DEF T
  <2>. QED  BY <1>1, <2>1, <2>2, UpTo
<1>14. f[n] = g[n] /\ g[n] \in A
  BY <1>1, <1>9, <1>13
<1>. QED  BY <1>2, <1>3, <1>14

(* What is left of the changes when a round begins.                        *)
KeptFrom(ch, i, k) ==
  /\ k \in Seq(ChangeOf)
  /\ Range(k) = {ch[j] : j \in {m \in 1 .. i : ch[m].layer \in live}}

(* OfLiveLayers keeps the changes of the live layers.                      *)
LEMMA KeptMeans ==
    ASSUME NEW ch \in Seq(ChangeOf)
    PROVE  KeptFrom(ch, Len(ch), OfLiveLayers(ch))
<1>. DEFINE n == Len(ch)
            Value(g, i) == IF i = 0 THEN << >>
                           ELSE IF ch[i].layer \in live THEN Append(g[i - 1], ch[i])
                           ELSE g[i - 1]
            Runs(g) == g = [i \in 0 .. n |-> Value(g, i)]
            f == CHOOSE g : Runs(g)
            A == Seq(ChangeOf)
            F == [ix \in (1 .. n) \X A |-> IF ch[ix[1]].layer \in live
                                           THEN Append(ix[2], ch[ix[1]]) ELSE ix[2]]
<1>1. n \in Nat /\ \A i \in 1 .. n : ch[i] \in ChangeOf
  BY ElementOfSeq, LenProperties
<1>2. OfLiveLayers(ch) = f[n]
  BY DEF OfLiveLayers
<1>. HIDE DEF n, f
<1>5. << >> \in A /\ Range(<< >>) = {}
  BY EmptySeq DEF Range
<1>6. \A i \in 1 .. n, x \in A : Append(x, ch[i]) \in A /\ Range(Append(x, ch[i])) = Range(x) \cup {ch[i]}
  <2>. SUFFICES ASSUME NEW i \in 1 .. n, NEW x \in A
                PROVE  Append(x, ch[i]) \in A /\ Range(Append(x, ch[i])) = Range(x) \cup {ch[i]}
    OBVIOUS
  <2>. DEFINE y == ch[i]
  <2>1. y \in ChangeOf /\ x \in Seq(ChangeOf)
    BY <1>1
  <2>. HIDE DEF y
  <2>. QED  BY <2>1, AppendProperties DEF Range, y
<1>. HIDE DEF A
<1>7. \A i \in 1 .. n, x \in A : F[<<i, x>>] = IF ch[i].layer \in live THEN Append(x, ch[i]) ELSE x
  OBVIOUS
<1>8. PICK g : Iterates(g, n, A, << >>, F)
  <2>1. \A i \in 1 .. n, x \in A : F[<<i, x>>] \in A
    BY <1>6, <1>7
  <2>. HIDE DEF F
  <2>. QED  BY <1>1, <1>5, <2>1, Iteration
<1>. HIDE DEF F
<1>9. g \in [0 .. n -> A] /\ g[0] = << >>
  BY <1>8 DEF Iterates
<1>10. ASSUME NEW i \in 1 .. n
       PROVE  g[i] = IF ch[i].layer \in live THEN Append(g[i - 1], ch[i]) ELSE g[i - 1]
  <2>1. i - 1 \in 0 .. n
    BY <1>1
  <2>2. g[i - 1] \in A
    BY <1>9, <2>1
  <2>3. g[i] = F[<<i, g[i - 1]>>]
    BY <1>8 DEF Iterates
  <2>. QED  BY <1>7, <2>2, <2>3
<1>11. Runs(g)
  <2>1. ASSUME NEW i \in 0 .. n  PROVE g[i] = Value(g, i)
    <3>1. CASE i = 0
      BY <1>9, <3>1
    <3>2. CASE i # 0
      <4>1. i \in 1 .. n
        BY <1>1, <3>2
      <4>. QED  BY <1>10, <3>2, <4>1
    <3>. QED  BY <3>1, <3>2
  <2>2. g = [i \in 0 .. n |-> g[i]]
    BY <1>9
  <2>. HIDE DEF Value
  <2>. QED  BY <2>1, <2>2
<1>12. \A i \in 0 .. n : f[i] = Value(f, i)
  <2>1. Runs(f)
    BY <1>11 DEF f
  <2>. HIDE DEF Value
  <2>. QED  BY <2>1
<1>. DEFINE K(i) == {ch[j] : j \in {m \in 1 .. i : ch[m].layer \in live}}
            T == {i \in 0 .. n : f[i] \in A /\ Range(f[i]) = K(i)}
<1>13. \A i \in 0 .. n : i \in T
  <2>0. 0 \in 0 .. n
    BY <1>1
  <2>1. 0 \in T
    BY <1>5, <1>12, <2>0
  <2>2. ASSUME NEW i \in 1 .. n, i - 1 \in T  PROVE i \in T
    <3>1. i \in 0 .. n /\ i # 0 /\ i - 1 \in 0 .. n
      BY <1>1
    <3>2. f[i] = IF ch[i].layer \in live THEN Append(f[i - 1], ch[i]) ELSE f[i - 1]
      BY <1>12, <3>1
    <3>3. f[i - 1] \in A /\ Range(f[i - 1]) = K(i - 1)
      BY <2>2
    <3>4. \A m : m \in 1 .. i <=> m \in 1 .. i - 1 \/ m = i
      BY <1>1
    <3>5. K(i) = K(i - 1) \cup IF ch[i].layer \in live THEN {ch[i]} ELSE {}
      BY <3>4
    <3>. HIDE DEF K
    <3>. QED  BY <1>6, <3>1, <3>2, <3>3, <3>5
  <2>. HIDE DEF T
  <2>. QED  BY <1>1, <2>1, <2>2, UpTo
<1>14. f[n] \in A /\ Range(f[n]) = K(n)
  <2>1. n \in T
    <3>. HIDE DEF T
    <3>. QED  BY <1>1, <1>13
  <2>. QED  BY <2>1
<1>. QED  BY <1>2, <1>14 DEF KeptFrom, A, n

(* The list of a layer that lives is told as it is.                        *)
LEMMA ToldMeans ==
    ASSUME NEW s, NEW ch, ChangesFit(s, ch)
    PROVE  LET told == Told(OfLiveLayers(ch))
           IN  /\ told \in Seq([layer : Layers, list : Seq(Entry)])
               /\ \A i \in DOMAIN told : told[i].layer \in live
               /\ \A l \in live : ListAt(ch, l) # 0 =>
                    told # << >> /\ ListOf(told, l) = ListOf(ch, l)
<1>. DEFINE k == OfLiveLayers(ch)  told == Told(k)  TS == [layer : Layers, list : Seq(Entry)]
<1>1. /\ ch \in Seq(ChangeOf)
      /\ \A i, j \in DOMAIN ch : ch[i].layer = ch[j].layer => i = j
  BY DEF ChangesFit
<1>2. k \in Seq(ChangeOf) /\ Range(k) = {ch[j] : j \in {m \in 1 .. Len(ch) : ch[m].layer \in live}}
  BY <1>1, KeptMeans DEF KeptFrom
<1>. HIDE DEF k
<1>3. Len(k) \in Nat /\ DOMAIN k = 1 .. Len(k) /\ \A i \in 1 .. Len(k) : k[i] \in ChangeOf
  BY <1>2, ElementOfSeq, LenProperties
<1>4. /\ told \in Seq(TS) /\ DOMAIN told = 1 .. Len(k) /\ Len(told) = Len(k)
      /\ \A i \in 1 .. Len(k) : told[i].layer = k[i].layer /\ told[i].list = k[i].list
  <2>1. told = [i \in 1 .. Len(k) |-> [layer |-> k[i].layer, list |-> k[i].list]]
    BY <1>3 DEF Told
  <2>2. \A i \in 1 .. Len(k) : [layer |-> k[i].layer, list |-> k[i].list] \in TS
    BY <1>3 DEF ChangeOf
  <2>. HIDE DEF told
  <2>3. told \in Seq(TS)
    <3>. HIDE DEF TS
    <3>. QED  BY <1>3, <2>1, <2>2, IsASeq
  <2>. QED  BY <1>3, <2>1, <2>3
<1>. HIDE DEF told
<1>5. \A i \in 1 .. Len(k) : k[i] \in Range(k)
  BY <1>3 DEF Range
<1>6. \A i \in DOMAIN told : told[i].layer \in live
  BY <1>2, <1>4, <1>5
<1>7. ASSUME NEW l \in live, ListAt(ch, l) # 0
      PROVE  told # << >> /\ ListOf(told, l) = ListOf(ch, l)
  <2>. DEFINE a == ListAt(ch, l)
  <2>1. a \in 1 .. Len(ch) /\ DOMAIN ch = 1 .. Len(ch) /\ ch[a].layer = l
    BY <1>1, <1>7, ListAtMeans
  <2>2. ListOf(ch, l) = ch[a].list
    BY <1>7 DEF ListOf
  <2>. HIDE DEF a
  <2>3. ch[a] \in Range(k)
    BY <1>2, <2>1
  <2>4. PICK i \in 1 .. Len(k) : k[i] = ch[a]
    BY <1>3, <2>3 DEF Range
  <2>. DEFINE b == ListAt(told, l)
  <2>5. b \in DOMAIN told /\ told[b].layer = l /\ b # 0
    <3>1. told[i].layer = l /\ i \in DOMAIN told
      BY <1>4, <2>1, <2>4
    <3>2. b # 0
      BY <1>4, <3>1, ListAtMeans
    <3>. QED  BY <1>4, <3>2, ListAtMeans
  <2>6. ListOf(told, l) = told[b].list
    BY <2>5 DEF ListOf
  <2>. HIDE DEF b
  <2>7. k[b] \in Range(k) /\ k[b].layer = l
    BY <1>4, <1>5, <2>5
  <2>8. PICK j \in 1 .. Len(ch) : k[b] = ch[j]
    BY <1>2, <2>7
  <2>9. j = a
    BY <1>1, <2>1, <2>7, <2>8
  <2>10. told # << >>
    BY <1>4, <2>5
  <2>. QED  BY <1>4, <2>2, <2>5, <2>6, <2>8, <2>9, <2>10
<1>. QED  BY <1>4, <1>6, <1>7 DEF told, k

(* What is in the last of the sequences is in the flattened one.           *)
LEMMA FlattenMeans ==
    ASSUME NEW S, NEW ss \in Seq(Seq(S)), ss # << >>
    PROVE  FlattenSeq(ss) \in Seq(S) /\ Range(ss[Len(ss)]) \subseteq Range(FlattenSeq(ss))
<1>. DEFINE n == Len(ss)
            Value(g, i) == IF i = 1 THEN ss[i] ELSE g[i - 1] \o ss[i]
            Runs(g) == g = [i \in 1 .. n |-> Value(g, i)]
            f == CHOOSE g : Runs(g)
            A == Seq(S)
            F == [ix \in (1 .. n) \X A |-> IF ix[1] = 1 THEN ss[ix[1]] ELSE ix[2] \o ss[ix[1]]]
<1>1. n \in Nat /\ n # 0 /\ \A i \in 1 .. n : ss[i] \in A
  BY ElementOfSeq, LenProperties, EmptySeq
<1>2. FlattenSeq(ss) = f[n]
  BY <1>1 DEF FlattenSeq
<1>. HIDE DEF n, f
<1>5. << >> \in A
  BY EmptySeq
<1>6. \A x, y \in A : x \o y \in A /\ Range(y) \subseteq Range(x \o y)
  <2>. SUFFICES ASSUME NEW x \in Seq(S), NEW y \in Seq(S)
                PROVE  x \o y \in Seq(S) /\ Range(y) \subseteq Range(x \o y)
    OBVIOUS
  <2>1. /\ x \o y \in Seq(S) /\ Len(x \o y) = Len(x) + Len(y)
        /\ \A j \in 1 .. Len(x) + Len(y) :
             (x \o y)[j] = IF j <= Len(x) THEN x[j] ELSE y[j - Len(x)]
    BY ConcatProperties
  <2>2. Len(x) \in Nat /\ Len(y) \in Nat /\ DOMAIN y = 1 .. Len(y)
    OBVIOUS
  <2>3. DOMAIN (x \o y) = 1 .. Len(x) + Len(y)
    BY <2>1, LenProperties
  <2>4. ASSUME NEW j \in DOMAIN y  PROVE y[j] \in Range(x \o y)
    <3>1. Len(x) + j \in DOMAIN (x \o y)
      BY <2>2, <2>3
    <3>2. (x \o y)[Len(x) + j] = y[j]
      BY <2>1, <2>2, <2>3, <3>1
    <3>. QED  BY <3>1, <3>2 DEF Range
  <2>. QED  BY <2>1, <2>4 DEF Range
<1>. HIDE DEF A
<1>7. \A i \in 1 .. n, x \in A : F[<<i, x>>] = IF i = 1 THEN ss[i] ELSE x \o ss[i]
  OBVIOUS
<1>8. PICK g : Iterates(g, n, A, << >>, F)
  <2>1. \A i \in 1 .. n, x \in A : F[<<i, x>>] \in A
    BY <1>1, <1>6, <1>7
  <2>. HIDE DEF F
  <2>. QED  BY <1>1, <1>5, <2>1, Iteration
<1>. HIDE DEF F
<1>9. g \in [0 .. n -> A]
  BY <1>8 DEF Iterates
<1>. DEFINE h == [i \in 1 .. n |-> g[i]]
<1>10. ASSUME NEW i \in 1 .. n
       PROVE  h[i] = Value(h, i)
  <2>1. i - 1 \in 0 .. n
    BY <1>1
  <2>2. g[i - 1] \in A
    BY <1>9, <2>1
  <2>3. g[i] = F[<<i, g[i - 1]>>]
    BY <1>8 DEF Iterates
  <2>4. h[i] = IF i = 1 THEN ss[i] ELSE g[i - 1] \o ss[i]
    BY <1>7, <2>2, <2>3
  <2>5. i # 1 => i - 1 \in 1 .. n
    BY <1>1
  <2>6. i # 1 => h[i - 1] = g[i - 1]
    BY <2>5
  <2>. HIDE DEF h
  <2>. QED  BY <2>4, <2>6
<1>11. Runs(h)
  <2>. HIDE DEF Value
  <2>2. h = [i \in 1 .. n |-> h[i]]
    OBVIOUS
  <2>. HIDE DEF h
  <2>. QED  BY <1>10, <2>2
<1>12. \A i \in 1 .. n : f[i] = Value(f, i)
  <2>1. Runs(f)
    <3>. HIDE DEF Runs, h
    <3>. QED  BY <1>11 DEF f
  <2>. HIDE DEF Value
  <2>. QED  BY <2>1
<1>. DEFINE T == {i \in 0 .. n : i # 0 => f[i] \in A /\ Range(ss[i]) \subseteq Range(f[i])}
<1>13. \A i \in 0 .. n : i \in T
  <2>1. 0 \in T
    BY <1>1
  <2>2. ASSUME NEW i \in 1 .. n, i - 1 \in T  PROVE i \in T
    <3>1. i \in 0 .. n /\ i # 0
      BY <1>1
    <3>2. ss[i] \in A /\ f[i] = IF i = 1 THEN ss[i] ELSE f[i - 1] \o ss[i]
      BY <1>1, <1>12
    <3>3. CASE i = 1
      BY <3>1, <3>2, <3>3
    <3>4. CASE i # 1
      <4>1. f[i - 1] \in A
        <5>1. i - 1 # 0
          BY <1>1, <3>4
        <5>. QED  BY <2>2, <5>1
      <4>2. f[i] \in A /\ Range(ss[i]) \subseteq Range(f[i])
        <5>1. f[i] = f[i - 1] \o ss[i]
          BY <3>2, <3>4
        <5>. QED  BY <1>6, <3>2, <4>1, <5>1
      <4>. QED  BY <3>1, <4>2
    <3>. QED  BY <3>3, <3>4
  <2>. HIDE DEF T
  <2>. QED  BY <1>1, <2>1, <2>2, UpTo
<1>14. n \in T
  <2>. HIDE DEF T
  <2>1. n \in 0 .. n
    BY <1>1
  <2>. QED  BY <1>13, <2>1
<1>15. f[n] \in A /\ Range(ss[n]) \subseteq Range(f[n])
  BY <1>1, <1>14
<1>. QED  BY <1>2, <1>15 DEF A, n

(* The notices of a round.                                                 *)
LayerNotices == [kind : {"layer"}, to : {Absent}, layer : Layers]
ListenerNotices == [kind : {"all"}, to : Listeners, layer : {Absent}]
StageNotices == [kind : {"stage"}, to : stages, layer : Layers]
FitNotices == LayerNotices \cup ListenerNotices \cup StageNotices

(* The notices of a round reach every listener and stage.                  *)
LEMMA NoticesMean ==
    ASSUME NEW told \in Seq([layer : Layers, list : Seq(Entry)]), told # << >>,
           stages \subseteq Stages
    PROVE  /\ Notices(told) \in Seq(FitNotices)
           /\ \A f \in Followers : \E j \in DOMAIN Notices(told) : Notices(told)[j].to = f
<1>. DEFINE n == Len(told)
            listener == SetToSeq(Listeners)
            stage == SetToSeq(stages)
            a == [i \in DOMAIN told |-> Notice("layer", Absent, told[i].layer)]
            b == [i \in DOMAIN listener |-> Notice("all", listener[i], Absent)]
            Ofs(l) == [j \in DOMAIN stage |-> Notice("stage", stage[j], l)]
            ss == [i \in DOMAIN told |-> Ofs(told[i].layer)]
            c == FlattenSeq(ss)
            N == FitNotices
<1>1. Notices(told) = a \o b \o c
  BY DEF Notices
<1>2. /\ n \in Nat /\ n # 0 /\ DOMAIN told = 1 .. n
      /\ \A i \in 1 .. n : told[i].layer \in Layers
  <2>1. \A i \in 1 .. n : told[i] \in [layer : Layers, list : Seq(Entry)]
    BY ElementOfSeq
  <2>2. n \in Nat /\ DOMAIN told = 1 .. n /\ n # 0
    BY EmptySeq, LenProperties
  <2>. QED  BY <2>1, <2>2
<1>3. IsFiniteSet(Listeners) /\ IsFiniteSet(stages)
  BY ManagerAssumption, FS_Subset
<1>4. listener \in Seq(Listeners) /\ Range(listener) = Listeners
  BY <1>3, SetToSeqMeans
<1>5. stage \in Seq(stages) /\ Range(stage) = stages
  BY <1>3, SetToSeqMeans
<1>. HIDE DEF n, listener, stage
<1>6. a \in Seq(N)
  <2>1. \A i \in 1 .. n : Notice("layer", Absent, told[i].layer) \in N
    BY <1>2 DEF Notice, FitNotices, LayerNotices
  <2>2. a = [i \in 1 .. n |-> Notice("layer", Absent, told[i].layer)]
    BY <1>2
  <2>. HIDE DEF a, N
  <2>. QED  BY <1>2, <2>1, <2>2, IsASeq
<1>7. b \in Seq(N) /\ \A f \in Listeners : \E j \in DOMAIN b : b[j].to = f
  <2>1. Len(listener) \in Nat /\ DOMAIN listener = 1 .. Len(listener)
    BY <1>4, LenProperties
  <2>2. \A i \in 1 .. Len(listener) : listener[i] \in Listeners
    BY <1>4, ElementOfSeq
  <2>3. \A i \in 1 .. Len(listener) : Notice("all", listener[i], Absent) \in N
    BY <2>2 DEF Notice, FitNotices, ListenerNotices
  <2>4. b = [i \in 1 .. Len(listener) |-> Notice("all", listener[i], Absent)]
    BY <2>1
  <2>5. b \in Seq(N)
    <3>. HIDE DEF b, N
    <3>. QED  BY <2>1, <2>3, <2>4, IsASeq
  <2>6. ASSUME NEW f \in Listeners  PROVE \E j \in DOMAIN b : b[j].to = f
    <3>1. PICK j \in DOMAIN listener : listener[j] = f
      BY <1>4 DEF Range
    <3>2. j \in DOMAIN b /\ b[j].to = f
      BY <3>1 DEF Notice
    <3>. HIDE DEF b
    <3>. QED  BY <3>2
  <2>. QED  BY <2>5, <2>6
<1>8. \A l \in Layers : Ofs(l) \in Seq(N) /\ \A f \in stages : \E m \in Range(Ofs(l)) : m.to = f
  <2>. SUFFICES ASSUME NEW l \in Layers
                PROVE  Ofs(l) \in Seq(N) /\ \A f \in stages : \E m \in Range(Ofs(l)) : m.to = f
    OBVIOUS
  <2>. DEFINE o == Ofs(l)
  <2>1. Len(stage) \in Nat /\ DOMAIN stage = 1 .. Len(stage)
    BY <1>5, LenProperties
  <2>2. \A i \in 1 .. Len(stage) : stage[i] \in stages
    BY <1>5, ElementOfSeq
  <2>3. \A i \in 1 .. Len(stage) : Notice("stage", stage[i], l) \in N
    BY <2>2 DEF Notice, FitNotices, StageNotices
  <2>4. o = [i \in 1 .. Len(stage) |-> Notice("stage", stage[i], l)]
    BY <2>1
  <2>5. o \in Seq(N)
    <3>. HIDE DEF o, N
    <3>. QED  BY <2>1, <2>3, <2>4, IsASeq
  <2>6. ASSUME NEW f \in stages  PROVE \E m \in Range(o) : m.to = f
    <3>1. PICK j \in DOMAIN stage : stage[j] = f
      BY <1>5 DEF Range
    <3>2. j \in DOMAIN o /\ o[j].to = f
      BY <3>1 DEF Notice
    <3>. HIDE DEF o
    <3>. QED  BY <3>2 DEF Range
  <2>. QED  BY <2>5, <2>6
<1>. HIDE DEF Ofs
<1>9. ss \in Seq(Seq(N)) /\ ss # << >> /\ Len(ss) = n /\ ss[n] = Ofs(told[n].layer)
  <2>1. ss = [i \in 1 .. n |-> Ofs(told[i].layer)]
    BY <1>2
  <2>2. \A i \in 1 .. n : Ofs(told[i].layer) \in Seq(N)
    BY <1>2, <1>8
  <2>3. n \in 1 .. n
    BY <1>2
  <2>4. ss[n] = Ofs(told[n].layer) /\ DOMAIN ss = 1 .. n
    BY <2>1, <2>3
  <2>. HIDE DEF ss, N
  <2>5. ss \in Seq(Seq(N))
    BY <1>2, <2>1, <2>2, IsASeq
  <2>6. Len(ss) = n
    BY <1>2, <2>4, <2>5, LenProperties
  <2>. QED  BY <1>2, <2>4, <2>5, <2>6, EmptySeq
<1>10. c \in Seq(N) /\ Range(ss[n]) \subseteq Range(c)
  <2>. HIDE DEF ss, N
  <2>. QED  BY <1>9, FlattenMeans
<1>11. \A f \in stages : \E j \in DOMAIN c : c[j].to = f
  <2>. SUFFICES ASSUME NEW f \in stages  PROVE \E j \in DOMAIN c : c[j].to = f
    OBVIOUS
  <2>. HIDE DEF c, ss
  <2>1. told[n].layer \in Layers
    BY <1>2
  <2>2. PICK m \in Range(ss[n]) : m.to = f
    BY <1>8, <1>9, <2>1
  <2>3. m \in Range(c)
    BY <1>10, <2>2
  <2>. QED  BY <2>2, <2>3 DEF Range
<1>. HIDE DEF a, b, c, ss, N
<1>12. /\ a \o b \o c \in Seq(N)
       /\ \A j \in DOMAIN b : \E i \in DOMAIN (a \o b \o c) : (a \o b \o c)[i] = b[j]
       /\ \A j \in DOMAIN c : \E i \in DOMAIN (a \o b \o c) : (a \o b \o c)[i] = c[j]
  <2>. DEFINE d == a \o b  e == d \o c
  <2>1. Len(a) \in Nat /\ Len(b) \in Nat /\ Len(c) \in Nat /\ DOMAIN b = 1 .. Len(b) /\ DOMAIN c = 1 .. Len(c)
    BY <1>6, <1>7, <1>10, LenProperties
  <2>2. /\ d \in Seq(N) /\ Len(d) = Len(a) + Len(b)
        /\ \A j \in 1 .. Len(a) + Len(b) : d[j] = IF j <= Len(a) THEN a[j] ELSE b[j - Len(a)]
    BY <1>6, <1>7, ConcatProperties
  <2>. HIDE DEF d
  <2>3. /\ e \in Seq(N) /\ Len(e) = Len(d) + Len(c)
        /\ \A j \in 1 .. Len(d) + Len(c) : e[j] = IF j <= Len(d) THEN d[j] ELSE c[j - Len(d)]
    <3>1. c \in Seq(N) /\ d \in Seq(N)
      BY <1>10, <2>2
    <3>. QED  BY <3>1, ConcatProperties
  <2>. HIDE DEF e
  <2>4. DOMAIN e = 1 .. Len(a) + Len(b) + Len(c)
    BY <2>1, <2>2, <2>3, LenProperties
  <2>5. ASSUME NEW j \in DOMAIN b  PROVE \E i \in DOMAIN e : e[i] = b[j]
    <3>1. Len(a) + j \in 1 .. Len(a) + Len(b) /\ Len(a) + j \in 1 .. Len(d) + Len(c)
      BY <2>1, <2>2
    <3>2. d[Len(a) + j] = b[Len(a) + j - Len(a)] /\ Len(a) + j - Len(a) = j
      BY <2>1, <2>2, <3>1
    <3>3. e[Len(a) + j] = d[Len(a) + j]
      BY <2>1, <2>2, <2>3, <3>1
    <3>. QED  BY <2>1, <2>2, <2>4, <3>1, <3>2, <3>3
  <2>6. ASSUME NEW j \in DOMAIN c  PROVE \E i \in DOMAIN e : e[i] = c[j]
    <3>1. Len(d) + j \in 1 .. Len(d) + Len(c) /\ ~(Len(d) + j <= Len(d))
      BY <2>1, <2>2
    <3>2. e[Len(d) + j] = c[Len(d) + j - Len(d)] /\ Len(d) + j - Len(d) = j
      BY <2>1, <2>2, <2>3, <3>1
    <3>. QED  BY <2>1, <2>2, <2>4, <3>1, <3>2
  <2>. QED  BY <2>3, <2>5, <2>6 DEF d, e
<1>13. ASSUME NEW f \in Followers
       PROVE  \E j \in DOMAIN (a \o b \o c) : (a \o b \o c)[j].to = f
  <2>1. CASE f \in Listeners
    BY <1>7, <1>12, <2>1
  <2>2. CASE f \in stages
    BY <1>11, <1>12, <2>2
  <2>. QED  BY <2>1, <2>2 DEF Followers
<1>. QED  BY <1>1, <1>12, <1>13 DEF N

(* The rounds being sent: a listener that runs is the first of todo.       *)
RoundsSent ==
  {r \in [changes : Seq([layer : Layers, list : Seq(Entry)]), serial : Nat,
          todo : Seq(FitNotices), running : BOOLEAN] : r.running => r.todo # << >>}

(* The inductive invariant: types, with lists that are right; outside of   *)
(* blocks nothing waits, and a block is open during a round only while a   *)
(* listener runs.                                                          *)
StateFits ==
  /\ LayersFit(spec) /\ ChangesFit(spec, changes)
  /\ live \subseteq Layers /\ stages \subseteq Stages /\ block \in BOOLEAN
  /\ removals \in Seq([layer : Layers, path : Paths])
  /\ rounds \in Seq(RoundsSent)
  /\ serial \in Nat /\ heard \in [Stages -> Nat]
  /\ mirror \in [Followers -> [Layers -> Content]]
  /\ ~block => changes = << >> /\ removals = << >>
  /\ block /\ rounds # << >> => Round.running

(* The round that tells ch, before anyone has heard it.                    *)
Tells(ch, r) ==
  /\ r \in RoundsSent /\ r.serial = 0 /\ r.running = FALSE
  /\ \A f \in Followers : Awaits(f, r)
  /\ \A l \in live : ListAt(ch, l) # 0 => ListOf(r.changes, l) = ListOf(ch, l)

(* What Send does, for the live layers: nothing to tell, or one round more *)
(* that tells it.                                                          *)
SentAs(ch) ==
  /\ changes' = << >>
  /\ \/ rounds' = rounds /\ \A l \in live : ListAt(ch, l) = 0
     \/ \E r \in RoundsSent : Tells(ch, r) /\ rounds' = Append(rounds, r)

(* Send tells what was not sent of every live layer.                       *)
LEMMA SendMeans ==
    ASSUME NEW s, NEW ch, ChangesFit(s, ch), stages \subseteq Stages, Send(ch)
    PROVE  SentAs(ch)
<1>. DEFINE told == Told(OfLiveLayers(ch))
            r == [changes |-> told, serial |-> 0, todo |-> Notices(told), running |-> FALSE]
<1>1. /\ changes' = << >>
      /\ rounds' = IF told = << >> THEN rounds ELSE Append(rounds, r)
  BY DEF Send
<1>2. /\ told \in Seq([layer : Layers, list : Seq(Entry)])
      /\ \A l \in live : ListAt(ch, l) # 0 => told # << >> /\ ListOf(told, l) = ListOf(ch, l)
  BY ToldMeans
<1>. HIDE DEF told
<1>3. CASE told = << >>
  BY <1>1, <1>2, <1>3 DEF SentAs
<1>4. CASE told # << >>
  <2>1. /\ Notices(told) \in Seq(FitNotices)
        /\ \A f \in Followers : \E j \in DOMAIN Notices(told) : Notices(told)[j].to = f
    BY <1>2, <1>4, NoticesMean
  <2>2. r \in RoundsSent
    BY <1>2, <2>1 DEF RoundsSent
  <2>3. /\ r.serial = 0 /\ r.running = FALSE /\ r.todo = Notices(told) /\ r.changes = told
    OBVIOUS
  <2>4. rounds' = Append(rounds, r)
    BY <1>1, <1>4
  <2>. HIDE DEF r
  <2>5. \A f \in Followers : Awaits(f, r)
    BY <2>1, <2>3 DEF Awaits
  <2>6. Tells(ch, r)
    BY <1>2, <2>2, <2>3, <2>5 DEF Tells
  <2>. QED  BY <1>1, <2>2, <2>4, <2>6 DEF SentAs
<1>. QED  BY <1>3, <1>4

(* Nobody is told anything but by the rounds.                              *)
LEMMA NothingWaits ==
    ASSUME NEW s, LayersFit(s)
    PROVE  /\ ChangesFit(s, << >>) /\ \A l : ListAt(<< >>, l) = 0
           /\ \A l : Was(s, << >>, l) = s[l]
<1>1. << >> \in Seq(ChangeOf) /\ Len(<< >>) = 0 /\ DOMAIN << >> = {}
  BY EmptySeq
<1>2. ChangesFit(s, << >>)
  BY <1>1 DEF ChangesFit
<1>3. \A l : ListAt(<< >>, l) = 0
  BY <1>1, ListAtMeans
<1>. QED  BY <1>2, <1>3 DEF Was

(* A round more is a sequence of rounds.                                   *)
LEMMA RoundAdded ==
    ASSUME NEW S, NEW rs \in Seq(S), NEW r \in S
    PROVE  /\ Append(rs, r) \in Seq(S) /\ Append(rs, r) # << >>
           /\ Len(rs) \in Nat /\ DOMAIN rs = 1 .. Len(rs)
           /\ DOMAIN Append(rs, r) = 1 .. Len(rs) + 1 /\ Len(Append(rs, r)) = Len(rs) + 1
           /\ Append(rs, r)[Len(rs) + 1] = r /\ \A i \in DOMAIN rs : Append(rs, r)[i] = rs[i]
           /\ Last(Append(rs, r)) = r
  BY AppendProperties, LenProperties DEF Last

(* StateFits holds at first.                                               *)
LEMMA StateFitsAtFirst ==
    ManagerInit => StateFits
<1>. SUFFICES ASSUME ManagerInit  PROVE StateFits
  OBVIOUS
<1>1. /\ spec \in Contents /\ live \in DOMAIN Budget /\ stages \in SUBSET Stages
      /\ block = FALSE /\ changes = << >> /\ removals = << >> /\ rounds = << >>
      /\ serial = 0 /\ heard = [s \in Stages |-> 0] /\ mirror = [f \in Followers |-> spec]
  BY DEF ManagerInit
<1>2. spec \in [Layers -> Content] /\ live \subseteq Layers
  BY <1>1, ManagerAssumption DEF Content
<1>3. \A l \in Layers, p, q \in Paths : spec[l][p] # Absent /\ Under(p, q) => spec[l][q] # Absent
  BY <1>1, ManagerAssumption
<1>4. LayersFit(spec)
  BY <1>2, <1>3 DEF LayersFit, ClosedIn
<1>5. ChangesFit(spec, changes)
  BY <1>1, <1>4, NothingWaits
<1>6. removals \in Seq([layer : Layers, path : Paths]) /\ rounds \in Seq(RoundsSent)
  BY <1>1, EmptySeq
<1>7. heard \in [Stages -> Nat] /\ mirror \in [Followers -> [Layers -> Content]] /\ serial \in Nat
  BY <1>1, <1>2
<1>. QED  BY <1>1, <1>2, <1>4, <1>5, <1>6, <1>7 DEF StateFits

(* What stays as it is.                                                    *)
LEMMA SameForStages ==
    ASSUME UNCHANGED stages
    PROVE  UNCHANGED << Followers, FitNotices, RoundsSent >>
  BY DEF Followers, FitNotices, LayerNotices, ListenerNotices, StageNotices, RoundsSent

(* What was before the changes stays, whether they grow or are sent.       *)
Grown ==
  rounds' = rounds /\ \A k \in Layers : Was(spec', changes', k) = Was(spec, changes, k)

(* An edit whose round is sent: what was not sent is told, and nothing     *)
(* waits.                                                                  *)
Flushed == \E ch :
  /\ ChangesFit(spec', ch) /\ SentAs(ch)
  /\ \A k \in Layers : Was(spec', ch, k) = Was(spec, changes, k)

(* What the actions of client code do, as far as followers can tell.       *)
Edits ==
  /\ UNCHANGED << live, stages, serial, heard, mirror, missed >>
  /\ IF block' THEN block /\ Grown ELSE Flushed

(* An edit whose list is right keeps StateFits.                            *)
LEMMA EditFits ==
    ASSUME StateFits, NEW l \in Layers, NEW e,
           Fine(Was(spec, changes, l), e.c, e.list), e.list # << >>,
           Edit(l, e), Acting,
           removals' \in Seq([layer : Layers, path : Paths]), ~block => removals' = << >>
    PROVE  StateFits' /\ Edits
<1>. DEFINE c == e.c  L == e.list
            ch == WithList(changes, l, L, spec[l])
            t == [spec EXCEPT ![l] = c]
<1>1. /\ LayersFit(spec) /\ ChangesFit(spec, changes)
      /\ live \subseteq Layers /\ stages \subseteq Stages /\ block \in BOOLEAN
      /\ rounds \in Seq(RoundsSent)
      /\ serial \in Nat /\ heard \in [Stages -> Nat]
      /\ mirror \in [Followers -> [Layers -> Content]]
      /\ ~block => changes = << >> /\ removals = << >>
      /\ block /\ rounds # << >> => Round.running
  BY DEF StateFits
<1>2. /\ spec' = t
      /\ IF block THEN changes' = ch /\ UNCHANGED rounds ELSE Send(ch)
      /\ UNCHANGED << live, stages, block, serial, heard, mirror, missed >>
  BY DEF Edit
<1>3. /\ Fine(Was(spec, changes, l), c, L) /\ L # << >>
      /\ L = << >> => c = spec[l] /\ ListOf(changes, l) = << >>
  OBVIOUS
<1>4. /\ LayersFit(t) /\ ChangesFit(t, ch)
      /\ \A k \in Layers : Was(t, ch, k) = Was(spec, changes, k)
  <2>1. LayersFit(spec) /\ ChangesFit(spec, changes)
    BY <1>1
  <2>2. LayersFit([spec EXCEPT ![l] = e.c])
    BY <1>3, <2>1, EditStep
  <2>3. ChangesFit([spec EXCEPT ![l] = e.c], WithList(changes, l, e.list, spec[l]))
    BY <1>3, <2>1, EditStep
  <2>4. ASSUME NEW k \in Layers
        PROVE  Was([spec EXCEPT ![l] = e.c], WithList(changes, l, e.list, spec[l]), k) = Was(spec, changes, k)
    BY <1>3, <2>1, EditStep
  <2>. QED  BY <2>2, <2>3, <2>4
<1>. HIDE DEF t, ch
<1>5. UNCHANGED << Followers, RoundsSent >>
  BY <1>2, SameForStages
<1>6. CASE block
  <2>1. changes' = ch /\ rounds' = rounds
    BY <1>2, <1>6
  <2>2. Round' = Round
    BY <2>1 DEF Round
  <2>3. StateFits'
    BY <1>1, <1>2, <1>4, <1>5, <1>6, <2>1, <2>2 DEF StateFits
  <2>. QED  BY <1>2, <1>4, <1>6, <2>1, <2>3 DEF Edits, Grown
<1>7. CASE ~block
  <2>1. SentAs(ch)
    BY <1>1, <1>2, <1>4, <1>7, SendMeans
  <2>2. changes' = << >> /\ rounds' \in Seq(RoundsSent)
    <3>1. \A r \in RoundsSent : Append(rounds, r) \in Seq(RoundsSent)
      BY <1>1, RoundAdded
    <3>. QED  BY <1>1, <2>1, <3>1 DEF SentAs
  <2>3. ChangesFit(spec', changes')
    BY <1>2, <1>4, <2>2, NothingWaits
  <2>4. StateFits'
    BY <1>1, <1>2, <1>4, <1>5, <1>7, <2>2, <2>3 DEF StateFits
  <2>5. Flushed
    BY <1>2, <1>4, <2>1 DEF Flushed
  <2>. QED  BY <1>2, <1>7, <2>4, <2>5 DEF Edits
<1>. QED  BY <1>6, <1>7

(* The end of a block keeps StateFits, and takes only inert specs.         *)
LEMMA CloseFits ==
    ASSUME StateFits, NEW rs \in Seq([layer : Layers, path : Paths]), CloseWith(rs),
           UNCHANGED << live, stages, serial, heard, mirror, missed >>
    PROVE  StateFits' /\ Edits /\ block' = FALSE /\ OnlyInertGo(spec, spec') /\ LayersFit(spec')
<1>. DEFINE done == Process(rs, spec, changes)
<1>1. /\ LayersFit(spec) /\ ChangesFit(spec, changes)
      /\ live \subseteq Layers /\ stages \subseteq Stages /\ block \in BOOLEAN
      /\ rounds \in Seq(RoundsSent)
      /\ serial \in Nat /\ heard \in [Stages -> Nat]
      /\ mirror \in [Followers -> [Layers -> Content]]
  BY DEF StateFits
<1>2. /\ spec' = done.s /\ removals' = << >> /\ block' = FALSE /\ Send(done.ch)
  BY DEF CloseWith
<1>3. Cleaned(spec, changes, done)
  BY <1>1, ProcessCleans
<1>. HIDE DEF done
<1>4. /\ LayersFit(done.s) /\ ChangesFit(done.s, done.ch)
      /\ \A k \in Layers : Was(done.s, done.ch, k) = Was(spec, changes, k)
      /\ OnlyInertGo(spec, done.s)
  BY <1>3 DEF Cleaned
<1>5. UNCHANGED << Followers, RoundsSent >>
  BY SameForStages
<1>6. SentAs(done.ch)
  BY <1>1, <1>2, <1>4, SendMeans
<1>7. changes' = << >> /\ rounds' \in Seq(RoundsSent)
  <2>1. \A r \in RoundsSent : Append(rounds, r) \in Seq(RoundsSent)
    BY <1>1, RoundAdded
  <2>. QED  BY <1>1, <1>6, <2>1 DEF SentAs
<1>8. ChangesFit(spec', changes')
  BY <1>2, <1>4, <1>7, NothingWaits
<1>9. removals' \in Seq([layer : Layers, path : Paths])
  BY <1>2, EmptySeq
<1>10. StateFits'
  BY <1>1, <1>2, <1>4, <1>5, <1>7, <1>8, <1>9 DEF StateFits
<1>11. Flushed
  BY <1>2, <1>4, <1>6 DEF Flushed
<1>. QED  BY <1>2, <1>4, <1>10, <1>11 DEF Edits

(* Removals that wait follow their specs.                                  *)
LEMMA MovedFits ==
    ASSUME NEW l \in Layers, NEW p \in Paths, NEW q \in Paths, NEW ids,
           NEW rs \in Seq([layer : Layers, path : Paths]),
           \A r \in ids : ReplacePrefix(r, p, q) \in Paths,
           \A r \in Range(Moved(rs, l, p, q, ids)) : r.path # NoPath
    PROVE  /\ Moved(rs, l, p, q, ids) \in Seq([layer : Layers, path : Paths])
           /\ rs = << >> => Moved(rs, l, p, q, ids) = << >>
<1>. DEFINE m == Moved(rs, l, p, q, ids)  R == [layer : Layers, path : Paths]
            One(i) == IF rs[i].layer # l THEN rs[i]
                      ELSE IF rs[i].path \in ids
                           THEN [rs[i] EXCEPT !.path = ReplacePrefix(@, p, q)]
                      ELSE IF rs[i].path \in {ReplacePrefix(r, p, q) : r \in ids}
                           THEN [rs[i] EXCEPT !.path = NoPath]
                      ELSE rs[i]
<1>1. Len(rs) \in Nat /\ DOMAIN rs = 1 .. Len(rs) /\ \A i \in 1 .. Len(rs) : rs[i] \in R
  BY ElementOfSeq, LenProperties
<1>2. m = [i \in 1 .. Len(rs) |-> One(i)]
  BY <1>1 DEF Moved
<1>. HIDE DEF m
<1>3. ASSUME NEW i \in 1 .. Len(rs)  PROVE One(i) \in R
  <2>1. One(i).path # NoPath
    <3>1. m[i] = One(i) /\ m[i] \in Range(m)
      BY <1>2 DEF Range
    <3>. QED  BY <3>1 DEF m
  <2>2. rs[i] \in R
    BY <1>1
  <2>3. CASE rs[i].layer # l
    BY <2>2, <2>3
  <2>4. CASE rs[i].layer = l /\ rs[i].path \in ids
    BY <2>2, <2>4
  <2>5. CASE rs[i].layer = l /\ rs[i].path \notin ids /\ rs[i].path \in {ReplacePrefix(r, p, q) : r \in ids}
    <3>1. One(i) = [rs[i] EXCEPT !.path = NoPath]
      BY <2>5
    <3>2. One(i).path = NoPath
      BY <2>2, <3>1
    <3>. QED  BY <2>1, <3>2
  <2>6. CASE rs[i].layer = l /\ rs[i].path \notin ids /\ rs[i].path \notin {ReplacePrefix(r, p, q) : r \in ids}
    BY <2>2, <2>6
  <2>. QED  BY <2>3, <2>4, <2>5, <2>6
<1>. HIDE DEF One, R
<1>4. m \in Seq(R)
  BY <1>1, <1>2, <1>3, IsASeq
<1>5. rs = << >> => m = << >>
  <2>. SUFFICES ASSUME rs = << >>  PROVE m = << >>
    OBVIOUS
  <2>1. DOMAIN m = {}
    BY <1>1, <1>2
  <2>. QED  BY <1>4, <2>1, EmptySeq, LenProperties
<1>. QED  BY <1>4, <1>5 DEF m, R

(* What an edit begins with.                                               *)
LEMMA ToEdit ==
    ASSUME StateFits, NEW l \in Layers
    PROVE  /\ Fine(Was(spec, changes, l), spec[l], ListOf(changes, l))
           /\ Absent \notin Values /\ Room[l] \subseteq Paths
           /\ removals \in Seq([layer : Layers, path : Paths])
           /\ ~block => removals = << >>
  BY ListOfFine, ManagerAssumption DEF StateFits

(* Each action keeps StateFits, and is one of Edits if it is of client     *)
(* code.                                                                   *)
LEMMA CreateFits ==
    ASSUME StateFits, NEW l \in Layers, NEW p \in Paths, NEW v \in Values, Create(l, p, v)
    PROVE  StateFits' /\ Edits
<1>. DEFINE e == CreateSpec(spec[l], ListOf(changes, l), p, v)
<1>1. /\ MayEdit /\ spec[l][p] = Absent /\ (Len(p) > 1 => spec[l][Parent(p)] # Absent)
      /\ Edit(l, e) /\ UNCHANGED removals
  BY DEF Create
<1>2. Fine(Was(spec, changes, l), e.c, e.list) /\ e.list # << >>
  BY <1>1, ToEdit, CreateFine
<1>. HIDE DEF e
<1>3. Acting
  BY <1>1 DEF MayEdit
<1>. QED  BY <1>1, <1>2, <1>3, ToEdit, EditFits

LEMMA SetFits ==
    ASSUME StateFits, NEW l \in Layers, NEW p \in Paths, NEW v \in Values, Set(l, p, v)
    PROVE  StateFits' /\ Edits
<1>. DEFINE e == SetField(spec[l], ListOf(changes, l), p, v)
<1>1. /\ MayEdit /\ spec[l][p] # Absent
      /\ Edit(l, e) /\ UNCHANGED removals
  BY DEF Set
<1>2. Fine(Was(spec, changes, l), e.c, e.list) /\ e.list # << >>
  BY <1>1, ToEdit, SetFine
<1>. HIDE DEF e
<1>3. Acting
  BY <1>1 DEF MayEdit
<1>. QED  BY <1>1, <1>2, <1>3, ToEdit, EditFits

LEMMA DeleteFits ==
    ASSUME StateFits, NEW l \in Layers, NEW p \in Paths, Delete(l, p)
    PROVE  StateFits' /\ Edits
<1>. DEFINE e == DeleteSpec(spec[l], ListOf(changes, l), p)
<1>1. /\ MayEdit /\ spec[l][p] # Absent
      /\ Edit(l, e) /\ UNCHANGED removals
  BY DEF Delete
<1>2. Fine(Was(spec, changes, l), e.c, e.list) /\ e.list # << >>
  BY <1>1, ToEdit, DeleteFine
<1>. HIDE DEF e
<1>3. Acting
  BY <1>1 DEF MayEdit
<1>. QED  BY <1>1, <1>2, <1>3, ToEdit, EditFits

LEMMA MoveFits ==
    ASSUME StateFits, "stomps" \notin Careless,
           NEW l \in Layers, NEW p \in Paths, NEW q \in Paths, Move(l, p, q)
    PROVE  StateFits' /\ Edits
<1>. DEFINE e == MoveSpec(spec[l], ListOf(changes, l), p, q)
            from == SubtreeOf(spec[l], p)
<1>1. /\ MayEdit /\ ~Under(p, q) /\ ~Under(q, p)
      /\ spec[l][p] # Absent /\ spec[l][q] = Absent
      /\ (Len(q) > 1 => spec[l][Parent(q)] # Absent)
      /\ \A r \in from : ReplacePrefix(r, p, q) \in Room[l]
      /\ \E ids \in SUBSET from : removals' = Moved(removals, l, p, q, ids)
      /\ \A r \in Range(removals') : r.path # NoPath
      /\ Edit(l, e)
  BY DEF Move
<1>2. Fine(Was(spec, changes, l), e.c, e.list) /\ e.list # << >>
  BY <1>1, ToEdit, MoveFine
<1>. HIDE DEF e
<1>3. PICK ids \in SUBSET from : removals' = Moved(removals, l, p, q, ids)
  BY <1>1
<1>4. \A r \in ids : ReplacePrefix(r, p, q) \in Paths
  BY <1>1, <1>3, ToEdit
<1>5. \A r \in Range(Moved(removals, l, p, q, ids)) : r.path # NoPath
  BY <1>1, <1>3
<1>6. removals \in Seq([layer : Layers, path : Paths]) /\ (~block => removals = << >>)
  BY ToEdit
<1>. HIDE DEF from
<1>7. /\ Moved(removals, l, p, q, ids) \in Seq([layer : Layers, path : Paths])
      /\ removals = << >> => Moved(removals, l, p, q, ids) = << >>
  BY <1>4, <1>5, <1>6, MovedFits
<1>8. Acting
  BY <1>1 DEF MayEdit
<1>. QED  BY <1>1, <1>2, <1>3, <1>6, <1>7, <1>8, EditFits

LEMMA ScheduleFits ==
    ASSUME StateFits, NEW l \in Layers, NEW p \in Paths, Schedule(l, p)
    PROVE  StateFits' /\ Edits
<1>. DEFINE r == [layer |-> l, path |-> p]
<1>1. r \in [layer : Layers, path : Paths]
  OBVIOUS
<1>2. CASE block
  <2>1. /\ removals' = Append(removals, r)
        /\ UNCHANGED << spec, changes, rounds, block, live, stages, serial, heard, mirror, missed >>
    BY <1>2 DEF Schedule
  <2>2. removals' \in Seq([layer : Layers, path : Paths])
    <3>. HIDE DEF r
    <3>. QED  BY <1>1, <2>1, AppendProperties DEF StateFits
  <2>3. UNCHANGED << Followers, RoundsSent >>
    BY <2>1, SameForStages
  <2>4. StateFits'
    BY <1>2, <2>1, <2>2, <2>3 DEF StateFits, Round
  <2>5. Edits
    BY <1>2, <2>1 DEF Edits, Grown
  <2>. QED  BY <2>4, <2>5
<1>3. CASE ~block
  <2>1. CloseWith(<< r >>) /\ UNCHANGED << live, stages, serial, heard, mirror, missed >>
    BY <1>3 DEF Schedule
  <2>. HIDE DEF r
  <2>2. << r >> \in Seq([layer : Layers, path : Paths])
    BY <1>1
  <2>. QED  BY <2>1, <2>2, CloseFits
<1>. QED  BY <1>2, <1>3

LEMMA CloseBlockFits ==
    ASSUME StateFits, CloseBlock
    PROVE  StateFits' /\ Edits /\ OnlyInertGo(spec, spec') /\ LayersFit(spec')
<1>1. /\ CloseWith(removals) /\ UNCHANGED << live, stages, serial, heard, mirror, missed >>
  BY DEF CloseBlock
<1>2. removals \in Seq([layer : Layers, path : Paths])
  BY DEF StateFits
<1>. QED  BY <1>1, <1>2, CloseFits

(* The round at the top, one field of it other than before.                *)
LEMMA TopMeans ==
    ASSUME StateFits, rounds # << >>
    PROVE  /\ Top \in 1 .. Len(rounds) /\ DOMAIN rounds = 1 .. Len(rounds)
           /\ Len(rounds) \in Nat /\ Top = Len(rounds)
           /\ Round \in RoundsSent /\ Round = rounds[Top]
           /\ \A i \in 1 .. Len(rounds) : rounds[i] \in RoundsSent
<1>1. rounds \in Seq(RoundsSent)
  BY DEF StateFits
<1>2. Len(rounds) \in Nat \ {0} /\ DOMAIN rounds = 1 .. Len(rounds)
  BY <1>1, EmptySeq, LenProperties
<1>3. \A i \in 1 .. Len(rounds) : rounds[i] \in RoundsSent
  BY <1>1, ElementOfSeq
<1>. QED  BY <1>2, <1>3 DEF Top, Round, Last

(* A change of the innermost round leaves the others.                      *)
LEMMA TopChanged ==
    ASSUME StateFits, rounds # << >>, NEW r \in RoundsSent
    PROVE  LET new == [rounds EXCEPT ![Top] = r]
           IN  /\ new \in Seq(RoundsSent) /\ Len(new) = Len(rounds)
               /\ DOMAIN new = DOMAIN rounds /\ new # << >>
               /\ new[Top] = r /\ Last(new) = r
               /\ \A i \in DOMAIN rounds : i # Top => new[i] = rounds[i]
<1>. DEFINE new == [rounds EXCEPT ![Top] = r]
<1>1. rounds \in Seq(RoundsSent) /\ Top \in 1 .. Len(rounds) /\ Top = Len(rounds)
  BY TopMeans DEF StateFits
<1>2. DOMAIN rounds = 1 .. Len(rounds)
  BY TopMeans
<1>3. /\ new \in Seq(RoundsSent) /\ Len(new) = Len(rounds)
      /\ \A j \in 1 .. Len(rounds) : new[j] = IF j = Top THEN r ELSE rounds[j]
  BY <1>1, ExceptSeq
<1>. HIDE DEF new
<1>4. DOMAIN new = 1 .. Len(rounds) /\ new # << >>
  <2>1. DOMAIN new = 1 .. Len(rounds)
    BY <1>3, LenProperties
  <2>2. DOMAIN new # {}
    BY <1>1, <2>1
  <2>. QED  BY <2>1, <2>2
<1>. QED  BY <1>1, <1>2, <1>3, <1>4 DEF Last, new

(* Nothing but the round at the top changes, and what is heard of it.      *)
Sends(r) ==
  /\ r \in RoundsSent /\ rounds # << >> /\ rounds' = [rounds EXCEPT ![Top] = r]
  /\ ~block /\ changes = << >>
  /\ UNCHANGED << spec, live, stages, block, changes, removals >>

(* A step of the sending keeps StateFits.                                  *)
LEMMA SendsFits ==
    ASSUME StateFits, NEW r, Sends(r), serial' \in Nat, heard' \in [Stages -> Nat],
           mirror' \in [Followers -> [Layers -> Content]]
    PROVE  StateFits'
<1>1. UNCHANGED << Followers, RoundsSent >>
  BY SameForStages DEF Sends
<1>2. rounds' \in Seq(RoundsSent)
  BY TopChanged DEF Sends
<1>3. UNCHANGED << spec, live, stages, block, changes, removals >> /\ ~block
  BY DEF Sends
<1>4. /\ LayersFit(spec) /\ ChangesFit(spec, changes)
      /\ live \subseteq Layers /\ stages \subseteq Stages /\ block \in BOOLEAN
      /\ removals \in Seq([layer : Layers, path : Paths])
      /\ ~block => changes = << >> /\ removals = << >>
  BY DEF StateFits
<1>. QED  BY <1>1, <1>2, <1>3, <1>4 DEF StateFits

(* Outside of a listener no block is open during a round.                  *)
LEMMA NoBlockThen ==
    ASSUME StateFits, rounds # << >>, ~Round.running
    PROVE  block = FALSE /\ changes = << >>
  BY DEF StateFits

LEMMA TakeNumberFits ==
    ASSUME StateFits, TakeNumber
    PROVE  /\ StateFits' /\ Sends([Round EXCEPT !.serial = serial + 1])
           /\ serial' = serial + 1 /\ UNCHANGED << heard, mirror, missed >>
           /\ Round.serial = 0 /\ ~Round.running
<1>. DEFINE r == [Round EXCEPT !.serial = serial + 1]
<1>1. /\ rounds # << >> /\ ~Round.running /\ Round.serial = 0
      /\ serial' = serial + 1
      /\ rounds' = [rounds EXCEPT ![Top].serial = serial + 1]
      /\ UNCHANGED << spec, live, stages, block, changes, removals, heard, mirror, missed >>
  BY DEF TakeNumber
<1>2. /\ Top \in DOMAIN rounds /\ Round = rounds[Top] /\ Round \in RoundsSent
  BY <1>1, TopMeans
<1>3. serial \in Nat /\ heard \in [Stages -> Nat] /\ mirror \in [Followers -> [Layers -> Content]]
  BY DEF StateFits
<1>4. r \in RoundsSent
  <2>1. serial + 1 \in Nat
    BY <1>3
  <2>. QED  BY <1>2, <2>1 DEF RoundsSent
<1>5. rounds' = [rounds EXCEPT ![Top] = r]
  BY <1>1, <1>2
<1>. HIDE DEF r
<1>6. Sends(r)
  BY <1>1, <1>4, <1>5, NoBlockThen DEF Sends
<1>7. StateFits'
  BY <1>1, <1>3, <1>6, SendsFits
<1>. QED  BY <1>1, <1>6, <1>7 DEF r

(* Who hears the round at the top, and what it then knows.                 *)
Hears(f) ==
  /\ mirror' = [mirror EXCEPT ![f] = Reread(mirror[f])]
  /\ \/ Due.kind = "all" /\ UNCHANGED << heard, missed >>
     \/ /\ Due.kind = "stage" /\ Round.serial > heard[f]
        /\ heard' = [heard EXCEPT ![f] = Round.serial]
        /\ missed' = (missed \cup Overtaken(f)) \ ToldOf(f, Round)

LEMMA DeliverFits ==
    ASSUME StateFits, Deliver
    PROVE  /\ StateFits' /\ Sends([Round EXCEPT !.running = TRUE])
           /\ UNCHANGED serial /\ ~Round.running /\ Round.todo # << >>
           /\ Due \in FitNotices /\ Due = Round.todo[1]
           /\ Due.kind # "layer" => Round.serial # 0
           /\ \/ /\ UNCHANGED << heard, mirror, missed >>
                 /\ Due.kind = "layer" \/ (Due.kind = "stage" /\ ~(Round.serial > heard[Due.to]))
              \/ Hears(Due.to)
<1>. DEFINE r == [Round EXCEPT !.running = TRUE]  f == Due.to
<1>1. /\ rounds # << >> /\ ~Round.running /\ Round.todo # << >>
      /\ Due.kind # "layer" => Round.serial # 0
      /\ rounds' = [rounds EXCEPT ![Top].running = TRUE]
      /\ UNCHANGED << spec, live, stages, block, changes, removals, serial >>
      /\ CASE Due.kind = "layer" -> UNCHANGED << heard, mirror, missed >>
           [] Due.kind = "all" ->
                /\ mirror' = [mirror EXCEPT ![f] = Reread(@)]
                /\ UNCHANGED << heard, missed >>
           [] Due.kind = "stage" /\ Round.serial > heard[f] ->
                /\ mirror' = [mirror EXCEPT ![f] = Reread(@)]
                /\ heard' = [heard EXCEPT ![f] = Round.serial]
                /\ missed' = (missed \cup Overtaken(f)) \ ToldOf(f, Round)
           [] OTHER -> UNCHANGED << heard, mirror, missed >>
  BY DEF Deliver
<1>2. /\ Top \in DOMAIN rounds /\ Round = rounds[Top] /\ Round \in RoundsSent
  BY <1>1, TopMeans
<1>3. /\ serial \in Nat /\ heard \in [Stages -> Nat] /\ mirror \in [Followers -> [Layers -> Content]]
      /\ spec \in [Layers -> Content] /\ stages \subseteq Stages
  BY DEF StateFits, LayersFit
<1>4. r \in RoundsSent
  BY <1>1, <1>2 DEF RoundsSent
<1>5. rounds' = [rounds EXCEPT ![Top] = r]
  BY <1>1, <1>2
<1>6. Round.todo \in Seq(FitNotices) /\ Round.serial \in Nat
  BY <1>2 DEF RoundsSent
<1>7. Due \in FitNotices /\ Due = Round.todo[1]
  BY <1>1, <1>6, HeadTailProperties DEF Due
<1>. HIDE DEF r
<1>8. Sends(r)
  BY <1>1, <1>4, <1>5, NoBlockThen DEF Sends
<1>9. Due.kind \in {"layer", "all", "stage"}
  BY <1>7 DEF FitNotices, LayerNotices, ListenerNotices, StageNotices
<1>10. CASE Due.kind = "layer"
  <2>1. UNCHANGED << heard, mirror, missed >>
    BY <1>1, <1>10
  <2>2. StateFits'
    BY <1>1, <1>3, <1>8, <2>1, SendsFits
  <2>. QED  BY <1>1, <1>7, <1>8, <1>10, <2>1, <2>2 DEF r
<1>11. CASE Due.kind = "stage" /\ ~(Round.serial > heard[f])
  <2>1. UNCHANGED << heard, mirror, missed >>
    BY <1>1, <1>11
  <2>2. StateFits'
    BY <1>1, <1>3, <1>8, <2>1, SendsFits
  <2>. QED  BY <1>1, <1>7, <1>8, <1>11, <2>1, <2>2 DEF r
<1>12. CASE Due.kind = "all" \/ (Due.kind = "stage" /\ Round.serial > heard[f])
  <2>1. f \in Followers /\ (Due.kind = "stage" => f \in Stages)
    BY <1>3, <1>7, <1>12 DEF FitNotices, LayerNotices, ListenerNotices, StageNotices,
       Followers
  <2>2. Hears(f)
    BY <1>1, <1>12 DEF Hears
  <2>3. Reread(mirror[f]) \in [Layers -> Content]
    <3>1. mirror[f] \in [Layers -> Content]
      BY <1>3, <2>1
    <3>. DEFINE Reads(l, p) == IF l \in live /\ Covers(ListOf(Round.changes, l), p)
                               THEN spec[l][p] ELSE mirror[f][l][p]
    <3>2. \A l \in Layers, p \in Paths : Reads(l, p) \in Values \cup {Absent}
      BY <1>3, <3>1 DEF Content
    <3>3. Reread(mirror[f]) = [l \in Layers |-> [p \in Paths |-> Reads(l, p)]]
      BY DEF Reread
    <3>. HIDE DEF Reads
    <3>. QED  BY <3>2, <3>3 DEF Content
  <2>4. mirror' \in [Followers -> [Layers -> Content]]
    BY <1>3, <2>1, <2>2, <2>3 DEF Hears
  <2>5. heard' \in [Stages -> Nat]
    BY <1>3, <1>6, <2>1, <2>2 DEF Hears
  <2>6. StateFits'
    BY <1>1, <1>3, <1>8, <2>4, <2>5, SendsFits
  <2>. QED  BY <1>1, <1>7, <1>8, <2>2, <2>6 DEF r
<1>. QED  BY <1>9, <1>10, <1>11, <1>12

LEMMA ReturnFits ==
    ASSUME StateFits, ReturnFromListener
    PROVE  /\ StateFits' /\ Sends([Round EXCEPT !.running = FALSE, !.todo = Tail(@)])
           /\ UNCHANGED << serial, heard, mirror, missed >> /\ Round.running /\ Round.todo # << >>
<1>. DEFINE r == [Round EXCEPT !.running = FALSE, !.todo = Tail(@)]
<1>1. /\ rounds # << >> /\ Round.running /\ ~block
      /\ rounds' = [rounds EXCEPT ![Top].running = FALSE, ![Top].todo = Tail(@)]
      /\ UNCHANGED << spec, live, stages, block, changes, removals, serial, heard, mirror, missed >>
  BY DEF ReturnFromListener
<1>2. /\ Top \in DOMAIN rounds /\ Round = rounds[Top] /\ Round \in RoundsSent
  BY <1>1, TopMeans
<1>3. serial \in Nat /\ heard \in [Stages -> Nat] /\ mirror \in [Followers -> [Layers -> Content]]
  BY DEF StateFits
<1>4. r \in RoundsSent
  <2>1. Round.todo \in Seq(FitNotices) /\ Round.todo # << >>
    BY <1>1, <1>2 DEF RoundsSent
  <2>2. Tail(Round.todo) \in Seq(FitNotices)
    BY <2>1, HeadTailProperties
  <2>. QED  BY <1>2, <2>2 DEF RoundsSent
<1>5. rounds' = [rounds EXCEPT ![Top] = r]
  BY <1>1, <1>2
<1>. HIDE DEF r
<1>6. Sends(r)
  BY <1>1, <1>4, <1>5 DEF Sends, StateFits
<1>7. StateFits'
  BY <1>1, <1>3, <1>6, SendsFits
<1>8. Round.todo # << >>
  BY <1>1, <1>2 DEF RoundsSent
<1>. QED  BY <1>1, <1>6, <1>7, <1>8 DEF r

LEMMA EndRoundFits ==
    ASSUME StateFits, EndRound
    PROVE  /\ StateFits'
           /\ UNCHANGED << spec, live, stages, block, changes, removals, serial, heard, mirror, missed >>
           /\ rounds # << >> /\ ~Round.running /\ Round.todo = << >> /\ ~block
           /\ rounds' \in Seq(RoundsSent) /\ Len(rounds') = Len(rounds) - 1
           /\ \A i \in DOMAIN rounds' : i \in DOMAIN rounds /\ i # Top /\ rounds'[i] = rounds[i]
           /\ \A i \in DOMAIN rounds : i # Top => i \in DOMAIN rounds'
<1>1. /\ rounds # << >> /\ ~Round.running /\ Round.todo = << >>
      /\ rounds' = Front(rounds)
      /\ UNCHANGED << spec, live, stages, block, changes, removals, serial, heard, mirror, missed >>
  BY DEF EndRound
<1>2. /\ Len(rounds) \in Nat \ {0} /\ DOMAIN rounds = 1 .. Len(rounds) /\ Top = Len(rounds)
      /\ \A i \in 1 .. Len(rounds) : rounds[i] \in RoundsSent
  BY <1>1, TopMeans
<1>3. rounds' = SubSeq(rounds, 1, Len(rounds) - 1)
  BY <1>1 DEF Front
<1>4. /\ rounds' \in Seq(RoundsSent) /\ Len(rounds') = Len(rounds) - 1
      /\ \A i \in 1 .. Len(rounds) - 1 : rounds'[i] = rounds[i]
  BY <1>2, <1>3, SubSeqProperties
<1>5. DOMAIN rounds' = 1 .. Len(rounds) - 1
  BY <1>4, LenProperties
<1>6. ~block
  BY <1>1, NoBlockThen
<1>7. UNCHANGED << Followers, RoundsSent >>
  BY <1>1, SameForStages
<1>8. StateFits'
  <2>1. /\ LayersFit(spec) /\ ChangesFit(spec, changes)
        /\ live \subseteq Layers /\ stages \subseteq Stages /\ block \in BOOLEAN
        /\ removals \in Seq([layer : Layers, path : Paths])
        /\ serial \in Nat /\ heard \in [Stages -> Nat]
        /\ mirror \in [Followers -> [Layers -> Content]]
        /\ ~block => changes = << >> /\ removals = << >>
    BY DEF StateFits
  <2>. QED  BY <1>1, <1>4, <1>6, <1>7, <2>1 DEF StateFits
<1>. QED  BY <1>1, <1>2, <1>4, <1>5, <1>6, <1>8

LEMMA OpenBlockFits ==
    ASSUME StateFits, OpenBlock
    PROVE  /\ StateFits' /\ MayEdit /\ ~block /\ block'
           /\ UNCHANGED << spec, live, stages, changes, removals, rounds, serial, heard, mirror, missed >>
<1>1. /\ MayEdit /\ ~block /\ block' = TRUE
      /\ UNCHANGED << spec, live, stages, changes, removals, rounds, serial, heard, mirror, missed >>
  BY DEF OpenBlock
<1>2. Acting
  BY <1>1 DEF MayEdit
<1>3. UNCHANGED << Followers, RoundsSent >>
  BY <1>1, SameForStages
<1>4. Round' = Round
  BY <1>1 DEF Round
<1>5. StateFits'
  BY <1>1, <1>2, <1>3, <1>4 DEF StateFits, Acting
<1>. QED  BY <1>1, <1>5

LEMMA DestroyFits ==
    ASSUME StateFits, NEW l \in Layers, DestroyLayer(l)
    PROVE  /\ StateFits' /\ live' \subseteq live
           /\ UNCHANGED << spec, stages, block, changes, removals, rounds, serial, heard, mirror, missed >>
<1>1. /\ live' = live \ {l}
      /\ UNCHANGED << spec, stages, block, changes, removals, rounds, serial, heard, mirror, missed >>
  BY DEF DestroyLayer
<1>2. UNCHANGED << Followers, RoundsSent >>
  BY <1>1, SameForStages
<1>3. Round' = Round
  BY <1>1 DEF Round
<1>. QED  BY <1>1, <1>2, <1>3 DEF StateFits

LEMMA StutterFits ==
    ASSUME StateFits, UNCHANGED managerVars
    PROVE  /\ StateFits'
           /\ UNCHANGED << spec, live, stages, block, changes, removals, rounds, serial, heard, mirror, missed >>
<1>1. UNCHANGED << spec, live, stages, block, changes, removals, rounds, serial, heard, mirror, missed >>
  BY DEF managerVars
<1>2. UNCHANGED << Followers, RoundsSent >>
  BY <1>1, SameForStages
<1>3. Round' = Round
  BY <1>1 DEF Round
<1>. QED  BY <1>1, <1>2, <1>3 DEF StateFits

(* Every step keeps StateFits.                                             *)
LEMMA StateFitsStays ==
    ASSUME StateFits, [ManagerNext]_managerVars, "stomps" \notin Careless
    PROVE  StateFits'
<1>1. CASE OpenBlock
  BY <1>1, OpenBlockFits
<1>2. CASE CloseBlock
  BY <1>2, CloseBlockFits
<1>3. ASSUME NEW l \in Layers, NEW p \in Paths, NEW v \in Values, Create(l, p, v) \/ Set(l, p, v)
      PROVE  StateFits'
  BY <1>3, CreateFits, SetFits
<1>4. ASSUME NEW l \in Layers, NEW p \in Paths, Delete(l, p) \/ Schedule(l, p)
      PROVE  StateFits'
  BY <1>4, DeleteFits, ScheduleFits
<1>5. ASSUME NEW l \in Layers, NEW p \in Paths, NEW q \in Paths, Move(l, p, q)
      PROVE  StateFits'
  BY <1>5, MoveFits
<1>6. ASSUME NEW l \in Layers, DestroyLayer(l)
      PROVE  StateFits'
  BY <1>6, DestroyFits
<1>7. CASE TakeNumber
  BY <1>7, TakeNumberFits
<1>8. CASE Deliver
  BY <1>8, DeliverFits
<1>9. CASE ReturnFromListener
  BY <1>9, ReturnFits
<1>10. CASE EndRound
  BY <1>10, EndRoundFits
<1>11. CASE UNCHANGED managerVars
  BY <1>11, StutterFits
<1>. QED  BY <1>1, <1>2, <1>3, <1>4, <1>5, <1>6, <1>7, <1>8, <1>9, <1>10, <1>11 DEF ManagerNext

(* StateFits is an invariant, for any layers, paths, values, listeners and *)
(* stages: the change list of every layer with unsent changes is right,    *)
(* whichever edits were merged into it, and nothing waits outside of a     *)
(* block. The identity of a stomped spec names no layer, so that to carry  *)
(* out its removal is undefined (changeManager.cpp:126): "stomps" is       *)
(* excluded.                                                               *)
THEOREM ManagerInvariant ==
    ASSUME "stomps" \notin Careless
    PROVE  ManagerSpec => []StateFits
<1>1. ManagerInit => StateFits
  BY StateFitsAtFirst
<1>2. StateFits /\ [ManagerNext]_managerVars => StateFits'
  BY StateFitsStays
<1>. QED  BY <1>1, <1>2, PTL DEF ManagerSpec

(* InfoExact holds: the info of a spec that no entry resyncs is told from  *)
(* the value it had before the first of its changes to the one it has, in  *)
(* one entry.                                                              *)
THEOREM InfosAreExact ==
    ASSUME "stomps" \notin Careless
    PROVE  ManagerSpec => []InfoExact
<1>1. StateFits => InfoExact
  <2>. SUFFICES ASSUME StateFits, NEW x \in Range(changes), NEW p \in Paths,
                       x.was[p] # Absent, ~Resynced(x.list, p)
                PROVE  LET known == {e.infoChanged : e \in {f \in Range(x.list) : f.path = p}}
                       IN  /\ known \subseteq {<< >>, << x.was[p], spec[x.layer][p] >>}
                           /\ x.was[p] # spec[x.layer][p] => ~(known \subseteq {<< >>})
    BY DEF InfoExact
  <2>1. Fine(x.was, spec[x.layer], x.list)
    BY DEF StateFits, ChangesFit, Range
  <2>. QED  BY <2>1, FineInfos
<1>. QED  BY <1>1, ManagerInvariant, PTL

(* CleanupTakesOnlyInert holds: the end of a block takes away specs that   *)
(* have no field that matters, and none that has a spec below.             *)
THEOREM CleanupIsCareful ==
    ASSUME "stomps" \notin Careless
    PROVE  ManagerSpec => CleanupTakesOnlyInert
<1>. DEFINE Only == (block /\ ~block') =>
       \A l \in live, p \in Paths : spec'[l][p] # spec[l][p] =>
         /\ spec[l][p] = Bare /\ spec'[l][p] = Absent
         /\ SubtreeOf(spec'[l], p) = {}
<1>1. ASSUME StateFits, CloseBlock  PROVE Only
  <2>1. OnlyInertGo(spec, spec') /\ LayersFit(spec') /\ live \subseteq Layers
    BY <1>1, CloseBlockFits DEF StateFits
  <2>2. ASSUME NEW l \in live, NEW p \in Paths, spec'[l][p] # spec[l][p]
        PROVE  spec[l][p] = Bare /\ spec'[l][p] = Absent /\ SubtreeOf(spec'[l], p) = {}
    <3>1. spec[l][p] = Bare /\ spec'[l][p] = Absent
      BY <2>1, <2>2 DEF OnlyInertGo
    <3>2. ClosedIn(spec'[l])
      BY <2>1 DEF LayersFit
    <3>3. SubtreeOf(spec'[l], p) = {}
      BY <3>1, <3>2 DEF SubtreeOf, Specs, ClosedIn
    <3>. QED  BY <3>1, <3>3
  <2>. QED  BY <2>2
<1>2. ASSUME StateFits, ManagerNext, ~CloseBlock  PROVE ~(block /\ ~block')
  <2>1. ASSUME NEW l \in Layers, NEW e, Edit(l, e)  PROVE ~(block /\ ~block')
    BY <2>1 DEF Edit
  <2>2. ASSUME NEW l \in Layers, NEW p \in Paths, NEW v \in Values, Create(l, p, v) \/ Set(l, p, v)
        PROVE  ~(block /\ ~block')
    BY <2>1, <2>2 DEF Create, Set
  <2>3. ASSUME NEW l \in Layers, NEW p \in Paths, Delete(l, p)
        PROVE  ~(block /\ ~block')
    BY <2>1, <2>3 DEF Delete
  <2>4. ASSUME NEW l \in Layers, NEW p \in Paths, Schedule(l, p)
        PROVE  ~(block /\ ~block')
    BY <2>4 DEF Schedule
  <2>5. ASSUME NEW l \in Layers, NEW p \in Paths, NEW q \in Paths, Move(l, p, q)
        PROVE  ~(block /\ ~block')
    BY <2>1, <2>5 DEF Move
  <2>6. CASE OpenBlock \/ (\E l \in Layers : DestroyLayer(l)) \/ TakeNumber
             \/ Deliver \/ ReturnFromListener \/ EndRound
    BY <2>6 DEF OpenBlock, DestroyLayer, TakeNumber, Deliver, ReturnFromListener,
       EndRound
  <2>. QED  BY <1>2, <2>2, <2>3, <2>4, <2>5, <2>6 DEF ManagerNext
<1>3. StateFits /\ [ManagerNext]_managerVars => [Only]_managerVars
  BY <1>1, <1>2
<1>. QED  BY <1>3, ManagerInvariant, PTL DEF ManagerSpec, CleanupTakesOnlyInert

(* f is still to hear, in a round being sent, what covers p of l.          *)
Coming(f, l, p) == \E i \in DOMAIN rounds :
  Expects(f, rounds[i]) /\ Covers(ListOf(rounds[i].changes, l), p)

(* What a follower does not know of what was sent is still coming to it,   *)
(* or it refuses to hear it.                                               *)
AllComes == \A f \in Followers, l \in live, p \in Paths :
  mirror[f][l][p] # Was(spec, changes, l)[p] /\ << f, l, p >> \notin missed
    => Coming(f, l, p)

(* The invariant of followers. A mirror lags behind what its layer was     *)
(* before the changes not sent, so it is that which is compared: block,    *)
(* edit and send are then one step of the argument.                        *)
FollowFits == AllComes /\ NumbersFit

(* FollowFits holds at first.                                              *)
LEMMA FollowFitsAtFirst ==
    ManagerInit => FollowFits
<1>. SUFFICES ASSUME ManagerInit  PROVE FollowFits
  OBVIOUS
<1>1. /\ changes = << >> /\ rounds = << >> /\ live \subseteq Layers
      /\ serial = 0 /\ heard = [s \in Stages |-> 0] /\ mirror = [f \in Followers |-> spec]
  BY ManagerAssumption DEF ManagerInit
<1>2. LayersFit(spec)
  BY StateFitsAtFirst DEF StateFits
<1>3. \A l : Was(spec, changes, l) = spec[l]
  BY <1>1, <1>2, NothingWaits
<1>4. DOMAIN rounds = {}
  BY <1>1, EmptySeq
<1>. QED  BY <1>1, <1>3, <1>4 DEF FollowFits, AllComes, NumbersFit

(* What an edit does not send waits; what it sends is told to everyone.    *)
LEMMA EditKeeps ==
    ASSUME StateFits, FollowFits, StateFits', Edits
    PROVE  FollowFits'
<1>0. /\ rounds \in Seq(RoundsSent) /\ Len(rounds) \in Nat /\ DOMAIN rounds = 1 .. Len(rounds)
      /\ serial \in Nat /\ live \subseteq Layers /\ Top = Len(rounds)
  BY LenProperties DEF StateFits, Top
<1>1. UNCHANGED << live, stages, serial, heard, mirror, missed >> /\ Followers' = Followers
  BY SameForStages DEF Edits
<1>2. AllComes /\ NumbersFit
  BY DEF FollowFits
<1>4. CASE block' /\ block /\ Grown
  <2>1. /\ rounds' = rounds
        /\ \A k \in Layers : Was(spec', changes', k) = Was(spec, changes, k)
    BY <1>4 DEF Grown
  <2>2. AllComes'
    BY <1>0, <1>1, <1>2, <2>1 DEF AllComes, Coming, Expects
  <2>3. NumbersFit'
    BY <1>1, <1>2, <2>1 DEF NumbersFit
  <2>. QED  BY <2>2, <2>3 DEF FollowFits
<1>5. CASE ~block' /\ Flushed
  <2>1. PICK ch : /\ ChangesFit(spec', ch) /\ SentAs(ch)
                  /\ \A k \in Layers : Was(spec', ch, k) = Was(spec, changes, k)
    BY <1>5 DEF Flushed
  <2>2. LayersFit(spec') /\ changes' = << >> /\ \A l : Was(spec', changes', l) = spec'[l]
    <3>1. LayersFit(spec') /\ changes' = << >>
      BY <2>1 DEF StateFits, SentAs
    <3>. QED  BY <3>1, NothingWaits
  <2>3. CASE rounds' = rounds /\ \A l \in live : ListAt(ch, l) = 0
    <3>1. \A l \in live : Was(spec', changes', l) = Was(spec, changes, l)
      BY <1>0, <2>1, <2>2, <2>3 DEF Was
    <3>2. AllComes'
      BY <1>0, <1>1, <1>2, <2>3, <3>1 DEF AllComes, Coming, Expects
    <3>3. NumbersFit'
      BY <1>1, <1>2, <2>3 DEF NumbersFit
    <3>. QED  BY <3>2, <3>3 DEF FollowFits
  <2>4. ASSUME NEW r \in RoundsSent, Tells(ch, r), rounds' = Append(rounds, r)
        PROVE  FollowFits'
    <3>1. /\ DOMAIN rounds' = 1 .. Len(rounds) + 1 /\ Len(rounds') = Len(rounds) + 1
          /\ rounds'[Len(rounds) + 1] = r /\ \A i \in DOMAIN rounds : rounds'[i] = rounds[i]
      BY <1>0, <2>4, RoundAdded
    <3>2. /\ r.serial = 0 /\ r.running = FALSE /\ \A f \in Followers : Awaits(f, r)
          /\ \A l \in live : ListAt(ch, l) # 0 => ListOf(r.changes, l) = ListOf(ch, l)
      BY <2>4 DEF Tells
    <3>3. \A i \in DOMAIN rounds' : i \in DOMAIN rounds \/ i = Len(rounds) + 1
      BY <1>0, <3>1
    <3>4. ASSUME NEW f \in Followers, NEW l \in live, NEW p \in Paths,
                 mirror[f][l][p] # spec'[l][p], << f, l, p >> \notin missed
          PROVE  Coming(f, l, p)'
      <4>1. CASE mirror[f][l][p] # Was(spec, changes, l)[p]
        <5>1. PICK i \in DOMAIN rounds : Expects(f, rounds[i]) /\ Covers(ListOf(rounds[i].changes, l), p)
          BY <1>2, <3>4, <4>1 DEF AllComes, Coming
        <5>2. i \in DOMAIN rounds' /\ rounds'[i] = rounds[i]
          BY <1>0, <3>1
        <5>. QED  BY <1>1, <5>1, <5>2 DEF Coming, Expects
      <4>2. CASE mirror[f][l][p] = Was(spec, changes, l)[p]
        <5>1. Was(spec', ch, l)[p] # spec'[l][p] /\ l \in Layers
          BY <1>0, <2>1, <3>4, <4>2
        <5>2. ListAt(ch, l) # 0
          BY <5>1 DEF Was
        <5>3. Fine(Was(spec', ch, l), spec'[l], ListOf(ch, l))
          BY <2>1, <2>2, <5>1, ListOfFine
        <5>4. Covers(ListOf(ch, l), p)
          BY <5>1, <5>3, FineCovers
        <5>5. Len(rounds) + 1 \in DOMAIN rounds' /\ Expects(f, r)'
          BY <1>0, <1>1, <3>1, <3>2 DEF Expects
        <5>. QED  BY <3>1, <3>2, <5>2, <5>4, <5>5 DEF Coming, Expects
      <4>. QED  BY <4>1, <4>2
    <3>5. AllComes'
      BY <1>1, <2>2, <3>4 DEF AllComes
    <3>6. NumbersFit'
      BY <1>0, <1>1, <1>2, <3>1, <3>2, <3>3 DEF NumbersFit
    <3>. QED  BY <3>5, <3>6 DEF FollowFits
  <2>. QED  BY <2>1, <2>3, <2>4 DEF SentAs
<1>. QED  BY <1>4, <1>5 DEF Edits

(* The other actions keep FollowFits.                                      *)
LEMMA OpenBlockKeeps ==
    ASSUME StateFits, FollowFits, OpenBlock
    PROVE  FollowFits'
<1>1. UNCHANGED << spec, live, stages, changes, rounds, serial, heard, mirror, missed >>
  BY OpenBlockFits
<1>2. AllComes'
  BY <1>1 DEF FollowFits, AllComes, Coming, Expects, Followers, Was
<1>3. NumbersFit'
  BY <1>1 DEF FollowFits, NumbersFit
<1>. QED  BY <1>2, <1>3 DEF FollowFits

LEMMA LiveKeeps ==
    ASSUME FollowFits, live' \subseteq live,
           UNCHANGED << spec, stages, block, changes, rounds, serial, heard, mirror, missed >>
    PROVE  FollowFits'
  BY DEF FollowFits, AllComes, Coming, Expects, Followers, Was, NumbersFit

(* The round at the top goes on as r: what it still owes is owed as        *)
(* before, known, or refused.                                              *)
Owes(r) == \A f \in Followers, l \in live, p \in Paths :
  mirror'[f][l][p] # spec[l][p] /\ << f, l, p >> \notin missed' =>
    /\ mirror[f][l][p] # spec[l][p] /\ << f, l, p >> \notin missed
    /\ Expects(f, Round) /\ Covers(ListOf(Round.changes, l), p) =>
         Expects(f, r)' /\ r.changes = Round.changes
    /\ \A i \in DOMAIN rounds :
         i # Top /\ Expects(f, rounds[i]) /\ Covers(ListOf(rounds[i].changes, l), p)
           => Expects(f, rounds[i])'

(* A step of the sending keeps FollowFits if the round owes no more than   *)
(* before.                                                                 *)
LEMMA SendsKeeps ==
    ASSUME StateFits, FollowFits, NEW r, Sends(r), Owes(r),
           serial' \in Nat, serial' >= serial, r.serial <= serial',
           \A s \in Stages : heard'[s] \in Nat /\ heard'[s] >= heard[s] /\ heard'[s] <= serial'
    PROVE  FollowFits'
<1>1. /\ rounds # << >> /\ rounds' = [rounds EXCEPT ![Top] = r] /\ r \in RoundsSent
      /\ ~block /\ changes = << >>
      /\ UNCHANGED << spec, live, stages, block, changes, removals >>
  BY DEF Sends
<1>2. AllComes /\ NumbersFit
  BY DEF FollowFits
<1>3. /\ Top \in DOMAIN rounds /\ Round = rounds[Top] /\ DOMAIN rounds = 1 .. Len(rounds)
      /\ Len(rounds) \in Nat /\ Top = Len(rounds)
      /\ \A i \in DOMAIN rounds : rounds[i] \in RoundsSent
  BY <1>1, TopMeans
<1>4. /\ Len(rounds') = Len(rounds) /\ DOMAIN rounds' = DOMAIN rounds /\ rounds'[Top] = r
      /\ \A i \in DOMAIN rounds : i # Top => rounds'[i] = rounds[i]
  BY <1>1, TopChanged
<1>5. Followers' = Followers /\ Top' = Top
  BY <1>1, <1>4 DEF Followers, Top
<1>6. \A l : Was(spec, changes, l) = spec[l] /\ Was(spec', changes', l) = spec[l]
  <2>1. LayersFit(spec)
    BY DEF StateFits
  <2>. QED  BY <1>1, <2>1, NothingWaits
<1>7. AllComes'
  <2>1. ASSUME NEW f \in Followers, NEW l \in live, NEW p \in Paths,
               mirror'[f][l][p] # spec[l][p], << f, l, p >> \notin missed'
        PROVE  Coming(f, l, p)'
    <3>1. mirror[f][l][p] # spec[l][p] /\ << f, l, p >> \notin missed
      BY <2>1 DEF Owes
    <3>2. PICK i \in DOMAIN rounds : Expects(f, rounds[i]) /\ Covers(ListOf(rounds[i].changes, l), p)
      BY <1>2, <1>6, <3>1 DEF AllComes, Coming
    <3>3. CASE i = Top
      <4>1. Expects(f, r)' /\ r.changes = Round.changes
        BY <1>3, <2>1, <3>2, <3>3 DEF Owes
      <4>2. Expects(f, rounds[i])' /\ rounds'[i].changes = rounds[i].changes
        BY <1>3, <1>4, <3>3, <4>1 DEF Expects
      <4>. QED  BY <1>4, <3>2, <4>2 DEF Coming
    <3>4. CASE i # Top
      <4>1. Expects(f, rounds[i])'
        BY <2>1, <3>2, <3>4 DEF Owes
      <4>. QED  BY <1>4, <3>2, <3>4, <4>1 DEF Coming
    <3>. QED  BY <3>3, <3>4
  <2>. QED  BY <1>1, <1>5, <1>6, <2>1 DEF AllComes
<1>8. NumbersFit'
  <2>1. ASSUME NEW i \in DOMAIN rounds  PROVE rounds'[i].serial <= serial'
    <3>1. rounds[i].serial <= serial /\ rounds[i].serial \in Nat /\ serial \in Nat
      BY <1>2, <1>3 DEF NumbersFit, RoundsSent, StateFits
    <3>2. rounds'[i] = rounds[i] \/ rounds'[i] = r
      BY <1>4
    <3>. QED  BY <3>1, <3>2
  <2>. QED  BY <1>4, <2>1 DEF NumbersFit
<1>. QED  BY <1>7, <1>8 DEF FollowFits

LEMMA TakeNumberKeeps ==
    ASSUME StateFits, FollowFits, TakeNumber
    PROVE  FollowFits'
<1>0. PICK r : r = [Round EXCEPT !.serial = serial + 1]
  OBVIOUS
<1>1. /\ Sends(r) /\ serial' = serial + 1 /\ UNCHANGED << heard, mirror, missed >>
      /\ Round.serial = 0 /\ ~Round.running
  BY <1>0, TakeNumberFits
<1>2. Round \in RoundsSent /\ rounds # << >>
  BY <1>1, TopMeans DEF Sends
<1>3. r.serial = serial + 1 /\ r.changes = Round.changes /\ r.todo = Round.todo /\ r.running = Round.running
  BY <1>0, <1>2 DEF RoundsSent
<1>4. NumbersFit /\ serial \in Nat /\ heard \in [Stages -> Nat] /\ stages \subseteq Stages
  BY DEF FollowFits, StateFits
<1>5. Owes(r)
  <2>1. \A f : Expects(f, Round) => Expects(f, r)'
    <3>. SUFFICES ASSUME NEW f, Expects(f, Round)  PROVE Expects(f, r)'
      OBVIOUS
    <3>1. Awaits(f, r)
      BY <1>3 DEF Expects, Awaits
    <3>2. stages' = stages /\ heard' = heard
      BY <1>1 DEF Sends
    <3>3. f \in stages => heard[f] < serial + 1
      BY <1>4 DEF NumbersFit
    <3>. QED  BY <1>3, <3>1, <3>2, <3>3 DEF Expects
  <2>2. \A f : \A i \in DOMAIN rounds : i # Top /\ Expects(f, rounds[i]) => Expects(f, rounds[i])'
    <3>1. \A i \in DOMAIN rounds : i # Top => rounds'[i] = rounds[i]
      BY <1>1, TopChanged DEF Sends
    <3>2. stages' = stages /\ heard' = heard
      BY <1>1 DEF Sends
    <3>. QED  BY <3>1, <3>2 DEF Expects
  <2>. QED  BY <1>1, <1>3, <2>1, <2>2 DEF Owes
<1>6. /\ serial' \in Nat /\ serial' >= serial /\ r.serial <= serial'
      /\ \A s \in Stages : heard'[s] \in Nat /\ heard'[s] >= heard[s] /\ heard'[s] <= serial'
  BY <1>1, <1>3, <1>4 DEF NumbersFit
<1>. QED  BY <1>1, <1>5, <1>6, SendsKeeps

LEMMA ReturnKeeps ==
    ASSUME StateFits, FollowFits, ReturnFromListener
    PROVE  FollowFits'
<1>0. PICK r : r = [Round EXCEPT !.running = FALSE, !.todo = Tail(@)]
  OBVIOUS
<1>1. /\ Sends(r) /\ UNCHANGED << serial, heard, mirror, missed >> /\ Round.running /\ Round.todo # << >>
  BY <1>0, ReturnFits
<1>2. Round \in RoundsSent /\ rounds # << >> /\ Top \in DOMAIN rounds /\ Round = rounds[Top]
  BY <1>1, TopMeans DEF Sends
<1>3. r.serial = Round.serial /\ r.changes = Round.changes /\ r.todo = Tail(Round.todo) /\ r.running = FALSE
  BY <1>0, <1>2 DEF RoundsSent
<1>4. NumbersFit /\ serial \in Nat /\ heard \in [Stages -> Nat] /\ stages \subseteq Stages
  BY DEF FollowFits, StateFits
<1>5. Owes(r)
  <2>1. \A f : Expects(f, Round) => Expects(f, r)'
    <3>. SUFFICES ASSUME NEW f, Expects(f, Round)  PROVE Expects(f, r)'
      OBVIOUS
    <3>1. PICK i \in DOMAIN Round.todo : Round.todo[i].to = f /\ i > 1
      BY <1>1 DEF Expects, Awaits
    <3>2. /\ Tail(Round.todo) \in Seq(FitNotices) /\ Len(Tail(Round.todo)) = Len(Round.todo) - 1
          /\ \A j \in 1 .. Len(Tail(Round.todo)) : Tail(Round.todo)[j] = Round.todo[j + 1]
          /\ Len(Round.todo) \in Nat /\ DOMAIN Round.todo = 1 .. Len(Round.todo)
      <4>1. Round.todo \in Seq(FitNotices)
        BY <1>2 DEF RoundsSent
      <4>. QED  BY <1>1, <4>1, HeadTailProperties, LenProperties
    <3>3. DOMAIN Tail(Round.todo) = 1 .. Len(Round.todo) - 1
      BY <3>2, LenProperties
    <3>4. i - 1 \in 1 .. Len(Round.todo) - 1 /\ (i - 1) + 1 = i
      BY <3>1, <3>2
    <3>5. i - 1 \in DOMAIN r.todo /\ r.todo[i - 1].to = f
      BY <1>3, <3>1, <3>2, <3>3, <3>4
    <3>6. Awaits(f, r)
      BY <1>3, <3>5 DEF Awaits
    <3>7. stages' = stages /\ heard' = heard
      BY <1>1 DEF Sends
    <3>. QED  BY <1>3, <3>6, <3>7 DEF Expects
  <2>2. \A f : \A i \in DOMAIN rounds : i # Top /\ Expects(f, rounds[i]) => Expects(f, rounds[i])'
    <3>1. \A i \in DOMAIN rounds : i # Top => rounds'[i] = rounds[i]
      BY <1>1, TopChanged DEF Sends
    <3>2. stages' = stages /\ heard' = heard
      BY <1>1 DEF Sends
    <3>. QED  BY <3>1, <3>2 DEF Expects
  <2>. QED  BY <1>1, <1>3, <2>1, <2>2 DEF Owes
<1>6. /\ serial' \in Nat /\ serial' >= serial /\ r.serial <= serial'
      /\ \A s \in Stages : heard'[s] \in Nat /\ heard'[s] >= heard[s] /\ heard'[s] <= serial'
  BY <1>1, <1>2, <1>3, <1>4 DEF NumbersFit
<1>. QED  BY <1>1, <1>5, <1>6, SendsKeeps

LEMMA EndRoundKeeps ==
    ASSUME StateFits, FollowFits, EndRound
    PROVE  FollowFits'
<1>1. /\ UNCHANGED << spec, live, stages, block, changes, removals, serial, heard, mirror, missed >>
      /\ rounds # << >> /\ ~Round.running /\ Round.todo = << >> /\ ~block
      /\ Len(rounds') = Len(rounds) - 1
      /\ \A i \in DOMAIN rounds' : i \in DOMAIN rounds /\ i # Top /\ rounds'[i] = rounds[i]
      /\ \A i \in DOMAIN rounds : i # Top => i \in DOMAIN rounds'
  BY EndRoundFits
<1>2. /\ Round = rounds[Top] /\ Len(rounds) \in Nat /\ Top = Len(rounds)
      /\ DOMAIN rounds = 1 .. Len(rounds)
  BY <1>1, TopMeans
<1>3. AllComes /\ NumbersFit
  BY DEF FollowFits
<1>4. \A f : ~Expects(f, Round)
  <2>1. DOMAIN Round.todo = {}
    BY <1>1, EmptySeq
  <2>. QED  BY <2>1 DEF Expects, Awaits
<1>5. AllComes'
  <2>1. ASSUME NEW f \in Followers, NEW l \in live, NEW p \in Paths, Coming(f, l, p)
        PROVE  Coming(f, l, p)'
    <3>1. PICK i \in DOMAIN rounds : Expects(f, rounds[i]) /\ Covers(ListOf(rounds[i].changes, l), p)
      BY <2>1 DEF Coming
    <3>2. i # Top
      BY <1>2, <1>4, <3>1
    <3>3. i \in DOMAIN rounds' /\ rounds'[i] = rounds[i]
      BY <1>1, <3>1, <3>2
    <3>. QED  BY <1>1, <3>1, <3>3 DEF Coming, Expects
  <2>. QED  BY <1>1, <1>3, <2>1 DEF AllComes, Followers, Was
<1>6. NumbersFit'
  BY <1>1, <1>3 DEF NumbersFit
<1>. QED  BY <1>5, <1>6 DEF FollowFits

(* Who a notice is for is told by its kind.                                *)
LEMMA NoticesFor ==
    ASSUME NEW n \in FitNotices, stages \subseteq Stages
    PROVE  /\ n.kind = "layer" => n.to \notin Followers
           /\ n.kind = "all" => n.to \in Listeners /\ n.to \notin stages
           /\ n.kind = "stage" => n.to \in stages
           /\ n.to \in stages => n.kind = "stage"
<1>1. Absent \notin Listeners /\ Absent \notin Stages /\ Listeners \cap Stages = {}
  BY ManagerAssumption
<1>2. CASE n \in LayerNotices
  BY <1>1, <1>2 DEF LayerNotices, Followers
<1>3. CASE n \in ListenerNotices
  BY <1>1, <1>3 DEF ListenerNotices, Followers
<1>4. CASE n \in StageNotices
  BY <1>1, <1>4 DEF StageNotices, Followers
<1>. QED  BY <1>2, <1>3, <1>4 DEF FitNotices

(* Whoever hears a round knows what it covers as it is now, or as it was   *)
(* before what is not sent: those in turn wait for a round of their own.   *)
LEMMA DeliverKeeps ==
    ASSUME StateFits, FollowFits, Deliver
    PROVE  FollowFits'
<1>0. PICK r : r = [Round EXCEPT !.running = TRUE]
  OBVIOUS
<1>1. /\ Sends(r) /\ UNCHANGED serial /\ ~Round.running /\ Round.todo # << >>
      /\ Due \in FitNotices /\ Due = Round.todo[1]
      /\ Due.kind # "layer" => Round.serial # 0
      /\ \/ /\ UNCHANGED << heard, mirror, missed >>
            /\ Due.kind = "layer" \/ (Due.kind = "stage" /\ ~(Round.serial > heard[Due.to]))
         \/ Hears(Due.to)
  BY <1>0, DeliverFits
<1>2. Round \in RoundsSent /\ rounds # << >> /\ Top \in DOMAIN rounds /\ Round = rounds[Top]
  BY <1>1, TopMeans DEF Sends
<1>3. /\ r.serial = Round.serial /\ r.changes = Round.changes /\ r.todo = Round.todo
      /\ r.running = TRUE /\ Round.serial \in Nat
  BY <1>0, <1>2 DEF RoundsSent
<1>4. /\ NumbersFit /\ serial \in Nat /\ heard \in [Stages -> Nat]
      /\ mirror \in [Followers -> [Layers -> Content]]
      /\ stages \subseteq Stages /\ live \subseteq Layers
  BY DEF FollowFits, StateFits
<1>5. /\ stages' = stages
      /\ \A i \in DOMAIN rounds : i # Top => rounds'[i] = rounds[i]
  BY <1>1, TopChanged DEF Sends
<1>6. ASSUME NEW g, Expects(g, Round), Due.to # g, g \in stages => heard'[g] = heard[g]
      PROVE  Expects(g, r)'
  <2>1. PICK j \in DOMAIN Round.todo : Round.todo[j].to = g
    BY <1>6 DEF Expects, Awaits
  <2>2. Round.todo \in Seq(FitNotices)
    BY <1>2 DEF RoundsSent
  <2>3. j > 1
    <3>1. j \in 1 .. Len(Round.todo) /\ j # 1
      BY <1>1, <1>6, <2>1, <2>2, LenProperties
    <3>. QED  BY <2>2, <3>1
  <2>4. Awaits(g, r)
    BY <1>3, <2>1, <2>3 DEF Awaits
  <2>. QED  BY <1>3, <1>5, <1>6, <2>4 DEF Expects
<1>7. ASSUME NEW g, NEW i \in DOMAIN rounds, i # Top, Expects(g, rounds[i]),
             g \in stages => heard'[g] = heard[g] \/ rounds[i].serial = 0
      PROVE  Expects(g, rounds[i])'
  BY <1>5, <1>7 DEF Expects
<1>8. CASE /\ UNCHANGED << heard, mirror, missed >>
           /\ Due.kind = "layer" \/ (Due.kind = "stage" /\ ~(Round.serial > heard[Due.to]))
  <2>1. ASSUME NEW g \in Followers, Expects(g, Round)  PROVE Due.to # g
    <3>1. CASE Due.kind = "layer"
      BY <1>1, <1>4, <3>1, NoticesFor
    <3>2. CASE Due.kind = "stage" /\ ~(Round.serial > heard[Due.to])
      <4>. SUFFICES ASSUME Due.to = g  PROVE FALSE
        OBVIOUS
      <4>1. g \in stages /\ Round.serial # 0
        BY <1>1, <1>4, <3>2, NoticesFor
      <4>2. heard[g] < Round.serial
        BY <2>1, <4>1 DEF Expects
      <4>3. heard[g] \in Nat
        BY <1>4, <4>1
      <4>. QED  BY <1>3, <3>2, <4>2, <4>3
    <3>. QED  BY <1>8, <3>1, <3>2
  <2>2. ASSUME NEW g \in Followers, Expects(g, Round)  PROVE Expects(g, r)'
    BY <1>6, <1>8, <2>1, <2>2
  <2>3. ASSUME NEW g \in Followers, NEW i \in DOMAIN rounds, i # Top, Expects(g, rounds[i])
        PROVE  Expects(g, rounds[i])'
    BY <1>7, <1>8, <2>3
  <2>4. Owes(r)
    BY <1>3, <1>8, <2>2, <2>3 DEF Owes
  <2>5. /\ serial' \in Nat /\ serial' >= serial /\ r.serial <= serial'
        /\ \A s \in Stages : heard'[s] \in Nat /\ heard'[s] >= heard[s] /\ heard'[s] <= serial'
    BY <1>1, <1>2, <1>3, <1>4, <1>8 DEF NumbersFit
  <2>. QED  BY <1>1, <2>4, <2>5, SendsKeeps
<1>9. CASE Hears(Due.to)
  <2>0. PICK f : f = Due.to
    OBVIOUS
  <2>1. /\ mirror' = [mirror EXCEPT ![f] = Reread(mirror[f])]
        /\ \/ Due.kind = "all" /\ UNCHANGED << heard, missed >>
           \/ /\ Due.kind = "stage" /\ Round.serial > heard[f]
              /\ heard' = [heard EXCEPT ![f] = Round.serial]
              /\ missed' = (missed \cup Overtaken(f)) \ ToldOf(f, Round)
    BY <1>9, <2>0 DEF Hears
  <2>2. \A g \in stages : g # f => heard'[g] = heard[g]
    BY <1>4, <2>1
  <2>3. \A g \in Followers : g # f => mirror'[g] = mirror[g]
    BY <1>4, <2>1
  <2>4. ASSUME NEW l \in live, NEW p \in Paths, f \in Followers, mirror'[f][l][p] # spec[l][p]
        PROVE  ~Covers(ListOf(Round.changes, l), p) /\ mirror'[f][l][p] = mirror[f][l][p]
    <3>1. mirror'[f] = Reread(mirror[f]) /\ l \in Layers
      BY <1>4, <2>1, <2>4
    <3>2. mirror'[f][l][p] = IF l \in live /\ Covers(ListOf(Round.changes, l), p)
                             THEN spec[l][p] ELSE mirror[f][l][p]
      BY <3>1 DEF Reread
    <3>. QED  BY <2>4, <3>2
  <2>5. ASSUME NEW g \in Followers, NEW l \in live, NEW p \in Paths,
               mirror'[g][l][p] # spec[l][p], << g, l, p >> \notin missed'
        PROVE  /\ << g, l, p >> \notin missed
               /\ g = f /\ Due.kind = "stage" => << g, l, p >> \notin Overtaken(f)
    <3>1. CASE Due.kind = "all"
      BY <2>1, <2>5, <3>1
    <3>2. CASE Due.kind = "stage"
      <4>1. missed' = (missed \cup Overtaken(f)) \ ToldOf(f, Round)
        BY <2>1, <3>2
      <4>2. << g, l, p >> \notin ToldOf(f, Round)
        <5>1. CASE g = f
          BY <2>4, <2>5, <5>1 DEF ToldOf
        <5>2. CASE g # f
          BY <5>2 DEF ToldOf
        <5>. QED  BY <5>1, <5>2
      <4>. QED  BY <2>5, <4>1, <4>2
    <3>. QED  BY <2>1, <3>1, <3>2
  <2>6. ASSUME NEW l \in live, NEW p \in Paths, f \in Followers,
               mirror'[f][l][p] # spec[l][p], << f, l, p >> \notin missed',
               NEW i \in DOMAIN rounds, i # Top, Expects(f, rounds[i]),
               Covers(ListOf(rounds[i].changes, l), p)
        PROVE  Expects(f, rounds[i])'
    <3>1. CASE Due.kind = "all"
      BY <1>7, <2>1, <2>6, <3>1
    <3>2. CASE Due.kind = "stage"
      <4>1. i < Top
        BY <1>2, <2>6, TopMeans
      <4>2. f \in stages /\ l \in Layers
        BY <1>1, <1>4, <2>0, <3>2, NoticesFor
      <4>3. << f, l, p >> \notin Overtaken(f)
        BY <2>5, <2>6, <3>2
      <4>4. << f, l, p >> \in ToldOf(f, rounds[i])
        BY <2>6, <4>2 DEF ToldOf
      <4>5. ~(Awaits(f, rounds[i]) /\ rounds[i].serial > heard[f])
        BY <4>1, <4>3, <4>4 DEF Overtaken
      <4>6. rounds[i].serial \in Nat /\ heard[f] \in Nat
        BY <1>2, <1>4, <4>2, TopMeans DEF RoundsSent
      <4>7. rounds[i].serial = 0
        BY <2>6, <4>2, <4>5, <4>6 DEF Expects
      <4>. QED  BY <1>7, <2>6, <4>7
    <3>. QED  BY <2>1, <3>1, <3>2
  <2>7. ASSUME NEW g \in Followers, NEW l \in live, NEW p \in Paths,
               mirror'[g][l][p] # spec[l][p], << g, l, p >> \notin missed'
        PROVE  /\ mirror[g][l][p] # spec[l][p] /\ << g, l, p >> \notin missed
               /\ Expects(g, Round) /\ Covers(ListOf(Round.changes, l), p) =>
                    Expects(g, r)' /\ r.changes = Round.changes
               /\ \A i \in DOMAIN rounds :
                    i # Top /\ Expects(g, rounds[i])
                            /\ Covers(ListOf(rounds[i].changes, l), p)
                      => Expects(g, rounds[i])'
    <3>1. << g, l, p >> \notin missed
      BY <2>5, <2>7
    <3>2. CASE g = f
      <4>1. ~Covers(ListOf(Round.changes, l), p) /\ mirror[g][l][p] # spec[l][p]
        BY <2>4, <2>7, <3>2
      <4>2. \A i \in DOMAIN rounds :
              i # Top /\ Expects(g, rounds[i]) /\ Covers(ListOf(rounds[i].changes, l), p)
                => Expects(g, rounds[i])'
        BY <2>6, <2>7, <3>2
      <4>. QED  BY <3>1, <4>1, <4>2
    <3>3. CASE g # f
      <4>1. Expects(g, Round) => Expects(g, r)'
        BY <1>6, <2>0, <2>2, <3>3
      <4>2. \A i \in DOMAIN rounds : i # Top /\ Expects(g, rounds[i]) => Expects(g, rounds[i])'
        BY <1>7, <2>2, <3>3
      <4>. QED  BY <1>3, <2>3, <2>7, <3>1, <3>3, <4>1, <4>2
    <3>. QED  BY <3>2, <3>3
  <2>8. Owes(r)
    BY <2>7 DEF Owes
  <2>9. \A s \in Stages : heard'[s] \in Nat /\ heard'[s] >= heard[s] /\ heard'[s] <= serial
    <3>1. Round.serial <= serial
      BY <1>2, <1>4 DEF NumbersFit
    <3>2. ASSUME NEW s \in Stages
          PROVE  heard'[s] \in Nat /\ heard'[s] >= heard[s] /\ heard'[s] <= serial
      <4>1. heard[s] \in Nat /\ heard[s] <= serial
        BY <1>4 DEF NumbersFit
      <4>2. heard'[s] = heard[s] \/ (heard'[s] = Round.serial /\ Round.serial > heard[s])
        BY <1>4, <2>1
      <4>. QED  BY <1>3, <3>1, <4>1, <4>2
    <3>. QED  BY <3>2
  <2>10. /\ serial' \in Nat /\ serial' >= serial /\ r.serial <= serial' /\ serial' = serial
    BY <1>1, <1>2, <1>3, <1>4 DEF NumbersFit
  <2>. QED  BY <1>1, <2>8, <2>9, <2>10, SendsKeeps
<1>. QED  BY <1>1, <1>8, <1>9

(* Every step keeps FollowFits.                                            *)
LEMMA FollowFitsStays ==
    ASSUME StateFits, FollowFits, [ManagerNext]_managerVars,
           "stomps" \notin Careless
    PROVE  FollowFits'
<1>1. CASE OpenBlock
  BY <1>1, OpenBlockKeeps
<1>2. CASE CloseBlock
  BY <1>2, CloseBlockFits, EditKeeps
<1>3. ASSUME NEW l \in Layers, NEW p \in Paths, NEW v \in Values, Create(l, p, v) \/ Set(l, p, v)
      PROVE  FollowFits'
  BY <1>3, CreateFits, SetFits, EditKeeps
<1>4. ASSUME NEW l \in Layers, NEW p \in Paths, Delete(l, p) \/ Schedule(l, p)
      PROVE  FollowFits'
  BY <1>4, DeleteFits, ScheduleFits, EditKeeps
<1>5. ASSUME NEW l \in Layers, NEW p \in Paths, NEW q \in Paths, Move(l, p, q)
      PROVE  FollowFits'
  BY <1>5, MoveFits, EditKeeps
<1>6. ASSUME NEW l \in Layers, DestroyLayer(l)
      PROVE  FollowFits'
  BY <1>6, DestroyFits, LiveKeeps
<1>7. CASE TakeNumber
  BY <1>7, TakeNumberKeeps
<1>8. CASE Deliver
  BY <1>8, DeliverKeeps
<1>9. CASE ReturnFromListener
  BY <1>9, ReturnKeeps
<1>10. CASE EndRound
  BY <1>10, EndRoundKeeps
<1>11. CASE UNCHANGED managerVars
  BY <1>11, StutterFits, LiveKeeps
<1>. QED  BY <1>1, <1>2, <1>3, <1>4, <1>5, <1>6, <1>7, <1>8, <1>9, <1>10, <1>11 DEF ManagerNext

(* MirrorsFollow holds: what a listener or a stage does not know of a live *)
(* layer is in a list not yet sent, or in a round that it is still to hear,*)
(* whenever listeners edit; but for what a stage refuses, which is told in *)
(* rounds that it has to hear after a later one (stage.cpp:4450).          *)
THEOREM MirrorsFollowLayers ==
    ASSUME "stomps" \notin Careless
    PROVE  ManagerSpec => []MirrorsFollow
<1>1. ManagerInit => StateFits /\ FollowFits
  BY StateFitsAtFirst, FollowFitsAtFirst
<1>2. (StateFits /\ FollowFits) /\ [ManagerNext]_managerVars => (StateFits /\ FollowFits)'
  BY StateFitsStays, FollowFitsStays
<1>3. StateFits /\ FollowFits => MirrorsFollow
  <2>. SUFFICES ASSUME StateFits, FollowFits, NEW f \in Followers, NEW l \in live, NEW p \in Paths,
                       mirror[f][l][p] # spec[l][p], << f, l, p >> \notin missed
                PROVE  StillToHear(f, l, p)
    BY DEF MirrorsFollow, FollowBut
  <2>1. LayersFit(spec) /\ ChangesFit(spec, changes) /\ l \in Layers
    BY DEF StateFits
  <2>2. CASE mirror[f][l][p] # Was(spec, changes, l)[p]
    BY <2>2 DEF FollowFits, AllComes, Coming, Expects, StillToHear
  <2>3. CASE mirror[f][l][p] = Was(spec, changes, l)[p]
    <3>1. Fine(Was(spec, changes, l), spec[l], ListOf(changes, l))
      BY <2>1, ListOfFine
    <3>2. Covers(ListOf(changes, l), p)
      BY <2>3, <3>1, FineCovers
    <3>. QED  BY <3>2 DEF StillToHear
  <2>. QED  BY <2>2, <2>3
<1>. QED  BY <1>1, <1>2, <1>3, PTL DEF ManagerSpec
=============================================================================
