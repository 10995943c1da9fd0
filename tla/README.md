# A verification project for OpenUSD

TLA+ modules that model concurrent protocols and state machines of OpenUSD, TLC
configurations that check them on small instances, and TLAPS proofs of the
properties that matter most for every instance. Paths are relative to `src/`;
`tf` stands for `pxr/base/tf`, `sdf`, `pcp` and `usd` for `pxr/usd/sdf` etc.,
`hd` for `pxr/imaging/hd`.

## 1. The system

OpenUSD is a library: its state lives in process-wide registries, shared by the
threads that call it, and in stages, layers and render delegates that their
clients use by contract from one thread at a time or concurrently for reading.

| Component | State | Operations | Talks to | What is hard | What makes it correct |
|---|---|---|---|---|---|
| `TfSpinRWMutex` | one atomic word | acquire, try, release, upgrade, downgrade | used by `TfBigRWMutex`, Exec, Hydra | optimistic readers, relaxed waiting, upgrades | exclusion, exact word, drain ends |
| `TfBigRWMutex` | a flag and 16 words | read, staged write, upgrade | schema and plugin look-ups | overlapping old and new writer | exclusion, exact words, writers get in |
| Layer registry (`sdf/layerRegistry`, `layer.cpp`) | three weak indexes, a queuing RW mutex, per-layer initialization flags | find, open, create, rename, refresh, destroy | `ArResolver`, file formats, `TfRefPtr` | expiring entries, lock upgrades, moving assets, failed reads | one layer per asset, complete initialization, no stale entry, calls return |
| `SdfLayer` contents | specs, fields, identities, a state delegate | create, set, delete, move, save, reload, transfer | change manager | undo, inert specs that go by themselves | change lists describe the edit, cleaning up takes only inert specs |
| `Sdf_ChangeManager` | per-thread change lists, outermost block, pending removals | open/close block, record, send | `TfNotice`, Pcp, UsdStage | edits merged into one list, listeners that edit, rounds inside rounds | whatever a listener does not know is on its way to it |
| `SdfPath` nodes | sharded tables, counts, token table, pool | find/create, copy, drop, string | every library | dying nodes still in the table, reuse of addresses | uniqueness, exact counts, nothing freed in use |
| `TfRefPtr`/`TfWeakPtr` | counters whose sign asks for a listener, remnants | add, remove, promote | everything | relaxed and locked updates mixed | no resurrection, exact count, every change between 1 and 2 heard |
| `TfNotice` | listener lists per type, user count, dead entries | register, send, revoke, revoke and wait | Sdf, Usd, Hydra | revocation during delivery, handlers that call back or throw | nobody revoked is called, nothing in use is freed, revoking ends |
| `Pcp_LayerStackRegistry`, `PcpChanges` | layer stacks | compute, invalidate | Sdf, UsdStage | duplicate computation outside of the lock | one stack per identifier, invalidation covers |
| `PcpCache` | prim indexes, dependencies, a publishing queue | compute in parallel, blow | Work, UsdStage | tasks that use the indexes others are publishing | nothing replaced or freed in use, every call complete |
| `UsdStageLoadRules`, stage working set | load rules, composed payloads | load, unload, set rules, recompose | Pcp | rules above and below a path, minimal recomposition | rules and composition agree |
| `Usd_InstanceCache` | instance keys, prototypes and their sources | register, unregister, process | UsdStage, PcpCache | sources that go, nested instances, rounds that cause rounds | prims and prototypes show what the scene asks for, from current indexes |
| `UsdStageCache` | stages, pending requests; contexts per thread | open, insert, erase, clear, swap, assign | UsdStage | mailboxes of concurrent requests, several caches | one stage per request, waiters are answered, pending requests are live |
| `HdRenderThread` | requested state, atomics, a condition variable | start, stop, pause, query | render delegates (hdEmbree) | stops that race with the end of a render | edits exclude rendering, no lost start |
| Hydra change tracker, registries, scene indexes | dirty bits, versions, shared instances | mark, clean, sync, collect | render delegates | versions that skip work | nothing dirty is skipped |
| Work | TBB arenas, singular task count | run, wait, wake | Sdf, Usd, Pcp, Exec | wake-up against finish | no lost wake-up, one run at a time |
| Crate output (`sdf/crateFile.cpp`) | a buffer, free buffers, a queue of writes | write, seek, flush | a singular task | overlapping writes, buffers that run out | the file holds what was written |
| Exec (`vdf`, `ef`, `exec`) | networks, schedules, task counters | compile, evaluate, invalidate | Usd | parallel task claiming | each task once |
| Plug, Trace, Ar, Vt, Hgi, file formats, schemas, bindings, tools | | | | I/O, drivers, generated or bulk-data code | |

Every component, modelled or not and why, is a row of `components` in
`PROJECT.json`; the places where it can go wrong, at their lines, are its
`hazards`, each with the properties that watch it.

## 2. Modules

| Module | Models |
|---|---|
| `RWLock` | the abstract reader/writer lock: what both mutexes promise |
| `SpinRWMutex` | `tf/spinRWMutex.{h,cpp}`, one action per atomic operation |
| `SpinRWMutexOrder` | the same steps with the memory orders they name |
| `BigRWMutex` | `tf/bigRWMutex.{h,cpp}`, with the staged acquire of the spin mutex |
| `RWMutexes_proofs` | proofs about `SpinRWMutex`, on top of them `SpinRWMutexOrder`, and `BigRWMutex` |
| `SdfLayerRegistry` | `sdf/layerRegistry.*` and the parts of `sdf/layer.cpp` that find, open, create, rename and destroy layers |
| `SdfLayer_proofs` | proofs about `SdfLayerRegistry`, and about `SdfChangeManager` with its lists |
| `SdfPathNode` | the prim nodes of `sdf/pathNode.*`, with handles and pool |
| `HdRenderThread` | `hd/renderThread.*`, its render callback and its clients |
| `HdRenderThread_proofs` | proofs about `HdRenderThread` |
| `UsdStageLoadRules` | `usd/stageLoadRules.*` as operators |
| `UsdStageWorkingSet` | `UsdStage::Load`, `Unload`, `LoadAndUnload`, `SetLoadRules`, subtree recomposition, instance key rules |
| `UsdStageCache` | `UsdStage::Open` through `usd/stageCache.*` and `usd/stageCacheContext.*` |
| `UsdStage_proofs` | proofs about `UsdStageCache`, about `UsdStageWorkingSet` with its rules, and about `UsdInstanceCache` |
| `TfNoticeRegistry` | `tf/noticeRegistry.*`, the deliverers of `tf/notice.h` |
| `RefCounted` | the abstract counted object: what `TfRefPtr` promises |
| `TfRefPtr` | the counter of `tf/refPtr.*`, `tf/refBase.h`, Python ownership in `tf/pyIdentity.*`, promotion in `tf/weakPtr.h` |
| `Tf_proofs` | proofs about `TfRefPtr` and about `TfNoticeRegistry` |
| `WorkSingularTask` | `pxr/base/work/singularTask.h` |
| `WorkSingularTask_proofs` | proofs about `WorkSingularTask` |
| `CrateBufferedOutput` | `CrateFile::_BufferedOutput` in `sdf/crateFile.cpp`, composed with `WorkSingularTask` |
| `Sdf_proofs` | proofs about `CrateBufferedOutput`, with those about `WorkSingularTask`, and about `SdfPathNode` |
| `SdfChangeList` | `sdf/changeList.*` as operators on sequences of entries |
| `SdfChangeManager` | `sdf/changeManager.*`, the edits of `sdf/layer.cpp`, listeners and the stage's listener; composed with `SdfChangeList` |
| `PcpParallelIndexer` | `PcpCache::_ParallelIndexer` and the blowing of indexes in `pcp/cache.cpp` |
| `PcpParallelIndexer_proofs` | proofs about `PcpParallelIndexer` |
| `UsdInstanceCache` | `usd/instanceCache.*` and the recomposition of a stage (`_Recompose`, `_RecomposePrims` in `usd/stage.cpp`) |
| `MC<module>` | the small instances TLC checks; `MCRWMutexes` has both mutexes |

Each component module also defines a few faulty forms of its own operators
(`...Blindly`, `...Forgotten`, `...NoRetry`, `FoundAny`, and the like), next to
the operator they vary. No specification uses them: they are there to see that
each property fails when the code is wrong in the way it watches for. The pairs
are the `mutants` of `PROJECT.json`.

### 2.1 Reader/writer mutexes

`SpinRWMutex`: `lockState` is `_lockState`; bit 0 is the flag, a reader counts
`OneReader` = 2. `pc[t]` is the place of a thread between two atomic operations
(`"readUndo"`: it has seen the flag and still has to take its reader back;
`"drain"`: it owns the flag and waits for readers; `"upFlagged"`, `"upDrain"`,
`"upWait"`, `"upTry"`: the four places of an upgrade). `fetch_add`, `fetch_or`
and `fetch_and` return the old value, and the next place depends on it. A
wait loop is an action enabled when its poll would succeed. `Calls` restricts
what the clients of an instance do. `"read"` and `"write"` are the acquired
states of `ScopedLock`; a thread releases from them when it likes.

`SpinRWMutexOrder` conjoins to each step the effect of its memory order on what
is ordered before what. `unseen[t]` are the accesses of other threads not
ordered before `t`; `unreleased` those that an acquire would not order. Every
write to the word is a read-modify-write, so release sequences never break and
one set suffices.

`BigRWMutex` has the flag, `NumStates` words and per writer the stage of each
word. A step of the staged acquire is one call of `_StagedAcquireWriteStep`;
the releasing writer lowers the flag and then lets go of the words one by one.

### 2.2 Layer registry

`registry` holds the three indexes as sets of pairs. A layer is `"unborn"`,
`"live"`, `"dying"` (its last reference is gone and the destructor has not run)
or `"dead"`; `init` is its two initialization fields. `held[t]` are the layers
a thread's callers hold, `cur[t]` the one a running call references. The
mutex is external: `queue` serves in arrival order and lets neighbouring
readers in together, and an upgrade takes either of the two outcomes
`upgrade_to_writer` may have. The resolver is external: `ResolverChanges`
moves it to any of `Resolutions` between any two steps.

`TryToFindLayer` with its `retry` label is three actions: the look-up, the
upgrade (atomic or releasing), and the second look. `Open`, `OpenUnlocks` and
`ReadLayer` are `_OpenLayerAndUnlockRegistry`: construct and register under the
lock, release, read and finish. `Destroy` is `~SdfLayer` at the moment it
gets the mutex.

A renaming (`SetIdentifier`, `UpdateAssetInfo`) swaps the asset info
(`SwapAssetInfo`) and then updates the three indexes, each erasure and each
insertion an action, since `SetIdentifier` holds no mutex while it does so if it
found a layer. `oldInfo[t]` and `newAliases[t]` are the locals of the update.
`clashed` is history: the layers that two threads renamed at once. `Insert` and
`Erase` are called with the mutex held for writing and are one step each; another
thread's update without the mutex sees the indexes before or after. What
unlocked accesses to `unordered_map` and to `_assetInfo` may do besides is
undefined (they are data races); here each is taken to happen at once, the
mildest of the outcomes.

### 2.3 Path nodes

`Nodes` are the elements of the pool, so addresses are reused. A thread whose
release takes the count to zero destroys the node in four steps: table
removal (`Remove`), token removal, drop of the parent (which may push the
parent on the thread's `dying` stack), and the return of the memory. `Find`
is the table look-up with its count increment under the shard lock, where a
count found at zero makes it install a new node.

### 2.4 Render thread

`rt` is where the render loop is, `pc[h]` where each Hydra thread is. `mutex`
says who holds `_requestedStateMutex` between two steps: only the render loop
does, for as long as the callback runs. The callback is any loop over
`IsPauseRequested`, `IsPauseDirty`, `IsStopRequested` and work, which may return
at any time after it started and returns when told to stop, as hdEmbree's does.
Clients keep the header's contract (class documentation, `hd/renderThread.h`):
one thread starts renders and manages the thread, any may stop and edit.

### 2.5 Load rules and working set

The vector of rules, sorted by path with one rule per path, is a function from
ruled paths to rules. A path is a sequence of names. `included` is
`PcpCache::_includedPayloads`. `Recomposed` is the recomposition of subtrees:
the prims there that are on the stage ask the rules about their payload, top
down; a prim that is no longer there keeps its entry, as the cache does.
A call that returns early, since the rules already say what it asks for, is a step
too; `RulesAfter` is the rules that a call leaves. `Source` fixes which payload brings which prim, so that scenes with nested
payloads and scenes with all prims in local layers are both covered (run
`Load` has the former, `LoadSaid` the latter; the proofs hold for both).

### 2.6 Stage cache

An open is one call of `UsdStage::Open` with the stack of cache contexts of its
thread, `Stack[o]`, and the session layer it wants, `Want[o]`. The request object
it makes for the cache `c` is `<<o, c>>`: it lives on the stack of the call, and
caches and mailboxes point to it. `RequestStage` is one critical section with three
outcomes: take a stage that is there (`TakeCached`), subscribe to a pending
request (`Subscribe`), or become pending (`BecomePending`) and then, without
the lock, look in the next cache or manufacture. `Publish` puts a new
stage into the writable caches one after the other, as `_InstantiateStage` does;
`Deliver` sends it to the mailboxes and takes the request off the pending list.
Clients insert, erase, clear, swap and assign at any time, as the class
documentation allows (`usd/stageCache.h:38`), with pending requests in the caches.

A swap or an assignment puts these into the list of another cache, where
`RequestStage` does not look for it when it is done; and a manufacture that
throws leaves its request in the list. `strays` is history: the requests of which
such a pointer may stay behind. `RequestStage` may come across one that is gone; what
that does is undefined, and here it subscribes to it or passes it by.

### 2.7 Notices

`lists` are the deliverer lists, `Chain` those one send walks. A thread has a
stack of calls, since handlers send, register and revoke. A send
counts itself as a user, takes the head of a list under the list's lock, and
walks it without one; `Enter` is `_SendToListener`'s increment of `_busy`,
which also tells it the wait bit. `RevokeNow` and `RevokeLater` are the two
branches of `_Revoke`. `quiet` is history: the deliverers for which
`RevokeAndWait` has returned. Clients revoke a key from one thread at a time.

### 2.8 Reference counts

Every load and every compare-exchange of the counter is an action; a `weak`
compare-exchange may fail at any time. A negative count means that a listener
is told when the count goes between one and two. The listener is Python's: it
acquires and releases the Python object that owns the pointer `Owner`, under
the interpreter lock `gil`. Taking and giving up ownership turns the sign around
(`Flip`), under that lock alone: other pointers may have looked at the sign and
not yet changed the count by it. These are `late`; once one of them has made its
change, the count is `astray` (both are history).

### 2.9 Singular tasks and crate output

`WorkSingularTask` has the places of a waker between `++_count` and the call of
the dispatcher, and of a run between its look at the count, its calls and its
compare-exchange. `due` is history: wake-ups no call has answered yet.
`CrateBufferedOutput` instantiates it with the writer as the only waker. Bytes are
the numbers of the calls that wrote them, `image` is the file as the program
wrote it, `disk` what has been written. `Flush` and a lack of buffers wait
for the dispatcher, that is for every run to be over.

### 2.10 Edits, change blocks and rounds

A layer is a function from paths of prims to what the spec holds: `Bare` is an
over without fields, which is inert if it has no children. Each edit gives the new
content and the new change list, and opens a block of its own; if that is the
outermost, its round is sent at once. `rounds` is the stack of rounds being
sent: `Deliver` hands the next notice to its listener, which then may edit
(beginning a round inside this one) until `ReturnFromListener`. `Reread` is what a listener
does with a round: it looks again at whatever the lists cover, where `Covers`
is Pcp's reading of the flags (`pcp/changes.cpp`). `mirror` is what each listener
then knows. A stage hears the notices sent per layer, takes the first of a round
and refuses rounds with a smaller serial number than the last it saw.
`removals` are pending removals of inert specs, by identity: moves carry
identities along.

Listeners edit at any time, also when a stage has still to hear the round. Then
it hears the inner round first and refuses the outer one; `missed` is history:
what a stage has so refused to hear of, and has not heard of again.

`Careless` is what client code does that not everything survives: `"stomps"`, a rename onto a path whose deleted spec still has an
identity in the pending removals; `"destroys"`, a layer goes while it has
pending removals or its round is being sent.

### 2.11 Parallel indexing

A task is a path and the root it descends from; `entry` is the `SdfPathTable`
with its invalid entries (`valid` are the others), and a node is the memory of
one index, so that a pointer to the parent's can be seen to outlive it. Between
two actions of a task lies what another thread can tell apart: the look into
the cache, the computing, the push, the relaxed load and the compare-exchange
of `_isPublishing`, the insertion, the adding of dependencies, the record of
instanceability with the start of the children. `Begin` is
`_ComputePrimIndexesInParallel` up to `Wait`, for any roots that are pairwise
disjoint (any at all with `Overlapping`) and cover what was blown, as a stage
asks; and for any children predicate.

### 2.12 Instances and recomposition

The scene is `kids`: what children a prim of each kind has. A change of it
concerns every path whose index is of that kind (`Sites`), as a change of a
referenced prim does, and marks it as changed significantly (`Edit`) or as a
prim to compute again (`Touch`). Several edits may be processed together.
`Recompose` is `_Recompose` to the call of the indexer, whose tasks are
`Compute`, in any order that has parents before children; `ProcessChanges` is the
function of that name with the recursion of `_ComposePrimIndexesInParallel`;
`RecomposePrims` is the rest. Prototypes are named by their key and a number
that is never used again, which makes the inverse maps of the code functions of
the others. The prims of the stage and of the prototypes are `primIndex`, each
with the path of the index it points to; `stale` tells a pointer to an index
that has been computed again since.

`Subtree` is `_ComposeSubtree`: the paths below the one of the topmost prim that the
indexes have all the way down, as long as the way does not lead through an instance.
It is stated by paths of indexes, of which the prims are those that have the same
names below the topmost one.

Two bounds make the scene finite. `ScenePaths` is a finite set of paths, with the
parents of each. And no prim brings its own kind below it
(`AcyclicAssumption`): a prim that did would have to reference an ancestor of
itself, which composition reports (`PcpErrorArcCycle`) and leaves out.

`PcpParallelIndexer` is the composition that this module makes one task an
action: it requires roots that are `Disjoint`, which `RootsDisjoint` shows of
this caller, and provides that each index is computed once and is there when
the call returns.

## 3. Runs

Every run of `PROJECT.json` passes:

| Run | Instance | Shows |
|---|---|---|
| `Mutexes` | 3 threads; the spin mutex with all 7 operations and its memory orders, or the big mutex with 3 states; fairness | sections see earlier writes, both mutexes refine `RWLock`, the big one with two writers overlapping; undisturbed, drains end; who waits for the big mutex gets in |
| `Registry` | 2 threads, 2 layers, 2 identifiers, one the repository path of the other; an asset that moves onto another's place; all calls; reads that fail or throw; updates of the indexes that interleave | what callers hold is initialized, the registry is exact (entries of live layers are current or about to be taken out, a real path names one layer), handles are protected |
| `Render` | 3 Hydra threads, spurious wake-ups | edits exclude rendering, stops reach the right render, started renders run, stops return |
| `PathNodes` | 3 threads, 4 nodes, chains of 3 | uniqueness, current strings |
| `Load` | a chain of three payloads, each brought by the last, and a sibling | queries exact, relative rules faithful, recomposition finds every payload the rules load; what loads and unloads do to the rules, those that return early too |
| `StageCache` | 3 opens: through two caches, through one of them, and through that one with the other read only behind a block of population; two wants; manufactures fail or throw; a client with every call at any time, one eviction | pointers to requests are live but to strays, one stage per request, every open returns that does not wait for a stray |
| `Notice` | 2 threads, 2 deliverers in 2 lists, calls within handlers, expiry, exceptions | who was revoked and waited for stays quiet, nothing in use is freed, revoking ends |
| `RefPtr` | 3 pointers and Python's, the sign flipping at any time | until somebody late has counted: the listener knows who owns, refinement of `RefCounted` |
| `Crate` | a file of 4 bytes, 3 buffers of 3, 5 calls, 2 runs | no byte is lost or overtaken, every wake is answered, every call returns |
| `Changes` | one layer with 4 edits or two with 3, a listener that edits at any time, perhaps a stage, 2 rounds | mirrors follow in all that stages do not refuse, old and new values exact, cleaning up removes only what is inert |
| `Indexer` | a tree of 4 paths, 3 calls, indexes blown in between | no index is replaced, no parent's index freed in use, ancestors' instanceability told right, every call complete |
| `Instances` | up to 3 prims on the stage, 2 instanceable kinds, one nested in the other, 3 edits in any batches | composition is asked for disjoint roots, and after each round registered instances, prims and indexes are exactly those of the scene |

A behaviour of `MCRWMutexes` uses one of the two mutexes, which share nothing:
either moves only while the other is as constructed, so that the states are
those of the two systems side by side.

The type invariants (`TypeOK`) and further statements beside these hold in the
same instances when they are added to a configuration, and are left out because
they are plainer than the properties and refinements above, or follow from
them: `MutualExclusion`, `LockWordExact`, `FlagBarsReaders`,
`ContendedUpgradeStandoff` (the last four are proved), `StatesExact` (proved too),
`StagingEnds`, `OneLayerPerIdentifier` (in `RegLive`), `LiveLayersStay`,
`RenderingIsRequested`, `HeldNodesLive`, `TableExact` and
`NothingLeaks` (proved), `AnswersSatisfy`, `BooksAreExact`, `HeardOnce`, `CountExact`
(proved), `BuffersExact`, `RunsAlone`, `FlushWritesAll`, `NotifiesOnlyLive`,
`RemovalsAnswer`, `DependenciesExact`, `MapsAgree`. `RegLive.cfg` checks
`CallsReturn` of the layer registry, that every call returns, with three threads on one
asset (without the exceptions and symmetry of `Registry`); it passes too.

### Statements that the code does not keep

Comments and documentation say more than the code does in some places. Each
statement is defined beside the others, and so is how TLC refutes it outside of the regular
runs: a configuration of its own, or a change of a run's configuration.

| Configuration, module | Statement | Said | Done |
|---|---|---|---|
| `MutexesSaid`, `MCRWMutexes` | `ContendedUpgradeReturns` | `tf/spinRWMutex.h:399` "wait for it to clear, then retry" | upgrader and writer wait for each other for ever; `ContendedUpgradeStandoff` is what holds instead, and is proved |
| `MutexesSaid` | `ReadersHappenBeforeWriter` | `tf/spinRWMutex.cpp:56` the last release "pairs with the acquire" after the wait | no acquire follows the relaxed poll (a missing edge in the memory model of C++; on x86 the read-modify-writes around it order the accesses anyway) |
| `RegThrow`, `MCSdfLayerRegistry` | `WaitersReturn` | `sdf/layer.cpp:3586` `_FinishInitialization` is called "with either success or failure" | not when reading throws: waiters spin |
| `Registry` with `OnePath`, `Shared`, `SharedNew`, `NoRepo`, `Reads`, `Renames`, nothing context dependent | `RegistryChangedUnderLock` | `sdf/layer.cpp:2781` "We should have acquired a write lock" | the mutex was released when a layer was found |
| `Registry` with `RenamesLeaveOwnNames` | `RenamesLeaveOwnNames` | the same comment: "so it's safe to call `_InitializeFromIdentifier`" | two threads that rename one layer outside of the mutex leave it under a name it no longer has, with nobody left to take it out |
| `RegVerify`, `MCSdfLayerRegistry` | `OpenedIsFound` | `sdf/layer.cpp:3580` the layer just opened is found | not if its identifier is taken by a layer whose asset has moved |
| `Registry` with `ThreePaths`, `WanderingBoth`, `NoRepo`, `Reads`, `Updates`, nothing context dependent, without `MovesOnce` | `GetLayersComplete` | `sdf/layerRegistry.h:59` "all valid layers" | those in the real path index alone are missing |
| `RenderSaid`, `MCHdRenderThread` | `PauseChangeIsDirty` | `hd/renderThread.h:241` changes since the last call | a query between the two stores misses one |
| `RenderSaid` | `StoppedThreadIsInitial` | `hd/renderThread.h:166` "back in its initial state" | the state is `Terminated` until the next start |
| `LoadSaid`, `MCUsdStageWorkingSet` | `NoneMeansUnloadedBelow` | `usd/stage.cpp:2564` already in the desired state | something below may be loaded, and `Unload` leaves it |
| `LoadSaid` | `UnloadLeavesNothingBelow` | `usd/stage.h:573` unload "the prim and its descendants" | the call that returns early leaves what is loaded below; `LoadsKeepTheirSide` says when |
| `LoadSaid` | `MinimizeKeepsBehavior`, `EqualKeysLoadAlike` | `usd/stageLoadRules.h:131` "without changing behavior", `usd/stage.cpp:5331` load rules are in instancing keys | an `OnlyRule` below an `OnlyRule` is dropped and its prim unloaded; the minimized rules of two keys may be equal where the rules load differently |
| `LoadSaid` | `LoadLoadsAncestors` (a `PROPERTY`) | `usd/stage.h:562` "its ancestors" are loaded | an ancestor with only an unloaded nearest rule below is not |
| `LoadSaid` | `ComposedPayloadsAreRuled` | `usd/stage.h:631` rules govern payload inclusion | an ancestor's payload stays composed after `Unload` |
| `StageCache`, also with `Outcomes = {"made"}`; for `SwapsEnd` with two `Clients` and `MaxEvictions = 2` | `AllPointersAreLive`, `AllOpensReturn`, `SwapsEnd` | `usd/stageCache.h:38` "all operations other than construction and destruction may be performed concurrently" | a swap or an assignment takes pending requests into another cache's list, where their pointers dangle once they are done, and who subscribes there later may wait for ever; two swaps take the two mutexes in opposite orders. A manufacture that throws leaves its pointer behind too |
| `RefPtr` | `CountAlwaysExact` | `tf/refPtr.h:350` "the reference counts of the underlying objects are always correct" | not if the sign flips (`tf/refBase.h:92`) between another pointer's look at it and its change of the count |
| `ChangesSaid`, `MCSdfChangeManager` | `AllMirrorsFollow` | `sdf/changeManager.cpp:169` "so that notice listeners can safely queue up more changes" | the listener's round is sent inside the one it hears; a stage hears it first, and then refuses the outer round (`usd/stage.cpp:4450`) as a violation of threading rules, on one thread |
| `ChangesSaid` | `RemovalsAnswer` with `"stomps"` or `"destroys"`; `NotifiesOnlyLive` with `"destroys"` | `sdf/changeManager.cpp:170` "should only send notifications for existing layers" | the pending removal names no layer any more and `changeManager.cpp:126` dereferences it; a layer that goes while its round is being sent is still told |
| `Indexer` with `Overlapping = TRUE` | `NothingReplaced` | `pcp/cache.h:312` "Equivalent to invoking that method for each path in \p paths" | with a root below another its index is computed twice, and the second finds the first in its place |

Others show what clients must not do, or what nothing promises. In `StageCache`,
`SameStageForAll` fails with `Stack <- SameCaches` and `Want <- Same` (with two
writable caches, threads with the same contexts may get different stages). In
`Notice`, `NothingFreedInUse` fails with `RevokeExpired = TRUE` (the key of an
expired listener is revoked), and `RevokesReturn` with `WaitInHandlers = TRUE`
(handlers call `RevokeAndWait`).

Where the code does not keep a statement, the properties of the runs still say all that
it does keep: `RegistryExact` excepts `clashed` layers, `PointersAreLive` and
`OpensReturn` except strays and deadlocked swaps, `ListenerKnows`, `CountExact` and
`ImplementsRefCounted` end when the count is `astray`, and `MirrorsFollow` excepts what
is `missed`. Each exception is a history variable that the steps which cause it set, and
no step that may cause it is kept from being taken.

### Bounds, and why they are enough

- Threads. A drain needs a writer, a reader and a late reader; a contended
  upgrade needs the upgrader, the writer it meets and somebody else who waits:
  three. The proofs of section 4 are about any number.
- `BigRWMutex` has 16 states in the code. The loops treat them alike; with three,
  a reader can be at one that is released, one that is being taken and one
  that is still held.
- Layers and identifiers: a layer that dies and its successor, or two layers with
  two names for one place. Objects are not reused once dead, which bounds each
  behaviour to that many constructions; the registry's hazards lie between
  one layer and the next. `MovesOnce` and `ClashesOnce` bound the exploration: the
  asset moves once, and a layer that two threads renamed at once is not renamed
  again, while it goes on being found, dropped and destroyed. The proofs have
  neither bound.
- Paths: `MaxDepth` = 3 lets a destruction cascade through two parents; four
  nodes let a path be created again while its predecessor is still being
  destroyed. `MaxHeld` bounds the paths one thread holds to one node.
- Load rules: a chain of three gives a rule between two others; `D` is a
  sibling, and `Unused` a child of each path that no rule mentions. `MaxSet`
  bounds the paths of one `LoadAndUnload`; with sets of two the reachable
  states are the same.
- Symmetry is used for safety runs only, over threads, layers and nodes.
- Stage cache: three opens give a pending request, a subscriber, and one that
  comes when the first has been delivered; of the two caches one open populates
  both, one populates one, and one only reads the second. `MaxEvictions` bounds how
  often stages are taken out, swaps and assignments included.
- Notices: a sender at a deliverer, and another thread that revokes it, waits,
  or is inside its handler. `MaxDepth` = 2 is a call within a handler.
- Counters: three pointers and Python's make counts up to four; the listener is
  told between one and two. `UntilAstray` stops where somebody has acted on a sign that
  was flipped, after which nothing is said. The proofs are about any number.
- Crate output: with buffers of three bytes and a file of four, writes cross
  the end of a buffer and seeks land inside and outside of it; three buffers run
  out (one being filled, one in the queue, one being written). Two runs, since
  a next one may be spawned while the last returns. Positions wrap nowhere:
  writes past `FileEnd` are not made.
- Edits: `Budget` allows four edits of one layer or three over two, `MaxRounds` = 2
  a round inside another or after it, `MaxClientRounds` those begun outside of
  listeners. A block with an edit, a rename over a removal and one more edit, or
  a removal scheduled and two edits before it is carried out, need no more.
  `Room` gives the first layer a tree of depth two and the second a single path.
- Parallel indexing: a path with a child, a sibling and their common parent give a
  task that publishes for its parent, its child and another; three calls let
  indexes be blown, become invalid entries above valid ones, and be replaced.
- Instances: three prims of one kind let a source move to an instance that
  stays while a third comes or goes; a kind nested in another, once or twice, on
  the stage directly or below a group, gives nested prototypes and sources
  inside of sources. Three edits make a batch of two after a round, or a round
  after a round.
- Deadlock checking is off in `Mutexes`, where upgrades are
  contended (they do stop: see `MutexesSaid`), in `RegThrow` (a thread waits
  for ever), and in those that end by their bounds (`StageCache`, `RefPtr`,
  `Crate`, `Changes`, `Indexer`, `Instances`); everywhere else TLC also shows that the system cannot get stuck.
  In `Registry` the resolver can always take a step; that its calls end is
  the subject of `RegLive.cfg`.

### Fairness

Weak fairness of the steps of a call under way, that is, the scheduler lets a
running thread run, and where a property needs it of releases (a holder does
not keep the lock for ever). Nothing makes a client call, a callback complete,
a paused render resume, or an upgrade atomic. The layer registry's mutex is
served in order by the model of `tbb::queuing_rw_mutex` itself, so weak
fairness of being served is enough. The liveness of the spin mutex has a
condition, `Undisturbed`: clients that poll with `TryAcquireRead` can keep the
count of readers above zero for ever, and a contended upgrade blocks everyone;
the code gives no guarantee against either. The condition variable of the
render thread may wake spuriously, but not for ever, because each wake-up takes
the mutex that a stopping thread competes for. In `StageCache` a manufacture
ends (made, failed or thrown); in `Notice` handlers return: a handler makes no calls for
ever, which is strong fairness of its return; in `Crate` the dispatcher runs what
it was given.

## 4. Proofs

`RWMutexes_proofs` proves about `SpinRWMutex`, for every finite set of threads and
any subset of the operations:

- `SpinInvariant`: `IInv`, the conjunction of `TypeOK`, `LockWordExact` and
  `MutualExclusion`, is inductive. Mutual exclusion alone is not: that a
  write section has nobody else in it follows from the word, and that the word
  tells the truth from its being exact. The count of readers is a cardinality;
  `CountAfterMove` gives what a step does to it, and `MovePreserves` reduces every
  action to one statement: where the thread was counted, where it is counted now, and what
  the word gained.
- `SpinTypeOK`, `SpinMutualExclusion`, `SpinLockWordExact`: its conjuncts.
- `SpinFlagBarsReaders`, `SpinContendedUpgradeStandoff`: action properties from
  `IInv`.
- `SpinImplementsRWLock`: every step maps to a step of `RWLock` or a stutter,
  under the mapping `Mode`.

About `SpinRWMutexOrder` it proves on top of that, since every step with its order is a
step of `SpinRWMutex`, `OrderInvariant` and from it `OrderWritesAreSeen`. The
wait between raising the flag and writing is a relaxed load and orders nothing, so
the strengthening speaks of threads from the operation that lets them in: they
see all writes from then on; a write not
yet released is one whose section goes on; nobody's own accesses are hidden from
it. Its heart is `AdmissionAcquires`: whoever is let in used an operation with
acquire order and met no writer.

About `BigRWMutex` it proves, for every finite set of threads and any positive
number of states, `BigInvariant`, and from it `BigStatesExact` and `BigImplements`.
`StatesExact` is almost inductive (each word is its readers plus the flag of one
owner); the refinement also needs that nobody reads at a state that a writer has
found free of readers, while it still works on others, and that a loop over
the states begins at the first one and leaves no stages behind. A writer has
all states and a reader has one, so the two meet in a word.

`HdRenderThread_proofs` proves for every set of Hydra threads `RenderInvariant`
(`RenderInv` is inductive) and from it `RenderTypeOK`,
`RenderEditsExcludeRendering`, `RenderStopIsMeant` and `RenderFlagIsRequested`.
The strengthening says what the render loop may assume at each of its
places about the requested state and the rendering flag, that a call of the
main thread which needs the others idle has them idle, and that a cleared
`_enableRender` or raised `_stopRequested` is never seen by a render nobody
is stopping.

`Tf_proofs` proves of reference counts, for every finite set of pointers and with the sign
flipped at any time, `RefPtrInvariant` and from it `RefPtrTypeOK`, `RefPtrCountExact`,
`RefPtrListenerKnows` and `RefPtrImplementsRefCounted`, all of them up to the step in
which a pointer that is late changes the count. The count is again a
cardinality of places, up to its sign; the strengthening says of each place of an operation
what its last look at the count still tells about the sign, unless the pointer
is late, that a copy's source is still held, and where the Python object can be. Only a
pointer that looked at the sign before a flip is late; an operation that begins after
one, before anybody late has counted, is right.

Of notices `Tf_proofs` proves, for any finite numbers of threads and deliverers, any
lists and any depth of calls within handlers, under `~RevokeExpired`, `NoticeInvariant`
and from it `RevokeAndWaitSilences` and `NoticeFreesNothingInUse`. `RevokeExpired` must
be false: with it TLC finds a freed deliverer in use (section 3). A call is named by its thread
and its height in the thread's stack, which stay while other calls come and go above it
(`Calling`, `CallAt`); so each step starts, moves or ends one call (`OnlyAt`), and what
it owes to the invariant is said of that call (`CallsMove`).

- `UsersCounted`, `DeliveriesCounted`: `userCount` and `_busy` are the numbers of calls
  that have counted themselves, whatever threw or was called from a handler meanwhile.
- `FrameFits`, `RevokedOnce`: every call is at a live deliverer. What is about to be
  retired is active, and one call is about to retire it. So `_Revoke`, when nobody uses
  the registry, frees what is no one else's, since the only calls left wait for the lock,
  each at a deliverer of its own; and the last send, which frees the marked ones, frees nothing
  such a call is at, because what is marked is not active (`DeliverersFit`). That what a
  send finds next is live too needs the lists to be exact (`ListsExact`).
- `Hushed`: a deliverer of which `RevokeAndWait` is done has its wait bit up and nobody
  at its handler. The bit is raised before `_busy` is looked at, and a
  sender that enters afterwards is told of it by its own increment. A handler counted in
  `_busy` keeps the wait going, however deep it is in its thread's stack.

`WorkSingularTask_proofs` proves for any wakers and runs `SingularInvariant`,
`SingularTypeOK`, `SingularRunsAlone` and `SingularNoWakeLost`: the count is
positive exactly while a run is spawned or under way, and a run that is to
take it to zero has seen every wake-up there was.

`PcpParallelIndexer_proofs` proves for any tree of paths and any number of calls,
under `~Overlapping`, `IndexerInvariant` and from it the four properties of `Indexer`:
`IndexerNothingReplaced`, `IndexerParentsInUseAreLive`,
`IndexerAncestorsAnswerRight` and `IndexerAllPublished`. The argument of the
first: a parent's output is pushed before its children's tasks start and one
publisher at a time empties the queue from its front, so a parent is inserted
before the insertion of a descendant could make an entry in its place
(`QueueOrdered`, `ArrivalIsInTurn`); and a task that skips the cache does so
because there was no entry for it or above it, hence none below
(`CacheClosed`, `NothingThere`). An entry that is not replaced keeps its node,
so what children were given as their parent's index stays alive
(`IndexesCurrent`). That tasks below a root start in order (`StartedInOrder`) and none is
forgotten (`AllStarted`) gives the other two. `~Overlapping` is
needed (see section 3). That the order of
paths is a tree is assumed in the form the proofs use (`TreeAssumption`); for a
finite tree it follows from `PathsAssumption` by an induction the provers cannot do.

About the registry `SdfLayer_proofs` proves, for any threads, any finite set of layers and
any identifiers, paths, resolutions and outcomes of reading, `RegistryInvariant` and
from it `RegistryIsExact`, `RegistryHandsOutInitialized`, `RegistryHandleIsProtected`
and the action property `RegistryLiveLayersStay`. The three invariants are part of
`RegInv`; what they need beside them:

- `MutexKept`: a look-up and an upgrade hold the mutex the code holds there, which
  keeps destructors out between finding a layer and using it;
- `RefsAreLive`: a caller's or a running call's reference is to a live layer, so
  what is registered or renamed under it is not about to be destroyed;
- `DestroyedOnce`: a layer on its way out has one destructor, whose erasure of
  the indexes is its last appearance;
- `OpenedByOne`: one thread constructs and reads a layer, and it is loading until
  that thread says otherwise, so no waiter is woken by another's result;
- `HandlesAreUsed`, `SelfIsHeld`: a handle belongs to an upgrade or a
  destruction, and a layer that is renamed is held by the caller.

Two steps are hard. The erasure of an expiring layer that was found
(`TryToFindLayer`'s second look) takes out the names of the layer that was
found and of no other, since the registry is exact before. And a renaming takes six
steps among those of everybody else: what it has still to take out is
the difference between `oldInfo` and the layer's asset info, which nobody else
changes unless the layer is `clashed`, and the layer lives until the update
ends, since the caller holds it (`UpdatesRight`, `SelfIsHeld`). No theorem assumes
that the mutex is held, nor that renamings come one after the other.

About edits and notices `SdfLayer_proofs` proves, for any finite set of paths closed
under parents, any layers, values and contents, any finite sets of listeners and stages
and any bounds on edits and rounds, `ManagerInvariant` and from it `InfosAreExact`,
`CleanupIsCareful` and `MirrorsFollowLayers`, which are the properties of run `Changes`.

- `Fine(w, c, L)` says that the list `L` is a right account of how a layer that held `w`
  came to hold `c`, and each edit is shown to keep it (`CreateFine`, `SetFine`, `DeleteFine`,
  `MoveFine`). `InfoExact` alone is not inductive: a later edit merges into the entry it
  finds, so the invariant has to speak of all flags and of the old paths too. Whatever has
  gone is told (`GoneAreTold`), also where something else has come since
  (`ReplacedAreTold`); whatever has come is told (`NewAreTold`); of two entries about
  one path the earlier is one of a coming or going (`EarlierMarked`), which is what
  `Apart` keeps; a rename keeps the parent (`RenamesFit`), so what it moved away is
  below the old path; and what is left has its change of info (`InfosFit`).
- `StateFits` is `Fine` for the list of each layer, one list per layer, with types, and that
  nothing waits outside of blocks. The end of a block applies `RemoveIfInert` to the
  pending removals, one after the other, from parent to parent: each of these is an
  induction up to a number, by the least one that would refute it (`UpTo`,
  `Iteration`). They take only what is inert, so `CleanupIsCareful` follows.
- `FollowFits`: what a follower does not know of what a layer was *before the changes
  not yet sent* is in a round it is still to hear. With that form, an edit inside a block
  changes nothing, and a round that is sent owes exactly what it tells. A
  round that a stage is still to hear and will not refuse has a higher number than what it heard last; when
  it hears an inner round, what the outer ones would have told it becomes
  `missed`, and what this one tells is so no longer. No number given out or heard is above the last
  (`NumbersFit`), so a round that is numbered now is refused by nobody.

Of the carelessnesses of section 2.10 `"stomps"` is excluded from all four theorems, since
what happens to a removal without a spec is undefined there (`changeManager.cpp:126`;
section 3). Listeners may edit at any time, and layers may be destroyed at any time.

`Sdf_proofs` proves of the crate output, for any size of the file and the buffers, any
number of buffers and calls and any set of runs, `CrateInvariant` and from it
`CrateNothingLost`, `CrateNoWakeLost`, `CrateRunsAlone`, `CrateBuffersExact`,
`CrateFlushWritesAll` and `CrateImplementsTask` (every step is one of the singular task
or leaves it alone). The heart of `CrateInv` is `AllShown`: at each
place, the youngest of the buffers popped, queued and being filled that covers it,
or the disk if none does, shows what the program wrote. It is kept by the writes to
the disk because the run that writes holds the oldest buffer, which needs that
two runs never write at once (`RunsWrite` and the invariant of
`WorkSingularTask_proofs`); and by the program's writes because a position is in the
buffer or just behind it (`PositionInBuffer`), so that no gap of a buffer hides
what lies below it. `QueueIsServed` makes the queue empty when no run
is left, which is what `Flush` waits for.

Of path nodes `Sdf_proofs` proves, for any finite numbers of threads and nodes, any
names, any depth and any number of paths in hand, `PathNodeInvariant`, and from it
`PathNodesAreUnique`, `PathTokensAreCurrent`, `PathNodesInUseLive`, `PathTableIsExact`
and `PathNodesDoNotLeak`. The inductive invariant `PathNodeInv` counts places:
`RefPlaces(n)` is the set of the paths in hand to `n` and of the children that have
not given their count back.

- `ReferredAreLive` and `LiveAreCounted`: a node with a place is not being destroyed, and
  one that is not has a place, and its count is the number of its places. So the
  thread that takes a count to zero took the last place, and no one else can.
- `EntriesAreExact`: an entry shows a node under its own key that is not freed, and one
  that is being destroyed only with the count zero. The count of such a node does
  go up again: `_FindOrCreate` adds one before it looks. But it then replaces the
  entry in the same critical section, so nobody finds the node a second time.
- `PathsAreUnique` is inductive with these. A node that is created stands for its
  parent's path and a name; another for the same path has a parent for the
  same path, which is the same node, as both are alive; so it is in the table
  under this key, and would have been found.
- `TokensMatch`: a string is dropped before the memory is freed, which is before it is
  used again; and none is made for a node that is being destroyed.

That nothing leaks is not an invariant of one step: if no path is left, each node
is there for a child, and one with the longest path has none. This is where the
bound on the depth is used (`SomeLongest`, from the well-foundedness of inclusion).

`UsdStage_proofs` proves, for any opens, caches, clients, stacks of contexts and
session layers, `StageCacheInvariant` and from it:

- `StageCachePointersAreLive`, without a hypothesis on the constants: manufactures may throw,
  and caches are swapped and assigned at any time. The
  strengthening: a request that is no stray is pending once and in the cache it was made for
  (`PendingExact`), so that what `Deliver` removes is gone; a mailbox is with one
  request, live or a stray (`SubscribedExact`), so that a delivery answers it for good and
  no mailbox is left behind; and an open is at one of its writable caches (`Placed`).
- `StageCacheCreatedOnce`, without a hypothesis on the constants: while nothing was
  evicted and nothing failed, whoever manufactures can be found, as a pending
  request until its stage is in the cache and as a stage from then on
  (`MakersAreFound`); and since becoming pending looks for both in the critical
  section, there is one maker for a cache and a session layer (`OneMaker`).
  A swap or assignment counts as an eviction, as it may take stages out, so that
  without evictions there are no strays (`ClientsCount`).

The caches of a stack of contexts are computed by a recursive function. That its
values are sequences of caches is proved without an induction theorem, by
the least argument that would refute it (`Least`, from the well-foundedness of `<`).

About the working set `UsdStage_proofs` proves, for any scene (`Paths` closed under
parents, with or without payloads, brought by whatever is above them), any load
rules and any sets of paths loaded and unloaded at once, `WorkingSetInvariant` and
from it:

- `WorkingSetFindsPayloads`: a payload that is on the stage and that the rules load is
  composed. `LoadAndUnload` recomposes below the closest ancestor that is loaded,
  and a load can make the rules ask for a payload further up than that, which an
  earlier unload or an unloaded parent had left out. That this is never so needs
  `ComposedBelowRule`: a payload composed below one that is not has a ruled path
  between the two. So if a payload above the root of the recomposition were missing,
  a rule would lie between it and the loaded path; but then the load, not being
  directly below the missing payload, would not make the rules ask for it
  (`LoadFindsAbove`). Composition itself (`RecomposedMeans`) is shown to agree with
  the rules by the least path on which it would not.
- `WorkingSetQueriesExact`, `WorkingSetRelativeRules` and `WorkingSetKeepsSides`, the
  properties `LoadQueriesExact`, `RelativeRulesFaithful` and `LoadsKeepTheirSide` of
  run `Load`. They rest on `LoadedIfNearest` (a path is loaded as its nearest rule
  says, or one directly below it), on `LoadAndUnloadMeans` (which rules a call leaves),
  and on lemmas about prefixes as an order. What the documentation says of `Load`
  beyond that, the last table of section 3 refutes.

About instances `UsdStage_proofs` proves, for any finite tree of paths, any kinds of prims
and any number of edits in any batches, `InstanceInvariant` and from it
`InstanceRootsDisjoint` (the property `RootsDisjoint` of run `Instances`) and
`InstanceMapsAgree`: between rounds the maps of the cache are inverse to each
other, and a prototype has a source, which is one of its instances.
`_ComposePrimIndexesInParallel` takes the topmost of the paths that changed, but takes the
new sources of prototypes as `ProcessChanges` gives them. That these are never
below each other is shown by `IndexInv`, which relates the maps to the indexes there are:

- `RegistrationFits`: registered, or about to be, is exactly what has the index of an
  instance, where composition has been.
- `WellPlaced`: above an index there are prims only, and no instances but sources. A
  source that goes is no longer registered, so what is above a new source is a
  source that stays: hence new sources are not below each other.
- `LeftoversFit`: the same for an index that was not blown, at the time composition comes to
  it. Edits blow what is at or below a changed path that is seen, and a changed
  path that no prim sees has no index at or below it (`HiddenAreEmpty`).
- `ChildrenFit`: what a composed index brings is composed, or will be.
- `KindsFit`: between rounds an index is what its parent's brings, except where a
  change waits; during one it is what the scene now has there (`KindAt`).
  By the ranks of `AcyclicAssumption` no instance is below another of its
  key, so a source that moves does not move into itself.

The new source of a prototype is the first of its instances in the order of paths; that a
finite set has a first one is shown by counting what precedes each.

From `IndexInv` together with a second invariant, `PrimsInv` (`InstancePrims`), follow the other
three properties of run `Instances`: `InstanceRegisteredExactly`, `InstancePrimsExact` and
`InstanceIndexesCurrent`. A round recomposes only part of a stage, so what is to be shown is that it
misses nothing. `PrimsInv` says what holds of the prims while the indexes beneath them are
already those of the new scene:

- `Visible(r, x)`: the prim of tree `r` (the stage or a prototype) with the index of path `x` is
  to be there. The index is one of a prim, and above it in the tree are no instances but
  the topmost prim of a prototype.
- `PrimsFit`: outside of what is recomposed (`Changing`) the prims of a tree that the round has
  not told of (`Untold`) are the visible ones, at each step of the round. Composition also
  computes indexes outside of `Changing`, below the sources that `ProcessChanges` has just told of
  and nowhere else (`TasksFit`); in other trees these are below an instance
  (`ComputeKeepsVisible`).
- `TreesFit`: each prim of such a tree has the path of its index, and what is above it in the tree
  and does not change is the index of a prim that is no instance. So a path that is recomposed
  and that `GetPrimsInPrototypes` does not find for a tree is below an instance that was there before
  (`PrimsFound`, `NotCovered`), where the tree has no prim, and is to have none.
- `ToldFit`: a tree is told of once in a round, and the source of one that is not told of is below
  what changes if composition reached it. Those `WithSourceUnder` finds.
- `StaleFit`: a prim whose index was computed again has the path of one that is recomposed.

`RecomposePrims` then asks for the prims `PrimsAsked`, composes the topmost ones that their parents
have (`TopComposed`: these are the visible ones) and keeps what is not below them. By `PrimsAfter`
the result is exactly what is visible. `ShownAre` closes the argument for the registrations: each
path with the index of a prim is visible in the tree of the lowest source above it, or on the stage
if there is none, because `WellPlaced` leaves no other instance above it.

Assumptions: those named in the component modules (`ThreadsAssumption`,
`CallsAssumption`, `HydraAssumption`, `RenderCallsAssumption`,
`PtrsAssumption`, `PathsAssumption`, `TreeAssumption`, `BoundAssumption`,
`NodesAssumption`, `NoneAssumption`, `LayersAssumption`, `ResolverAssumption`,
`OutputAssumption`, `PathConstants`, `OpensAssumption`, `SourceAssumption`,
`NoticeAssumption`, `ContentAssumption`, `AcyclicAssumption`, `PrimPathsAssumption`,
`ManagerAssumption`), which TLC evaluates on every
run; and for `BigRWMutex`, which runs only use by INSTANCE, `BigAssumptions` in the theorems themselves.

All invariants that the runs check are proved. Only model-checked: all liveness, since the proof system
does not reason about fairness and `ENABLED`. What a recursive definition computes for all
inputs would need induction over data with an operator parameter, which the
installed provers cannot instantiate; where a
module proved about uses a recursive function (`UsdStageCache`, `TfNoticeRegistry`,
`UsdInstanceCache`, `SdfChangeManager`), what the proof needs of it is had from the least argument that
would refute it.

## 5. Not modelled, and abstractions

- Layer registry: file format arguments in identifiers, muting, `Reload`,
  change notices; the resolver caches. An anonymous layer's identifier is the
  layer itself.
- Path nodes: property nodes (never destroyed), the shards (each shard's lock
  covers one look-up, and look-ups of different keys commute), overflow of the
  31-bit count.
- Render thread: the frame buffer mutex. `IsStopRequested` is called by one
  thread, as the header asks; hdEmbree calls it from several.
- Working set: instances (only their keys), activation, variants, the
  population mask; errors for paths that are not valid.
- Stage cache: ids, the searches that change nothing, resolver contexts (part of
  what a request wants), population masks and load sets of a request.
- Notices: probes, `TfNotice::Block`, type look-up, two threads that revoke one key.
- Reference counts: the remnants by which weak pointers expire; memory orders.
- Crate output: what is packed, a packer that is abandoned without a flush, and writes
  to the asset that fail (`sdf/crateFile.cpp:230`), which post an error and go on.
- Change manager: properties, targets, variants, sublayers, the reloading and
  replacing of content, the state delegate; `CreateDiff`, which takes changes out
  of an open block (`ExtractLocalChanges`); other threads, whose data are their own.
- Parallel indexing: what an index contains, errors, the payload set (in
  `UsdStageWorkingSet`), the dependencies as such (how often an index's are in).
- Instances: activation, the population mask and payloads, which are part of keys;
  the order of prototype numbers within a round.
- The components of the table in section 1 that have no module, with the
  reason, are listed in `PROJECT.json`.

## 6. Plan

Done, in this order: the reader/writer mutexes with their proofs; the layer
registry with its proofs; the render thread with its proofs; path nodes with theirs; load rules and
working set with their proofs; the stage cache with its proofs; notices with their proofs; reference counts with their proofs;
singular tasks with their proofs, and crate output with its own on top of them; change lists
and the change manager with their proofs; parallel indexing with its proofs; instances and recomposition with their proofs.

Next, most important first:

1. `Pcp_LayerStackRegistry`: one live stack per identifier although stacks are
   computed outside of the lock (`pcp/layerStackRegistry.cpp:149`).
2. `SdfChangeManager` with properties and sublayers, and the state delegate.
3. `UsdStagePopulationMask`, `SdfListOp`, `SdfBatchNamespaceEdit`: pure algorithms against
   reference definitions.
4. Hydra change tracker and resource registries.
5. The remnants of `TfWeakPtr`, beneath `SdfLayerRegistry`.
