----------------------------- MODULE BigRWMutex -----------------------------
(***************************************************************************)
(* TfBigRWMutex (pxr/base/tf/bigRWMutex.{h,cpp}): NumStates spin mutexes   *)
(* and one atomic flag.  A reader locks one of them for reading, a writer  *)
(* raises the flag and locks them all for writing with the staged acquire  *)
(* of TfSpinRWMutex.  A releasing writer lowers the flag first, so the     *)
(* next writer starts its acquire while the locks are still being let go.  *)
(***************************************************************************)
EXTENDS Integers, FiniteSets

CONSTANTS
    Threads,    \* the threads that share the mutex
    NumStates   \* TfBigRWMutex::NumStates, at least one

VARIABLES
    writerActive,   \* _writerActive
    lockState,      \* _states[i].mutex._lockState
    pc,             \* where each thread is
    index,          \* the reader's state index, or the writer's loop index
    stage           \* the writer's stageStates

vars == <<writerActive, lockState, pc, index, stage>>

States == 0 .. NumStates - 1
Stages == {"NotAcquired", "Acquiring", "Acquired"}
PCs == {"idle", "read", "write", "readAdd", "readUndo", "readSpin",
        "writeTry", "writeWait", "staging", "releasing"}

NoStage == [i \in States |-> "NotAcquired"]

TypeOK ==
    /\ writerActive \in BOOLEAN
    /\ lockState \in [States -> Nat]
    /\ pc \in [Threads -> PCs]
    /\ index \in [Threads -> States]
    /\ stage \in [Threads -> [States -> Stages]]

Init ==
    /\ writerActive = FALSE
    /\ lockState = [i \in States |-> 0]
    /\ pc = [t \in Threads |-> "idle"]
    /\ index = [t \in Threads |-> 0]
    /\ stage = [t \in Threads |-> NoStage]

(* TfSpinRWMutex's word, as in SpinRWMutex.                                *)
Spin == INSTANCE SpinRWMutex WITH Calls <- {}, lockState <- lockState[0]
OneReader == Spin!OneReader
WriterFlag == Spin!WriterFlag
HasWriter(i) == Spin!HasWriter(lockState[i])

Goto(t, label) == pc' = [pc EXCEPT ![t] = label]

-----------------------------------------------------------------------------
(* Reading.                                                                *)

(* _AcquireRead: pick the state by the lock object's seed, load the flag.  *)
AcquireRead(t) ==
    /\ pc[t] = "idle"
    /\ \E i \in States : index' = [index EXCEPT ![t] = i]
    /\ Goto(t, IF writerActive THEN "readSpin" ELSE "readAdd")
    /\ UNCHANGED <<writerActive, lockState, stage>>

ReadAddUnchecked(t) ==
    /\ pc[t] = "readAdd"
    /\ lockState' = [lockState EXCEPT ![index[t]] = @ + OneReader]
    /\ Goto(t, "read")
    /\ UNCHANGED <<writerActive, index, stage>>

(* TryAcquireRead on the state.                                            *)
ReadAdd(t) ==
    /\ pc[t] = "readAdd"
    /\ lockState' = [lockState EXCEPT ![index[t]] = @ + OneReader]
    /\ Goto(t, IF HasWriter(index[t]) THEN "readUndo" ELSE "read")
    /\ UNCHANGED <<writerActive, index, stage>>

DropReader(t) ==
    /\ lockState' = [lockState EXCEPT ![index[t]] = @ - OneReader]
    /\ index' = [index EXCEPT ![t] = 0]

ReadUndo(t) ==
    /\ pc[t] = "readUndo"
    /\ lockState' = [lockState EXCEPT ![index[t]] = @ - OneReader]
    /\ Goto(t, "readSpin")
    /\ UNCHANGED <<writerActive, index, stage>>

(* _AcquireReadContended: one load of the flag that finds it low.          *)
ReadSpin(t) ==
    /\ pc[t] = "readSpin"
    /\ ~writerActive
    /\ Goto(t, "readAdd")
    /\ UNCHANGED <<writerActive, lockState, index, stage>>

ReleaseRead(t) ==
    /\ pc[t] = "read"
    /\ DropReader(t)
    /\ Goto(t, "idle")
    /\ UNCHANGED <<writerActive, stage>>

-----------------------------------------------------------------------------
(* Writing.                                                                *)

(* _AcquireWrite's exchange, and the poll that precedes another exchange.  *)
AcquireWrite(t) ==
    /\ pc[t] \in {"idle", "writeTry"}
    /\ writerActive' = TRUE
    /\ Goto(t, IF writerActive THEN "writeWait" ELSE "staging")
    /\ UNCHANGED <<lockState, index, stage>>

WriteWait(t) ==
    /\ pc[t] = "writeWait"
    /\ ~writerActive
    /\ Goto(t, "writeTry")
    /\ UNCHANGED <<writerActive, lockState, index, stage>>

(* _StagedAcquireWriteStep: the stage a step returns.  A step in stage     *)
(* Acquiring first waits for the state's readers.                          *)
StepResult(s, i) ==
    IF s = "NotAcquired" /\ HasWriter(i) THEN "NotAcquired"
    ELSE IF s = "NotAcquired" /\ lockState[i] # 0 THEN "Acquiring"
    ELSE "Acquired"

StagedAcquireWriteStep(t, i) ==
    /\ stage[t][i] = "Acquiring" => lockState[i] = WriterFlag
    /\ lockState' = IF stage[t][i] = "NotAcquired"
                    THEN [lockState EXCEPT ![i] = Spin!FetchOrWriter(@)]
                    ELSE lockState

(* One turn of the loop over the states; the last one starts another pass  *)
(* unless every state is acquired.                                         *)
Staging(t) ==
    LET i == index[t]
        stage1 == [stage[t] EXCEPT ![i] = StepResult(@, i)]
        last == i = NumStates - 1
        done == last /\ \A j \in States : stage1[j] = "Acquired"
    IN  /\ pc[t] = "staging"
        /\ StagedAcquireWriteStep(t, i)
        /\ index' = [index EXCEPT ![t] = IF last THEN 0 ELSE i + 1]
        /\ stage' = [stage EXCEPT ![t] = IF done THEN NoStage ELSE stage1]
        /\ Goto(t, IF done THEN "write" ELSE "staging")
        /\ UNCHANGED writerActive

ReleaseWriteKeepsFlag(t) ==
    /\ pc[t] = "write"
    /\ Goto(t, "releasing")
    /\ UNCHANGED <<writerActive, lockState, index, stage>>

(* _ReleaseWrite: the flag first, then every state in order.               *)
ReleaseWrite(t) ==
    /\ pc[t] = "write"
    /\ writerActive' = FALSE
    /\ Goto(t, "releasing")
    /\ UNCHANGED <<lockState, index, stage>>

ReleaseState(t) ==
    LET last == index[t] = NumStates - 1
    IN  /\ pc[t] = "releasing"
        /\ lockState' = [lockState EXCEPT ![index[t]] =
                            Spin!FetchAndNotWriter(@)]
        /\ index' = [index EXCEPT ![t] = IF last THEN 0 ELSE index[t] + 1]
        /\ Goto(t, IF last THEN "idle" ELSE "releasing")
        /\ UNCHANGED <<writerActive, stage>>

(* UpgradeToWriter releases, then acquires; it always returns false.       *)
UpgradeToWriter(t) ==
    /\ pc[t] = "read"
    /\ DropReader(t)
    /\ Goto(t, "writeTry")
    /\ UNCHANGED <<writerActive, stage>>

-----------------------------------------------------------------------------

Release(t) == ReleaseRead(t) \/ ReleaseWrite(t)

Continue(t) ==
    \/ ReadAdd(t) \/ ReadUndo(t) \/ ReadSpin(t)
    \/ WriteWait(t) \/ (pc[t] = "writeTry" /\ AcquireWrite(t))
    \/ Staging(t) \/ ReleaseState(t)

Next == \E t \in Threads :
    \/ AcquireRead(t) \/ ReadAdd(t) \/ ReadUndo(t) \/ ReadSpin(t)
    \/ ReleaseRead(t)
    \/ AcquireWrite(t) \/ WriteWait(t) \/ Staging(t)
    \/ ReleaseWrite(t) \/ ReleaseState(t) \/ UpgradeToWriter(t)

Spec == Init /\ [][Next]_vars

(* No thread stops in the middle of a call, and holders release.           *)
Fairness == \A t \in Threads : WF_vars(Continue(t)) /\ WF_vars(Release(t))

FairSpec == Spec /\ Fairness

-----------------------------------------------------------------------------
(* Properties.                                                             *)

(* The threads whose reader is counted in state i, and those that set its  *)
(* flag and have not yet cleared it.                                       *)
CountedIn(i) == {t \in Threads : pc[t] \in {"read", "readUndo"} /\ index[t] = i}
FlagOwnersOf(i) ==
    {t \in Threads : \/ pc[t] = "staging" /\ stage[t][i] # "NotAcquired"
                     \/ pc[t] = "write"
                     \/ pc[t] = "releasing" /\ index[t] <= i}

(* Each of the states counts its readers and has one flag owner, also      *)
(* while an old writer lets go of the states one by one and a new writer   *)
(* sets the flags behind it.                                               *)
StatesExact ==
    \A i \in States :
        /\ lockState[i] = OneReader * Cardinality(CountedIn(i))
                            + Cardinality(FlagOwnersOf(i))
        /\ Cardinality(FlagOwnersOf(i)) <= 1

(* The big mutex implements RWLock.                                        *)
Mode == [t \in Threads |-> IF pc[t] \in {"read", "write"} THEN pc[t]
                           ELSE "none"]
Abstract == INSTANCE RWLock WITH mode <- Mode
BigImplementsRWLock == Abstract!Spec

(* A writer that raised the flag gets to write although readers on every   *)
(* state keep coming: the flag keeps them in their spin loop.              *)
StagingEnds == \A t \in Threads : pc[t] = "staging" ~> pc[t] = "write"

(* Whoever waits, for the flag or behind it, is not left waiting for a     *)
(* writer that is gone: some thread gets the lock.                         *)
WaitersGetIn ==
    (\E t \in Threads : pc[t] \in {"readSpin", "writeWait"})
        ~> (\E t \in Threads : pc[t] \in {"read", "write"})

=============================================================================
