----------------------------- MODULE SpinRWMutex -----------------------------
(***************************************************************************)
(* TfSpinRWMutex (pxr/base/tf/spinRWMutex.{h,cpp}): a reader/writer spin   *)
(* lock in one atomic integer.  Bit 0 is the writer flag; the rest counts  *)
(* readers, and also would-be readers who added themselves optimistically  *)
(* and have not yet undone the addition.                                   *)
(*                                                                         *)
(* One action is one atomic operation on _lockState, or one successful     *)
(* poll of a wait loop.  pc[t] says where thread t is between two of them; *)
(* "idle", "read" and "write" are the three ScopedLock acquisition states. *)
(***************************************************************************)
EXTENDS Integers, FiniteSets

CONSTANTS
    Threads,   \* the threads that share the mutex
    Calls      \* the operations the clients of this instance use

AllCalls == {"TryAcquireRead", "AcquireRead", "TryAcquireWrite",
             "TryAcquireWriteIfReleased", "AcquireWrite",
             "UpgradeToWriter", "DowngradeToReader"}

ASSUME ThreadsAssumption == IsFiniteSet(Threads)
ASSUME CallsAssumption == Calls \subseteq AllCalls

VARIABLES
    lockState,   \* _lockState
    pc           \* where each thread is

vars == <<lockState, pc>>

OneReader == 2
WriterFlag == 1

PCs == {"idle", "read", "write",
        "tryReadUndo",                          \* TryAcquireRead, flag seen
        "readUndo", "readWait", "readTry",      \* AcquireRead
        "drain",                                \* TryAcquireWrite, flag set
        "writeWait", "writeTry",                \* AcquireWrite
        "upFlagged", "upDrain", "upWait", "upTry"}   \* UpgradeToWriter

TypeOK ==
    /\ lockState \in Nat
    /\ pc \in [Threads -> PCs]

Init ==
    /\ lockState = 0
    /\ pc = [t \in Threads |-> "idle"]

-----------------------------------------------------------------------------
(* The atomic operations, as functions of the value they replace.          *)

HasWriter(s) == s % 2 = WriterFlag

FetchOrWriter(s) == IF HasWriter(s) THEN s ELSE s + WriterFlag

FetchAndNotWriter(s) == IF HasWriter(s) THEN s - WriterFlag ELSE s

Goto(t, label) == pc' = [pc EXCEPT ![t] = label]

(* TryAcquireRead's fetch_add: the count goes up whether or not the flag   *)
(* is set, and the old value decides.                                      *)
AddReader(t, refused) ==
    /\ lockState' = lockState + OneReader
    /\ Goto(t, IF HasWriter(lockState) THEN refused ELSE "read")

SubReader == lockState' = lockState - OneReader

(* Where the thread whose fetch_or found no flag goes next: the old value  *)
(* says if there are readers to wait for.                                  *)
FlagSet(s) == IF s = 0 THEN "write" ELSE "drain"

(* TryAcquireWrite's fetch_or.                                             *)
SetFlag(t, refused) ==
    /\ lockState' = FetchOrWriter(lockState)
    /\ Goto(t, IF HasWriter(lockState) THEN refused ELSE FlagSet(lockState))

-----------------------------------------------------------------------------
(* Reading.                                                                *)

TryAcquireRead(t) ==
    /\ "TryAcquireRead" \in Calls
    /\ pc[t] = "idle"
    /\ AddReader(t, "tryReadUndo")

AcquireRead(t) ==
    /\ "AcquireRead" \in Calls
    /\ pc[t] \in {"idle", "readTry"}
    /\ AddReader(t, "readUndo")

UndoReadForgotten(t) ==
    /\ pc[t] \in {"tryReadUndo", "readUndo"}
    /\ Goto(t, IF pc[t] = "readUndo" THEN "readWait" ELSE "idle")
    /\ UNCHANGED lockState

UndoRead(t) ==
    /\ pc[t] \in {"tryReadUndo", "readUndo"}
    /\ SubReader
    /\ Goto(t, IF pc[t] = "readUndo" THEN "readWait" ELSE "idle")

ReleaseRead(t) ==
    /\ pc[t] = "read"
    /\ SubReader
    /\ Goto(t, "idle")

-----------------------------------------------------------------------------
(* Writing.                                                                *)

TryAcquireWrite(t) ==
    /\ "TryAcquireWrite" \in Calls
    /\ pc[t] = "idle"
    /\ SetFlag(t, "idle")

AcquireWrite(t) ==
    /\ "AcquireWrite" \in Calls
    /\ pc[t] \in {"idle", "writeTry"}
    /\ SetFlag(t, "writeWait")

TryAcquireWriteIfReleased(t) ==
    /\ "TryAcquireWriteIfReleased" \in Calls
    /\ pc[t] = "idle"
    /\ lockState = 0
    /\ lockState' = WriterFlag
    /\ Goto(t, "write")

ReleaseWrite(t) ==
    /\ pc[t] = "write"
    /\ lockState' = FetchAndNotWriter(lockState)
    /\ Goto(t, "idle")

-----------------------------------------------------------------------------
(* Upgrade and downgrade.  A thread whose upgrade meets the flag keeps its *)
(* reader count while it waits for the flag to clear.                      *)

UpgradeToWriter(t) ==
    /\ "UpgradeToWriter" \in Calls
    /\ pc[t] \in {"read", "upTry"}
    /\ lockState' = FetchOrWriter(lockState)
    /\ Goto(t, IF HasWriter(lockState) THEN "upWait" ELSE "upFlagged")

(* The fetch_sub of the upgrader's own count, and its old value.           *)
UpgradeDropReaderNoWait(t) ==
    /\ pc[t] = "upFlagged"
    /\ SubReader
    /\ Goto(t, "write")

UpgradeDropReader(t) ==
    /\ pc[t] = "upFlagged"
    /\ SubReader
    /\ Goto(t, IF lockState # OneReader + WriterFlag THEN "upDrain"
                                                      ELSE "write")

DowngradeToReader(t) ==
    /\ "DowngradeToReader" \in Calls
    /\ pc[t] = "write"
    /\ lockState' = lockState + (OneReader - WriterFlag)
    /\ Goto(t, "read")

-----------------------------------------------------------------------------
(* The two wait loops.                                                     *)

WaitForReaders(t) ==
    /\ pc[t] \in {"drain", "upDrain"}
    /\ lockState = WriterFlag
    /\ Goto(t, "write")
    /\ UNCHANGED lockState

AfterWait == [readWait |-> "readTry", writeWait |-> "writeTry",
              upWait |-> "upTry"]

WaitForWriter(t) ==
    /\ pc[t] \in DOMAIN AfterWait
    /\ ~HasWriter(lockState)
    /\ Goto(t, AfterWait[pc[t]])
    /\ UNCHANGED lockState

-----------------------------------------------------------------------------

(* A thread inside a call, or holding the lock, takes its next step.       *)
Continue(t) ==
    \/ UndoRead(t) \/ WaitForReaders(t) \/ WaitForWriter(t)
    \/ UpgradeDropReader(t)
    \/ pc[t] = "readTry" /\ AcquireRead(t)
    \/ pc[t] = "writeTry" /\ AcquireWrite(t)
    \/ pc[t] = "upTry" /\ UpgradeToWriter(t)

Release(t) == ReleaseRead(t) \/ ReleaseWrite(t)

Step(t) ==
    \/ TryAcquireRead(t) \/ AcquireRead(t) \/ UndoRead(t) \/ ReleaseRead(t)
    \/ TryAcquireWrite(t) \/ AcquireWrite(t) \/ TryAcquireWriteIfReleased(t)
    \/ ReleaseWrite(t)
    \/ UpgradeToWriter(t) \/ UpgradeDropReader(t) \/ DowngradeToReader(t)
    \/ WaitForReaders(t) \/ WaitForWriter(t)

Next == \E t \in Threads : Step(t)

Spec == Init /\ [][Next]_vars

(* No thread stays for ever in the middle of a call when its next          *)
(* operation is possible, and every holder releases what it holds.         *)
Fairness == \A t \in Threads : WF_vars(Continue(t)) /\ WF_vars(Release(t))

FairSpec == Spec /\ Fairness

-----------------------------------------------------------------------------
(* Properties.                                                             *)

(* The threads whose OneReader is in _lockState, those that own the flag,  *)
(* and those that hold the lock for reading as far as a caller can tell.   *)
Counted(t) == pc[t] \in {"tryReadUndo", "readUndo", "read",
                         "upFlagged", "upWait", "upTry"}
OwnsFlag(t) == pc[t] \in {"drain", "upFlagged", "upDrain", "write"}
Reading(t) == pc[t] \in {"read", "upFlagged", "upDrain", "upWait", "upTry"}

Readers == {t \in Threads : Counted(t)}
FlagOwners == {t \in Threads : OwnsFlag(t)}

(* While one thread is past a write acquisition no other thread is past    *)
(* any acquisition, whatever would-be readers do to the count meanwhile.   *)
MutualExclusion ==
    \A t, u \in Threads :
        (pc[t] = "write" /\ u # t) => pc[u] # "write" /\ ~Reading(u)

(* The integer is exactly the optimistic and real readers plus the flag:   *)
(* no path of retries, undos, upgrades and downgrades leaks or drops a     *)
(* count, and the flag has one owner.                                      *)
LockWordExact ==
    /\ lockState = OneReader * Cardinality(Readers)
                     + (IF FlagOwners = {} THEN 0 ELSE WriterFlag)
    /\ \A t, u \in FlagOwners : t = u

(* The strengthening of MutualExclusion that every step preserves.         *)
IInv ==
    /\ TypeOK
    /\ LockWordExact
    /\ MutualExclusion

(* Once the flag is set nobody who was not already reading gets to read,   *)
(* except the owner of the flag itself by a downgrade: late readers cannot *)
(* keep a draining writer out.                                             *)
FlagBarsReaders ==
    [][\A t \in Threads :
          (FlagOwners # {} /\ ~Reading(t) /\ Reading(t)') => pc[t] = "write"]_vars

(* The mutex implements RWLock: in particular no other writer gets between *)
(* the read and the write section of an upgrade, nor between the write and *)
(* the read section of a downgrade.                                        *)
Mode == [t \in Threads |-> IF pc[t] = "write" THEN "write"
                           ELSE IF Reading(t) THEN "read" ELSE "none"]
Abstract == INSTANCE RWLock WITH mode <- Mode
ImplementsRWLock == Abstract!Spec

(* From some time on nobody polls with TryAcquireRead while the flag is    *)
(* set, and no upgrade has met another writer: polls keep the count above  *)
(* zero, and the two sides of the upgrade wait for each other.             *)
Undisturbed == <>[](\A t \in Threads : pc[t] \notin {"tryReadUndo", "upWait"})

(* Undisturbed, a writer that set the flag gets the lock: the readers it   *)
(* waits for release, and late readers undo their additions.               *)
DrainEnds ==
    Undisturbed =>
        \A t \in Threads : pc[t] \in {"drain", "upDrain"} ~> pc[t] = "write"

(* UpgradeToWriter's comment: "There was other writer activity -- wait for *)
(* it to clear, then retry" (spinRWMutex.h:399), and its documented result *)
(* false for an upgrade that was not atomic (spinRWMutex.h:377): a         *)
(* contended upgrade returns.  The code keeps the reader count, so the     *)
(* other writer and the upgrader wait for each other.                      *)
ContendedUpgradeReturns ==
    \A t \in Threads : pc[t] = "upWait" ~> pc[t] = "write"

(* What the code does instead: an upgrade that met another writer never    *)
(* leaves its wait, and the writer it met never writes.                    *)
ContendedUpgradeStandoff ==
    [][\A t \in Threads : pc[t] = "upWait" =>
          /\ pc'[t] = "upWait"
          /\ \A u \in Threads : pc[u]' # "write"]_vars

=============================================================================
