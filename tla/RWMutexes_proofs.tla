-------------------------- MODULE RWMutexes_proofs --------------------------
(***************************************************************************)
(* Proofs about the two reader-writer mutexes of Tf, for any finite set of *)
(* threads: of TfSpinRWMutex, for any set of calls, that the lock word is  *)
(* exact, the lock excludes, the code implements RWLock, and its memory    *)
(* orders order sections after earlier writes; of TfBigRWMutex, for any    *)
(* number of states, that each word is exact and the code implements       *)
(* RWLock.                                                                 *)
(***************************************************************************)
EXTENDS SpinRWMutexOrder, FiniteSetTheorems, TLAPS

(* A lock word of n readers and the flag bit f tells n and f apart.        *)
LEMMA Parity ==
    ASSUME NEW n \in Nat, NEW f \in {0, 1}
    PROVE  /\ HasWriter(OneReader * n + f) <=> f = 1
           /\ (OneReader * n + f = 0) <=> (n = 0 /\ f = 0)
           /\ (OneReader * n + f = WriterFlag) <=> (n = 0 /\ f = 1)
           /\ (OneReader * n + f = OneReader + WriterFlag) <=> (n = 1 /\ f = 1)
BY SMT DEF HasWriter, OneReader, WriterFlag

(* Readers is finite, and empty exactly when its cardinality is zero.      *)
LEMMA ReadersFinite ==
    /\ IsFiniteSet(Readers)
    /\ Cardinality(Readers) \in Nat
    /\ Cardinality(Readers) = 0 <=> Readers = {}
<1>1. IsFiniteSet(Readers)
  BY ThreadsAssumption, FS_Subset DEF Readers
<1> QED
  BY <1>1, FS_CardinalityType, FS_EmptySet

(* A move of one thread changes the count by that thread's own reader.     *)
LEMMA CountAfterMove ==
    ASSUME pc \in [Threads -> PCs], NEW t \in Threads, NEW label \in PCs,
           Goto(t, label)
    PROVE  /\ Counted(t)' /\ ~Counted(t)
                => Cardinality(Readers') = Cardinality(Readers) + 1
           /\ Counted(t) /\ ~Counted(t)'
                => Cardinality(Readers') = Cardinality(Readers) - 1
           /\ (Counted(t)' <=> Counted(t)) => Readers' = Readers
           /\ Cardinality(Readers') = 0 <=> Readers' = {}
<1>0. Cardinality(Readers') = 0 <=> Readers' = {}
  <2>1. IsFiniteSet(Readers')
    BY ThreadsAssumption, FS_Subset DEF Readers
  <2> QED
    BY <2>1, FS_EmptySet
<1>1. \A u \in Threads : u # t => pc'[u] = pc[u]
  BY DEF Goto
<1>2. CASE Counted(t)' /\ ~Counted(t)
  <2>1. Readers' = Readers \cup {t} /\ t \notin Readers
    BY <1>1, <1>2 DEF Readers, Counted
  <2> QED
    BY <1>0, <1>2, <2>1, ReadersFinite, FS_AddElement
<1>3. CASE Counted(t) /\ ~Counted(t)'
  <2>1. Readers' = Readers \ {t} /\ t \in Readers
    BY <1>1, <1>3 DEF Readers, Counted
  <2> QED
    BY <1>0, <1>3, <2>1, ReadersFinite, FS_RemoveElement
<1>4. CASE Counted(t)' <=> Counted(t)
  BY <1>0, <1>1, <1>4 DEF Readers, Counted
<1> QED
  BY <1>0, <1>2, <1>3, <1>4

(* The lock word in terms of the two sets: what a thread learns from the   *)
(* value it reads.                                                         *)
LEMMA WordTells ==
    ASSUME LockWordExact
    PROVE  /\ lockState \in Nat
           /\ HasWriter(lockState) <=> FlagOwners # {}
           /\ lockState = 0 <=> (Readers = {} /\ FlagOwners = {})
           /\ lockState = WriterFlag <=> (Readers = {} /\ FlagOwners # {})
           /\ lockState = OneReader + WriterFlag
                <=> (Cardinality(Readers) = 1 /\ FlagOwners # {})
<1> DEFINE f == IF FlagOwners = {} THEN 0 ELSE WriterFlag
<1>1. f \in {0, 1} /\ (f = 1 <=> FlagOwners # {})
  BY DEF WriterFlag
<1>2. lockState = OneReader * Cardinality(Readers) + f
  BY DEF LockWordExact
<1>3. Cardinality(Readers) \in Nat
  BY ReadersFinite
<1>4. lockState \in Nat
  BY <1>1, <1>2, <1>3, SMT DEF OneReader
<1> HIDE DEF f
<1> QED
  BY <1>1, <1>2, <1>3, <1>4, Parity, ReadersFinite

(* What one thread's move does to the set of flag owners.                  *)
LEMMA OwnersAfterMove ==
    ASSUME pc \in [Threads -> PCs], NEW t \in Threads, NEW label \in PCs,
           Goto(t, label)
    PROVE  /\ FlagOwners' = (FlagOwners \ {t})
                              \cup (IF OwnsFlag(t)' THEN {t} ELSE {})
           /\ \A u \in Threads : u # t => pc'[u] = pc[u]
           /\ pc'[t] = label
           /\ pc' \in [Threads -> PCs]
BY DEF Goto, FlagOwners, OwnsFlag

(* One thread's move preserves the invariant when it changes the word by   *)
(* its own count and flag, takes the flag only from nobody, and enters a   *)
(* section only when the sections of the others allow it.                  *)
LEMMA MovePreserves ==
    ASSUME IInv, NEW t \in Threads, NEW label \in PCs, Goto(t, label),
           lockState' = lockState
               + (IF Counted(t)' THEN OneReader ELSE 0)
               - (IF Counted(t) THEN OneReader ELSE 0)
               + (IF OwnsFlag(t)' THEN WriterFlag ELSE 0)
               - (IF OwnsFlag(t) THEN WriterFlag ELSE 0),
           OwnsFlag(t)' => OwnsFlag(t) \/ FlagOwners = {},
           label = "write" => \A u \in Threads \ {t} : ~Reading(u),
           Reading(t)' => Reading(t) \/ \A u \in Threads \ {t} : pc[u] # "write"
    PROVE  IInv'
<1> DEFINE flag(S) == IF S = {} THEN 0 ELSE WriterFlag
<1>1. /\ FlagOwners' = (FlagOwners \ {t})
                         \cup (IF OwnsFlag(t)' THEN {t} ELSE {})
      /\ \A u \in Threads : u # t => pc'[u] = pc[u]
      /\ pc'[t] = label
      /\ pc' \in [Threads -> PCs]
  BY OwnersAfterMove DEF IInv, TypeOK
<1>2. \A v, w \in FlagOwners : v = w
  BY DEF IInv, LockWordExact
<1>3. t \in FlagOwners <=> OwnsFlag(t)
  BY DEF FlagOwners
<1>4. \A v, w \in FlagOwners' : v = w
  BY <1>1, <1>2, <1>3
<1>5. flag(FlagOwners') = flag(FlagOwners)
               + (IF OwnsFlag(t)' THEN WriterFlag ELSE 0)
               - (IF OwnsFlag(t) THEN WriterFlag ELSE 0)
  <2>1. OwnsFlag(t) => FlagOwners = {t}
    BY <1>2, <1>3
  <2>2. FlagOwners' = (FlagOwners \ {t})
                         \cup (IF OwnsFlag(t)' THEN {t} ELSE {})
    BY <1>1
  <2>3. CASE OwnsFlag(t)
    BY <2>1, <2>2, <2>3 DEF WriterFlag
  <2>4. CASE ~OwnsFlag(t) /\ OwnsFlag(t)'
    BY <2>2, <2>4 DEF WriterFlag
  <2>5. CASE ~OwnsFlag(t) /\ ~OwnsFlag(t)'
    <3>1. FlagOwners' = FlagOwners
      BY <1>3, <2>2, <2>5
    <3> QED
      BY <2>5, <3>1 DEF WriterFlag
  <2> QED
    BY <2>3, <2>4, <2>5
<1>6. Cardinality(Readers') = Cardinality(Readers)
               + (IF Counted(t)' THEN 1 ELSE 0) - (IF Counted(t) THEN 1 ELSE 0)
  BY CountAfterMove, ReadersFinite DEF IInv, TypeOK
<1>7. lockState' = OneReader * Cardinality(Readers') + flag(FlagOwners')
  <2>1. lockState = OneReader * Cardinality(Readers) + flag(FlagOwners)
    BY DEF IInv, LockWordExact
  <2>2. Cardinality(Readers) \in Nat /\ flag(FlagOwners) \in {0, 1}
    BY ReadersFinite DEF WriterFlag
  <2> HIDE DEF flag
  <2> QED
    BY <1>5, <1>6, <2>1, <2>2, SMT DEF OneReader, WriterFlag
<1>8. lockState' \in Nat
  <2>1. IsFiniteSet(Readers')
    BY ThreadsAssumption, FS_Subset DEF Readers
  <2>2. Cardinality(Readers') \in Nat
    BY <2>1, FS_CardinalityType
  <2> QED
    BY <1>7, <2>2 DEF OneReader, WriterFlag
<1>9. MutualExclusion'
  <2> SUFFICES ASSUME NEW v \in Threads, NEW u \in Threads,
                      pc'[v] = "write", u # v
               PROVE  pc'[u] # "write" /\ ~Reading(u)'
    BY DEF MutualExclusion
  <2>1. pc'[u] # "write"
    BY <1>4 DEF FlagOwners, OwnsFlag
  <2>2. CASE v = t
    BY <1>1, <2>1, <2>2 DEF Reading
  <2>3. CASE u = t
    <3>1. pc[v] = "write"
      BY <1>1, <2>3
    <3> QED
      BY <2>1, <2>3, <3>1 DEF IInv, MutualExclusion
  <2>4. CASE v # t /\ u # t
    BY <1>1, <2>4 DEF IInv, MutualExclusion, Reading
  <2> QED
    BY <2>2, <2>3, <2>4
<1> QED
  BY <1>1, <1>4, <1>7, <1>8, <1>9 DEF IInv, TypeOK, LockWordExact

(* What an empty set of owners or of counted readers excludes.             *)
LEMMA NobodyThere ==
    /\ FlagOwners = {} => \A u \in Threads : pc[u] # "write" /\ pc[u] # "upDrain"
    /\ Readers \cup FlagOwners = {} => \A u \in Threads : ~Reading(u)
    /\ \A t \in Threads : Readers \cup FlagOwners \subseteq {t}
                            => \A u \in Threads \ {t} : ~Reading(u)
BY DEF FlagOwners, Readers, OwnsFlag, Counted, Reading

(* Each operation of each thread preserves the invariant.                  *)
LEMMA StepPreserves ==
    ASSUME IInv, NEW t \in Threads, Step(t)
    PROVE  IInv'
<1>0. /\ pc \in [Threads -> PCs] /\ pc[t] \in PCs
      /\ lockState \in Nat
      /\ \A v, w \in FlagOwners : v = w
      /\ HasWriter(lockState) <=> FlagOwners # {}
      /\ lockState = 0 <=> (Readers = {} /\ FlagOwners = {})
      /\ lockState = WriterFlag <=> (Readers = {} /\ FlagOwners # {})
      /\ lockState = OneReader + WriterFlag
           <=> (Cardinality(Readers) = 1 /\ FlagOwners # {})
  BY WordTells DEF IInv, TypeOK, LockWordExact
<1>m. /\ MutualExclusion
      /\ OwnsFlag(t) => FlagOwners = {t}
      /\ Counted(t) => t \in Readers
  BY <1>0 DEF IInv, FlagOwners, Readers
<1>p. \A l \in PCs : Goto(t, l) => pc'[t] = l
  BY <1>0 DEF Goto
<1>q. lockState \in Int /\ lockState - 0 = lockState
  BY <1>0
<1>1. ASSUME NEW refused \in {"tryReadUndo", "readUndo"},
             pc[t] \in {"idle", "readTry"}, AddReader(t, refused)
      PROVE  IInv'
  <2> DEFINE label == IF HasWriter(lockState) THEN refused ELSE "read"
  <2>1. label \in PCs /\ Goto(t, label) /\ pc'[t] = label
    BY <1>1, <1>p DEF AddReader, PCs
  <2>2. lockState' = lockState + OneReader
    BY <1>1 DEF AddReader
  <2>3. /\ Counted(t)' /\ ~Counted(t) /\ ~OwnsFlag(t)' /\ ~OwnsFlag(t)
        /\ label # "write"
    BY <1>1, <2>1 DEF Counted, OwnsFlag
  <2>4. Reading(t)' => \A u \in Threads \ {t} : pc[u] # "write"
    BY <1>0, <1>1, <2>1, NobodyThere DEF Reading
  <2> HIDE DEF label
  <2> QED
    BY <1>q, <2>1, <2>2, <2>3, <2>4, MovePreserves DEF OneReader, WriterFlag
<1>2. CASE TryAcquireRead(t) \/ AcquireRead(t)
  BY <1>1, <1>2 DEF TryAcquireRead, AcquireRead
<1>3. CASE UndoRead(t)
  <2> DEFINE label == IF pc[t] = "readUndo" THEN "readWait" ELSE "idle"
  <2>1. label \in PCs /\ Goto(t, label) /\ pc'[t] = label
    BY <1>3, <1>p DEF UndoRead, PCs
  <2>2. /\ Counted(t) /\ ~Counted(t)' /\ ~OwnsFlag(t)' /\ ~OwnsFlag(t)
        /\ label # "write" /\ ~Reading(t)'
        /\ lockState' = lockState - OneReader
    BY <1>3, <2>1 DEF UndoRead, SubReader, Counted, OwnsFlag, Reading
  <2> HIDE DEF label
  <2> QED
    BY <1>q, <2>1, <2>2, MovePreserves DEF OneReader, WriterFlag
<1>4. CASE ReleaseRead(t)
  <2>1. "idle" \in PCs /\ Goto(t, "idle") /\ pc'[t] = "idle"
    BY <1>4, <1>p DEF ReleaseRead, PCs
  <2>2. /\ Counted(t) /\ ~Counted(t)' /\ ~OwnsFlag(t)' /\ ~OwnsFlag(t)
        /\ ~Reading(t)'
        /\ lockState' = lockState - OneReader
    BY <1>4, <2>1 DEF ReleaseRead, SubReader, Counted, OwnsFlag, Reading
  <2> QED
    BY <1>q, <2>1, <2>2, MovePreserves DEF OneReader, WriterFlag
<1>5. ASSUME NEW refused \in {"idle", "writeWait"},
             pc[t] \in {"idle", "writeTry"}, SetFlag(t, refused)
      PROVE  IInv'
  <2> DEFINE label == IF HasWriter(lockState) THEN refused
                      ELSE FlagSet(lockState)
  <2>1. label \in PCs /\ Goto(t, label) /\ pc'[t] = label
    BY <1>5, <1>p DEF SetFlag, FlagSet, PCs
  <2>2. /\ ~Counted(t) /\ ~Counted(t)' /\ ~OwnsFlag(t) /\ ~Reading(t)'
    BY <1>5, <2>1 DEF FlagSet, Counted, OwnsFlag, Reading
  <2>3. OwnsFlag(t)' <=> ~HasWriter(lockState)
    BY <1>5, <2>1 DEF FlagSet, OwnsFlag
  <2>4. lockState' = IF HasWriter(lockState) THEN lockState
                     ELSE lockState + WriterFlag
    BY <1>5 DEF SetFlag, FetchOrWriter
  <2>5. label = "write" => \A u \in Threads \ {t} : ~Reading(u)
    BY <1>0, <1>5, NobodyThere DEF FlagSet
  <2> HIDE DEF label
  <2> QED
    BY <1>0, <1>q, <2>1, <2>2, <2>3, <2>4, <2>5, MovePreserves
       DEF OneReader, WriterFlag
<1>6. CASE TryAcquireWrite(t) \/ AcquireWrite(t)
  BY <1>5, <1>6 DEF TryAcquireWrite, AcquireWrite
<1>7. CASE TryAcquireWriteIfReleased(t)
  <2>1. "write" \in PCs /\ Goto(t, "write") /\ pc'[t] = "write"
    BY <1>7, <1>p DEF TryAcquireWriteIfReleased, PCs
  <2>2. /\ ~Counted(t) /\ ~Counted(t)' /\ OwnsFlag(t)' /\ ~OwnsFlag(t)
        /\ ~Reading(t)'
        /\ lockState = 0 /\ lockState' = lockState + WriterFlag
    BY <1>7, <2>1 DEF TryAcquireWriteIfReleased, Counted, OwnsFlag, Reading,
                      WriterFlag
  <2>3. FlagOwners = {} /\ \A u \in Threads \ {t} : ~Reading(u)
    BY <1>0, <2>2, NobodyThere
  <2> QED
    BY <1>q, <2>1, <2>2, <2>3, MovePreserves DEF OneReader, WriterFlag
<1>8. CASE ReleaseWrite(t)
  <2>1. "idle" \in PCs /\ Goto(t, "idle") /\ pc'[t] = "idle"
    BY <1>8, <1>p DEF ReleaseWrite, PCs
  <2>2. /\ ~Counted(t) /\ ~Counted(t)' /\ ~OwnsFlag(t)' /\ OwnsFlag(t)
        /\ ~Reading(t)'
    BY <1>8, <2>1 DEF ReleaseWrite, Counted, OwnsFlag, Reading
  <2>3. lockState' = lockState - WriterFlag
    BY <1>0, <1>8, <1>m, <2>2 DEF ReleaseWrite, FetchAndNotWriter
  <2> QED
    BY <1>q, <2>1, <2>2, <2>3, MovePreserves DEF OneReader, WriterFlag
<1>9. CASE UpgradeToWriter(t)
  <2> DEFINE label == IF HasWriter(lockState) THEN "upWait" ELSE "upFlagged"
  <2>1. label \in PCs /\ Goto(t, label) /\ pc'[t] = label
    BY <1>9, <1>p DEF UpgradeToWriter, PCs
  <2>2. /\ Counted(t) /\ Counted(t)' /\ ~OwnsFlag(t) /\ Reading(t)
        /\ label # "write"
    BY <1>9, <2>1 DEF UpgradeToWriter, Counted, OwnsFlag, Reading
  <2>3. OwnsFlag(t)' <=> ~HasWriter(lockState)
    BY <2>1 DEF OwnsFlag
  <2>4. lockState' = IF HasWriter(lockState) THEN lockState
                     ELSE lockState + WriterFlag
    BY <1>9 DEF UpgradeToWriter, FetchOrWriter
  <2> HIDE DEF label
  <2> QED
    BY <1>0, <1>q, <2>1, <2>2, <2>3, <2>4, MovePreserves
       DEF OneReader, WriterFlag
<1>10. CASE UpgradeDropReader(t)
  <2> DEFINE label == IF lockState # OneReader + WriterFlag THEN "upDrain"
                      ELSE "write"
  <2>1. label \in PCs /\ Goto(t, label) /\ pc'[t] = label
    BY <1>10, <1>p DEF UpgradeDropReader, PCs
  <2>2. /\ Counted(t) /\ ~Counted(t)' /\ OwnsFlag(t) /\ OwnsFlag(t)'
        /\ Reading(t) /\ lockState' = lockState - OneReader
    BY <1>10, <2>1 DEF UpgradeDropReader, SubReader, Counted, OwnsFlag, Reading
  <2>3. label = "write" => \A u \in Threads \ {t} : ~Reading(u)
    <3>1. Cardinality(Readers) = 1 => Cardinality(Readers \ {t}) = 0
      BY <1>m, <2>2, ReadersFinite, FS_RemoveElement
    <3>2. IsFiniteSet(Readers \ {t})
      BY ReadersFinite, FS_Subset
    <3>3. label = "write" => Readers \subseteq {t}
      BY <1>0, <3>1, <3>2, FS_EmptySet
    <3> QED
      BY <1>m, <2>2, <3>3, NobodyThere
  <2> HIDE DEF label
  <2> QED
    BY <1>q, <2>1, <2>2, <2>3, MovePreserves DEF OneReader, WriterFlag
<1>11. CASE DowngradeToReader(t)
  <2>1. "read" \in PCs /\ Goto(t, "read") /\ pc'[t] = "read"
    BY <1>11, <1>p DEF DowngradeToReader, PCs
  <2>2. /\ ~Counted(t) /\ Counted(t)' /\ OwnsFlag(t) /\ ~OwnsFlag(t)'
        /\ lockState' = lockState + (OneReader - WriterFlag)
        /\ t \in FlagOwners
    BY <1>11, <2>1 DEF DowngradeToReader, Counted, OwnsFlag, FlagOwners
  <2>3. \A u \in Threads \ {t} : pc[u] # "write"
    BY <1>0, <2>2 DEF FlagOwners, OwnsFlag
  <2> QED
    BY <1>q, <2>1, <2>2, <2>3, MovePreserves DEF OneReader, WriterFlag
<1>12. CASE WaitForReaders(t)
  <2>1. "write" \in PCs /\ Goto(t, "write") /\ pc'[t] = "write"
    BY <1>12, <1>p DEF WaitForReaders, PCs
  <2>2. /\ ~Counted(t) /\ ~Counted(t)' /\ OwnsFlag(t) /\ OwnsFlag(t)'
        /\ ~Reading(t)' /\ lockState = WriterFlag /\ lockState' = lockState
    BY <1>12, <2>1 DEF WaitForReaders, Counted, OwnsFlag, Reading
  <2>3. \A u \in Threads \ {t} : ~Reading(u)
    BY <1>0, <1>m, <2>2, NobodyThere
  <2> QED
    BY <1>q, <2>1, <2>2, <2>3, MovePreserves DEF OneReader, WriterFlag
<1>13. CASE WaitForWriter(t)
  <2> DEFINE label == AfterWait[pc[t]]
  <2>1. label \in PCs /\ Goto(t, label) /\ pc'[t] = label
    BY <1>13, <1>p DEF WaitForWriter, AfterWait, PCs
  <2>2. /\ Counted(t)' <=> Counted(t) 
        /\ Reading(t)' <=> Reading(t)
        /\ ~OwnsFlag(t) /\ ~OwnsFlag(t)'
        /\ label # "write" /\ lockState' = lockState
    BY <1>13, <2>1 DEF WaitForWriter, AfterWait, Counted, OwnsFlag, Reading
  <2> HIDE DEF label
  <2> QED
    BY <1>q, <2>1, <2>2, MovePreserves DEF OneReader, WriterFlag
<1> QED
  BY <1>2, <1>3, <1>4, <1>6, <1>7, <1>8, <1>9, <1>10, <1>11, <1>12, <1>13
     DEF Step

-----------------------------------------------------------------------------

(* The invariant holds initially: nobody counted, no owner, a zero word.   *)
LEMMA InitHolds == Init => IInv
<1> SUFFICES ASSUME Init
             PROVE  IInv
  OBVIOUS
<1>1. \A t \in Threads : pc[t] = "idle"
  BY DEF Init
<1>2. Readers = {} /\ FlagOwners = {}
  BY <1>1 DEF Readers, FlagOwners, Counted, OwnsFlag
<1>3. LockWordExact
  BY <1>2, ReadersFinite DEF LockWordExact, OneReader, Init
<1>4. MutualExclusion
  BY <1>1 DEF MutualExclusion
<1>5. TypeOK
  BY DEF Init, TypeOK, PCs
<1> QED
  BY <1>3, <1>4, <1>5 DEF IInv

(* A stuttering step changes nothing the invariant reads.                  *)
LEMMA StutterPreserves == IInv /\ UNCHANGED vars => IInv'
<1> SUFFICES ASSUME IInv, UNCHANGED vars
             PROVE  IInv'
  OBVIOUS
<1>1. lockState' = lockState /\ pc' = pc
  BY DEF vars
<1>2. Readers' = Readers /\ FlagOwners' = FlagOwners
  BY <1>1 DEF Readers, FlagOwners, Counted, OwnsFlag
<1> QED
  BY <1>1, <1>2 DEF IInv, TypeOK, LockWordExact, MutualExclusion, Reading

(* IInv is an inductive invariant of the mutex.                            *)
THEOREM SpinInvariant == Spec => []IInv
<1>1. IInv /\ [Next]_vars => IInv'
  BY StepPreserves, StutterPreserves DEF Next
<1> QED
  BY InitHolds, <1>1, PTL DEF Spec

(* The lock word and the threads' positions stay in their types.           *)
THEOREM SpinTypeOK == Spec => []TypeOK
BY SpinInvariant, PTL DEF IInv

(* One writer or many readers, for every number of threads.                *)
THEOREM SpinMutualExclusion == Spec => []MutualExclusion
BY SpinInvariant, PTL DEF IInv

(* _lockState never leaks nor drops a reader, for every number of threads. *)
THEOREM SpinLockWordExact == Spec => []LockWordExact
BY SpinInvariant, PTL DEF IInv

-----------------------------------------------------------------------------
(* Action properties.                                                      *)

(* Once the flag is set only its owner, downgrading, starts to read.       *)
THEOREM SpinFlagBarsReaders == Spec => FlagBarsReaders
<1> DEFINE Barred == \A t \in Threads :
             (FlagOwners # {} /\ ~Reading(t) /\ Reading(t)') => pc[t] = "write"
<1>1. IInv /\ [Next]_vars => [Barred]_vars
  <2> SUFFICES ASSUME IInv, NEW u \in Threads, Step(u), NEW t \in Threads,
                      FlagOwners # {}, ~Reading(t), Reading(t)'
               PROVE  pc[t] = "write"
    BY DEF Next
  <2>0. HasWriter(lockState) /\ pc \in [Threads -> PCs]
    BY WordTells DEF IInv, TypeOK
  <2>1. \A label : Goto(u, label) => pc'[t] = IF t = u THEN label ELSE pc[t]
    BY <2>0 DEF Goto
  <2>2. t = u
    <3>1. \E label : Goto(u, label)
      BY DEF Step, TryAcquireRead, AcquireRead, AddReader, UndoRead,
             ReleaseRead, TryAcquireWrite, AcquireWrite, SetFlag,
             TryAcquireWriteIfReleased, ReleaseWrite, UpgradeToWriter,
             UpgradeDropReader, DowngradeToReader, WaitForReaders,
             WaitForWriter
    <3> QED
      BY <2>1, <3>1 DEF Reading
  <2>3. CASE TryAcquireRead(t) \/ AcquireRead(t)
    BY <2>0, <2>1, <2>2, <2>3 DEF TryAcquireRead, AcquireRead, AddReader, Reading
  <2>4. CASE UndoRead(t) \/ ReleaseRead(t) \/ ReleaseWrite(t) \/ WaitForReaders(t)
    BY <2>1, <2>2, <2>4 DEF UndoRead, ReleaseRead, ReleaseWrite,
                            WaitForReaders, Reading
  <2>5. CASE TryAcquireWrite(t) \/ AcquireWrite(t) \/ TryAcquireWriteIfReleased(t)
    BY <2>0, <2>1, <2>2, <2>5 DEF TryAcquireWrite, AcquireWrite, SetFlag,
                                  TryAcquireWriteIfReleased, Reading
  <2>6. CASE UpgradeToWriter(t) \/ UpgradeDropReader(t)
    BY <2>6 DEF UpgradeToWriter, UpgradeDropReader, Reading
  <2>7. CASE DowngradeToReader(t)
    BY <2>7 DEF DowngradeToReader
  <2>8. CASE WaitForWriter(t)
    BY <2>0, <2>8 DEF WaitForWriter
  <2> QED
    BY <2>2, <2>3, <2>4, <2>5, <2>6, <2>7, <2>8 DEF Step
<1> QED
  BY SpinInvariant, <1>1, PTL DEF Spec, FlagBarsReaders

(* An upgrader that met the flag holds a counted read, and the flag it met *)
(* stays set, since its owner cannot reach the write section.              *)
Standoff ==
    \A t \in Threads : /\ pc[t] # "upTry"
                       /\ pc[t] = "upWait" => FlagOwners # {}

(* With a thread in the wait of an upgrade nobody enters a write section.  *)
LEMMA NoWriteDuringWait ==
    ASSUME IInv, NEW t \in Threads, pc[t] = "upWait", NEW u \in Threads,
           Step(u)
    PROVE  /\ \A v \in Threads : pc'[v] # "write"
           /\ \A v \in FlagOwners : pc'[v] = pc[v] \/ OwnsFlag(v)'
<1>0. /\ pc \in [Threads -> PCs]
      /\ \A v \in Threads : pc[v] # "write"
      /\ t \in Readers
      /\ lockState # 0 /\ lockState # WriterFlag
      /\ lockState = OneReader + WriterFlag => Cardinality(Readers) = 1
  BY WordTells DEF IInv, TypeOK, MutualExclusion, Reading, Readers, Counted
<1>1. \A label : Goto(u, label) =>
          \A v \in Threads : pc'[v] = IF v = u THEN label ELSE pc[v]
  BY <1>0 DEF Goto
<1>2. CASE TryAcquireRead(u) \/ AcquireRead(u)
  BY <1>0, <1>1, <1>2 DEF TryAcquireRead, AcquireRead, AddReader, FlagOwners,
                          OwnsFlag
<1>3. CASE UndoRead(u) \/ ReleaseRead(u) \/ ReleaseWrite(u)
  BY <1>0, <1>1, <1>3 DEF UndoRead, ReleaseRead, ReleaseWrite, FlagOwners,
                          OwnsFlag
<1>4. CASE TryAcquireWrite(u) \/ AcquireWrite(u)
  BY <1>0, <1>1, <1>4 DEF TryAcquireWrite, AcquireWrite, SetFlag, FlagSet,
                          FlagOwners, OwnsFlag
<1>5. CASE TryAcquireWriteIfReleased(u) \/ WaitForReaders(u)
  BY <1>0, <1>5 DEF TryAcquireWriteIfReleased, WaitForReaders
<1>6. CASE UpgradeToWriter(u)
  BY <1>0, <1>1, <1>6 DEF UpgradeToWriter, FlagOwners, OwnsFlag
<1>7. CASE UpgradeDropReader(u)
  <2>1. u \in Readers /\ u # t
    BY <1>7 DEF UpgradeDropReader, Readers, Counted
  <2>2. Cardinality(Readers) # 1
    <3>1. Cardinality(Readers \ {u}) = Cardinality(Readers) - 1
          /\ IsFiniteSet(Readers \ {u})
      BY <2>1, ReadersFinite, FS_RemoveElement
    <3>2. Readers \ {u} # {}
      BY <1>0, <2>1
    <3> QED
      BY <3>1, <3>2, FS_EmptySet
  <2> QED
    BY <1>0, <1>1, <1>7, <2>2 DEF UpgradeDropReader, FlagOwners, OwnsFlag
<1>8. CASE DowngradeToReader(u)
  BY <1>0, <1>8 DEF DowngradeToReader
<1>9. CASE WaitForWriter(u)
  BY <1>0, <1>1, <1>9 DEF WaitForWriter, AfterWait, FlagOwners, OwnsFlag
<1> QED
  BY <1>2, <1>3, <1>4, <1>5, <1>6, <1>7, <1>8, <1>9 DEF Step

(* A contended upgrade waits for ever, and nobody writes meanwhile.        *)
THEOREM SpinContendedUpgradeStandoff == Spec => ContendedUpgradeStandoff
<1> DEFINE Stuck == \A t \in Threads : pc[t] = "upWait" =>
             /\ pc'[t] = "upWait"
             /\ \A u \in Threads : pc[u]' # "write"
<1>1. Init => Standoff
  BY DEF Init, Standoff
<1>2. ASSUME IInv, Standoff, NEW u \in Threads, Step(u)
      PROVE  Standoff' /\ Stuck
  <2>0. /\ pc \in [Threads -> PCs]
        /\ HasWriter(lockState) <=> FlagOwners # {}
    BY <1>2, WordTells DEF IInv, TypeOK
  <2>1. \A label : Goto(u, label) =>
            \A v \in Threads : pc'[v] = IF v = u THEN label ELSE pc[v]
    BY <2>0 DEF Goto
  <2>2. /\ \A v \in Threads : v # u => pc'[v] = pc[v]
        /\ pc'[u] # "upTry"
        /\ pc'[u] = "upWait" => FlagOwners # {}
        /\ pc[u] = "upWait" => pc'[u] = "upWait"
    <3>1. CASE WaitForWriter(u)
      BY <1>2, <2>0, <2>1, <3>1 DEF WaitForWriter, AfterWait, Standoff
    <3>2. CASE ~WaitForWriter(u)
      BY <1>2, <2>0, <2>1, <3>2 DEF Step, TryAcquireRead, AcquireRead,
         AddReader, UndoRead, ReleaseRead, TryAcquireWrite, AcquireWrite,
         SetFlag, FlagSet, TryAcquireWriteIfReleased, ReleaseWrite,
         UpgradeToWriter, UpgradeDropReader, DowngradeToReader, WaitForReaders
    <3> QED
      BY <3>1, <3>2
  <2>3. ASSUME NEW t \in Threads, pc[t] = "upWait"
        PROVE  FlagOwners' # {} /\ \A v \in Threads : pc'[v] # "write"
    <3>1. PICK w \in FlagOwners : TRUE
      BY <1>2, <2>3 DEF Standoff
    <3>2. pc'[w] = pc[w] \/ OwnsFlag(w)'
      BY <1>2, <2>3, <3>1, NoWriteDuringWait
    <3>3. w \in FlagOwners'
      BY <3>1, <3>2 DEF FlagOwners, OwnsFlag
    <3> QED
      BY <1>2, <2>3, <3>3, NoWriteDuringWait
  <2>4. ASSUME pc'[u] = "upWait", pc[u] # "upWait"
        PROVE  FlagOwners' # {}
    <3>1. PICK w \in FlagOwners : TRUE
      BY <2>2, <2>4
    <3>2. w # u
      <4>1. pc[u] = "read" \/ pc[u] = "upTry"
        BY <1>2, <2>1, <2>4 DEF Step, TryAcquireRead, AcquireRead,
           AddReader, UndoRead, ReleaseRead, TryAcquireWrite, AcquireWrite,
           SetFlag, FlagSet, TryAcquireWriteIfReleased, ReleaseWrite,
           UpgradeToWriter, UpgradeDropReader, DowngradeToReader,
           WaitForReaders, WaitForWriter, AfterWait
      <4> QED
        BY <3>1, <4>1 DEF FlagOwners, OwnsFlag
    <3> QED
      BY <2>2, <3>1, <3>2 DEF FlagOwners, OwnsFlag
  <2> QED
    BY <1>2, <2>2, <2>3, <2>4 DEF Standoff
<1>3. ASSUME Standoff, UNCHANGED vars
      PROVE  Standoff'
  <2>1. FlagOwners' = FlagOwners /\ pc' = pc
    BY <1>3 DEF vars, FlagOwners, OwnsFlag
  <2> QED
    BY <1>3, <2>1 DEF Standoff
<1>4. IInv /\ Standoff /\ [Next]_vars => Standoff' /\ [Stuck]_vars
  BY <1>2, <1>3 DEF Next
<1> QED
  BY SpinInvariant, <1>1, <1>4, PTL DEF Spec, ContendedUpgradeStandoff

-----------------------------------------------------------------------------
(* Refinement.                                                             *)

(* What a caller sees of one thread's move.                                *)
LEMMA ModeAfterMove ==
    ASSUME pc \in [Threads -> PCs], NEW t \in Threads, NEW label,
           Goto(t, label)
    PROVE  Mode' = [Mode EXCEPT ![t] =
               IF label = "write" THEN "write"
               ELSE IF label \in {"read", "upFlagged", "upDrain", "upWait", "upTry"}
                    THEN "read" ELSE "none"]
<1>1. \A u \in Threads : pc'[u] = IF u = t THEN label ELSE pc[u]
  BY DEF Goto
<1> QED
  BY <1>1 DEF Mode, Reading

(* Every step of the code is a step of the abstract lock or a stutter.     *)
LEMMA StepImplements ==
    ASSUME IInv, IInv', NEW t \in Threads, Step(t)
    PROVE  Abstract!Next \/ UNCHANGED Mode
<1>0. /\ pc \in [Threads -> PCs]
      /\ HasWriter(lockState) <=> FlagOwners # {}
      /\ \A u \in Threads : /\ pc[u] = "write" => FlagOwners # {}
                            /\ Mode[u] = IF pc[u] = "write" THEN "write"
                                   ELSE IF Reading(u) THEN "read" ELSE "none"
      /\ Mode = [u \in Threads |-> Mode[u]]
  BY WordTells DEF IInv, TypeOK, FlagOwners, OwnsFlag, Mode
<1>1. \A label : Goto(t, label) =>
        /\ \A u \in Threads : pc'[u] = IF u = t THEN label ELSE pc[u]
        /\ Mode' = [Mode EXCEPT ![t] =
             IF label = "write" THEN "write"
             ELSE IF label \in {"read", "upFlagged", "upDrain", "upWait", "upTry"}
                  THEN "read" ELSE "none"]
  BY <1>0, ModeAfterMove DEF Goto
<1>2. pc'[t] = "write" => \A u \in Threads \ {t} : Mode[u] = "none"
  <2>1. \E label : Goto(t, label)
    BY DEF Step, TryAcquireRead, AcquireRead, AddReader, UndoRead,
           ReleaseRead, TryAcquireWrite, AcquireWrite, SetFlag,
           TryAcquireWriteIfReleased, ReleaseWrite, UpgradeToWriter,
           UpgradeDropReader, DowngradeToReader, WaitForReaders,
           WaitForWriter
  <2>2. \A u \in Threads \ {t} : pc'[u] = pc[u]
    BY <1>1, <2>1
  <2> QED
    BY <1>0, <2>2 DEF IInv, MutualExclusion, Reading
<1>3. CASE TryAcquireRead(t) \/ AcquireRead(t)
  <2>1. CASE HasWriter(lockState)
    BY <1>0, <1>1, <1>3, <2>1 DEF TryAcquireRead, AcquireRead, AddReader, Reading
  <2>2. CASE ~HasWriter(lockState)
    <3>1. Goto(t, "read") /\ Mode[t] = "none"
      BY <1>0, <1>3, <2>2 DEF TryAcquireRead, AcquireRead, AddReader, Reading
    <3>2. \A u \in Threads \ {t} : Mode[u] \in {"none", "read"}
      BY <1>0, <2>2
    <3>3. Mode' = [Mode EXCEPT ![t] = "read"]
      BY <1>1, <3>1
    <3> QED
      BY <3>1, <3>2, <3>3 DEF Abstract!Next, Abstract!GetRead, Abstract!OthersHold
  <2> QED
    BY <2>1, <2>2
<1>4. CASE ReleaseRead(t) \/ ReleaseWrite(t)
  <2>1. Goto(t, "idle") /\ Mode[t] # "none"
    BY <1>0, <1>4 DEF ReleaseRead, ReleaseWrite, Reading
  <2>2. Mode' = [Mode EXCEPT ![t] = "none"]
    BY <1>1, <2>1
  <2> QED
    BY <2>1, <2>2 DEF Abstract!Next, Abstract!Release
<1>5. CASE UndoRead(t) \/ WaitForWriter(t)
  BY <1>0, <1>1, <1>5 DEF UndoRead, WaitForWriter, AfterWait, Reading
<1>6. CASE TryAcquireWrite(t) \/ AcquireWrite(t) \/ TryAcquireWriteIfReleased(t)
  <2>1. Mode[t] = "none" /\ \E label : Goto(t, label) /\ label \in
            {"idle", "writeWait", "drain", "write"}
    BY <1>0, <1>6 DEF TryAcquireWrite, AcquireWrite, SetFlag, FlagSet,
                      TryAcquireWriteIfReleased, Reading
  <2>2. CASE pc'[t] = "write"
    <3>1. Mode' = [Mode EXCEPT ![t] = "write"]
      BY <1>1, <2>1, <2>2
    <3> QED
      BY <1>2, <2>1, <2>2, <3>1 DEF Abstract!Next, Abstract!GetWrite,
                                    Abstract!OthersHold
  <2>3. CASE pc'[t] # "write"
    BY <1>0, <1>1, <2>1, <2>3
  <2> QED
    BY <2>2, <2>3
<1>7. CASE UpgradeToWriter(t)
  BY <1>0, <1>1, <1>7 DEF UpgradeToWriter, Reading
<1>8. CASE UpgradeDropReader(t) \/ (WaitForReaders(t) /\ pc[t] = "upDrain")
  <2>1. Mode[t] = "read" /\ \E label : Goto(t, label) /\ label \in
            {"upDrain", "write"}
    BY <1>0, <1>8 DEF UpgradeDropReader, WaitForReaders, Reading
  <2>2. CASE pc'[t] = "write"
    <3>1. Mode' = [Mode EXCEPT ![t] = "write"]
      BY <1>1, <2>1, <2>2
    <3> QED
      BY <1>2, <2>1, <2>2, <3>1 DEF Abstract!Next, Abstract!Upgrade,
                                    Abstract!OthersHold
  <2>3. CASE pc'[t] # "write"
    BY <1>0, <1>1, <2>1, <2>3
  <2> QED
    BY <2>2, <2>3
<1>9. CASE WaitForReaders(t) /\ pc[t] # "upDrain"
  <2>1. Goto(t, "write") /\ Mode[t] = "none"
    BY <1>0, <1>9 DEF WaitForReaders, Reading
  <2>2. Mode' = [Mode EXCEPT ![t] = "write"] /\ pc'[t] = "write"
    BY <1>1, <2>1
  <2> QED
    BY <1>2, <2>1, <2>2 DEF Abstract!Next, Abstract!GetWrite,
                            Abstract!OthersHold
<1>10. CASE DowngradeToReader(t)
  <2>1. Mode' = [Mode EXCEPT ![t] = "read"] /\ Mode[t] = "write"
    BY <1>0, <1>1, <1>10 DEF DowngradeToReader
  <2> QED
    BY <2>1 DEF Abstract!Next, Abstract!Downgrade
<1> QED
  BY <1>3, <1>4, <1>5, <1>6, <1>7, <1>8, <1>9, <1>10 DEF Step

(* TfSpinRWMutex implements the abstract reader/writer lock.               *)
THEOREM SpinImplementsRWLock == Spec => ImplementsRWLock
<1>1. Init => Abstract!Init
  BY DEF Init, Abstract!Init, Mode, Reading
<1>2. IInv /\ IInv' /\ [Next]_vars => [Abstract!Next]_Mode
  <2>1. UNCHANGED vars => UNCHANGED Mode
    BY DEF vars, Mode, Reading
  <2> QED
    BY <2>1, StepImplements DEF Next
<1> QED
  BY SpinInvariant, <1>1, <1>2, PTL DEF Spec, ImplementsRWLock, Abstract!Spec

-----------------------------------------------------------------------------
(* The memory orders.                                                      *)

(* Past the operation that let it in: a reader that is counted in, or the  *)
(* owner of the flag, which may have to wait.                              *)
Admitted(t) == Reading(t) \/ OwnsFlag(t)

(* Who has been admitted sees all writes, so the waits that follow need no *)
(* order; a write that is not released is one whose section goes on; and   *)
(* nobody's own accesses are hidden from it.                               *)
AdmittedSee == \A t \in Threads : Admitted(t) => UnseenOf(t, "write") = {}
WritingUnreleased ==
    \A u \in Threads : <<u, "write">> \in unreleased => pc[u] = "write"
OwnSeen == \A t \in Threads : \A kind \in {"read", "write"} :
               <<t, kind>> \notin unseen[t]

OrderInv == IInv /\ AdmittedSee /\ WritingUnreleased /\ OwnSeen

(* Every step with its order is a step of SpinRWMutex.                     *)
LEMMA OrderStep ==
    ASSUME NEW t \in Threads,
           AcquiringOp(t) \/ ReleasingOp(t) \/ DowngradeOp(t) \/ WaitOp(t)
    PROVE  Step(t)
BY DEF AcquiringOp, ReleasingOp, DowngradeOp, WaitOp, Step

(* A step moves its thread alone.                                          *)
LEMMA StepMoves ==
    ASSUME pc \in [Threads -> PCs], NEW t \in Threads, Step(t)
    PROVE  \A u \in Threads \ {t} : pc'[u] = pc[u]
BY DEF Step, TryAcquireRead, AcquireRead, UndoRead, ReleaseRead,
       TryAcquireWrite, AcquireWrite, TryAcquireWriteIfReleased, ReleaseWrite,
       UpgradeToWriter, UpgradeDropReader, DowngradeToReader, WaitForReaders,
       WaitForWriter, AddReader, SetFlag, Goto

(* Whoever is admitted by a step found no owner of the flag, and used an   *)
(* operation with acquire order.                                           *)
LEMMA AdmissionAcquires ==
    ASSUME IInv, NEW t \in Threads,
           AcquiringOp(t) \/ ReleasingOp(t) \/ DowngradeOp(t) \/ WaitOp(t),
           ~Admitted(t), Admitted(t)'
    PROVE  AcquireOrder(t) /\ \A u \in Threads : pc[u] # "write"
<1>0. /\ pc \in [Threads -> PCs] /\ lockState \in Nat
      /\ HasWriter(lockState) <=> FlagOwners # {}
      /\ lockState = 0 => FlagOwners = {}
  BY WordTells DEF IInv, TypeOK
<1>1. AcquiringOp(t)
  BY <1>0 DEF ReleasingOp, DowngradeOp, WaitOp, Admitted, Reading, OwnsFlag,
       UndoRead, ReleaseRead, ReleaseWrite, UpgradeDropReader,
       DowngradeToReader, WaitForReaders, WaitForWriter, AfterWait, Goto
<1>2. FlagOwners = {}
  <2>1. CASE TryAcquireRead(t) \/ AcquireRead(t)
    BY <1>0, <2>1 DEF TryAcquireRead, AcquireRead, AddReader, Goto, Admitted,
                      Reading, OwnsFlag
  <2>2. CASE TryAcquireWrite(t) \/ AcquireWrite(t)
    BY <1>0, <2>2 DEF TryAcquireWrite, AcquireWrite, SetFlag, Goto, Admitted,
                      Reading, OwnsFlag
  <2>3. CASE TryAcquireWriteIfReleased(t)
    BY <1>0, <2>3 DEF TryAcquireWriteIfReleased
  <2>4. CASE UpgradeToWriter(t)
    BY <2>4 DEF UpgradeToWriter, Admitted, Reading
  <2> QED
    BY <1>1, <2>1, <2>2, <2>3, <2>4 DEF AcquiringOp
<1> QED
  BY <1>1, <1>2, NobodyThere DEF AcquiringOp

(* Every order takes from what its thread does not see, and adds to what   *)
(* the others do not see the section that its step enters.                 *)
LEMMA OrdersNarrow ==
    ASSUME NEW t \in Threads,
           AcquiringOp(t) \/ ReleasingOp(t) \/ DowngradeOp(t) \/ WaitOp(t)
    PROVE  /\ unseen'[t] \subseteq unseen[t]
           /\ \A u \in Threads \ {t} : unseen'[u] = unseen[u] \cup Entered(t)
           /\ unreleased' \subseteq unreleased \cup Entered(t)
BY DEF AcquiringOp, ReleasingOp, DowngradeOp, WaitOp, AcquireOrder,
       ReleaseOrder, AcqRelOrder, RelaxedOrder, Order

(* A thread that leaves its write section publishes it.                    *)
LEMMA WriterReleases ==
    ASSUME NEW t \in Threads, pc \in [Threads -> PCs], OwnSeen,
           AcquiringOp(t) \/ ReleasingOp(t) \/ DowngradeOp(t) \/ WaitOp(t),
           pc[t] = "write", pc'[t] # "write"
    PROVE  <<t, "write">> \notin unreleased'
<1>1. ReleasingOp(t) \/ DowngradeOp(t)
  BY DEF AcquiringOp, WaitOp, TryAcquireRead, AcquireRead, TryAcquireWrite,
         AcquireWrite, TryAcquireWriteIfReleased, UpgradeToWriter,
         WaitForReaders, WaitForWriter, AfterWait
<1>2. <<t, "write">> \notin Entered(t)
  BY DEF Entered
<1> QED
  BY <1>1, <1>2 DEF ReleasingOp, DowngradeOp, ReleaseOrder, AcqRelOrder, Order,
                    OwnSeen

(* Each operation with its order preserves the invariant.                  *)
LEMMA OrderStepPreserves ==
    ASSUME OrderInv, NEW t \in Threads,
           AcquiringOp(t) \/ ReleasingOp(t) \/ DowngradeOp(t) \/ WaitOp(t)
    PROVE  OrderInv'
<1>0. Step(t) /\ IInv /\ pc \in [Threads -> PCs]
  BY OrderStep DEF OrderInv, IInv, TypeOK
<1>1. IInv'
  BY <1>0, StepPreserves
<1>2. \A u \in Threads \ {t} : pc'[u] = pc[u]
  BY <1>0, StepMoves
<1>3. /\ unseen'[t] \subseteq unseen[t]
      /\ \A u \in Threads \ {t} : unseen'[u] = unseen[u] \cup Entered(t)
      /\ unreleased' \subseteq unreleased \cup Entered(t)
  BY OrdersNarrow
<1>4. OwnSeen'
  <2>1. \A u \in Threads \ {t} : \A kind \in {"read", "write"} :
            <<u, kind>> \notin Entered(t)
    BY DEF Entered
  <2>2. \A u \in Threads : \A kind \in {"read", "write"} :
            <<u, kind>> \notin unseen'[u]
    BY <1>3, <2>1 DEF OrderInv, OwnSeen
  <2> QED
    BY <2>2 DEF OwnSeen
<1>5. WritingUnreleased'
  <2> SUFFICES ASSUME NEW u \in Threads, <<u, "write">> \in unreleased'
               PROVE  pc'[u] = "write"
    BY DEF WritingUnreleased
  <2>1. CASE u = t
    <3>1. CASE <<t, "write">> \in Entered(t)
      BY <2>1, <3>1 DEF Entered
    <3>2. CASE <<t, "write">> \in unreleased
      BY <1>0, <2>1, <3>2, WriterReleases DEF OrderInv, WritingUnreleased
    <3> QED
      BY <1>3, <2>1, <3>1, <3>2
  <2>2. CASE u # t
    BY <1>2, <1>3, <2>2 DEF OrderInv, WritingUnreleased, Entered
  <2> QED
    BY <2>1, <2>2
<1>6. AdmittedSee'
  <2> SUFFICES ASSUME NEW u \in Threads, Admitted(u)',
                      NEW v \in Threads, <<v, "write">> \in unseen'[u]
               PROVE  FALSE
    BY DEF AdmittedSee, UnseenOf
  <2>1. CASE u = t /\ Admitted(t)
    BY <1>3, <2>1 DEF OrderInv, AdmittedSee, UnseenOf
  <2>2. CASE u = t /\ ~Admitted(t)
    <3>1. AcquireOrder(t) /\ \A w \in Threads : pc[w] # "write"
      BY <1>0, <2>2, AdmissionAcquires
    <3>2. <<v, "write">> \in unreleased
      BY <2>2, <3>1 DEF AcquireOrder, Order
    <3> QED
      BY <3>1, <3>2 DEF OrderInv, WritingUnreleased
  <2>3. CASE u # t
    <3>1. Admitted(u)
      BY <1>2, <2>3 DEF Admitted, Reading, OwnsFlag
    <3>2. <<v, "write">> \in Entered(t)
      BY <1>3, <2>3, <3>1 DEF OrderInv, AdmittedSee, UnseenOf
    <3>3. pc'[t] = "write"
      BY <3>2 DEF Entered
    <3>4. ~Reading(u)'
      BY <1>1, <2>3, <3>3 DEF IInv, MutualExclusion
    <3>5. t \in FlagOwners' /\ (OwnsFlag(u)' => u \in FlagOwners')
      BY <3>3 DEF FlagOwners, OwnsFlag
    <3>6. \A x, y \in FlagOwners' : x = y
      BY <1>1 DEF IInv, LockWordExact
    <3> QED
      BY <2>3, <3>4, <3>5, <3>6 DEF Admitted
  <2> QED
    BY <2>1, <2>2, <2>3
<1> QED
  BY <1>1, <1>4, <1>5, <1>6 DEF OrderInv

-----------------------------------------------------------------------------

(* OrderInv is an inductive invariant of the mutex with its orders.        *)
THEOREM OrderInvariant == OrderSpec => []OrderInv
<1>1. OrderInit => OrderInv
  <2> SUFFICES ASSUME OrderInit
               PROVE  OrderInv
    OBVIOUS
  <2>1. IInv
    BY InitHolds DEF OrderInit
  <2> QED
    BY <2>1 DEF OrderInv, OrderInit, AdmittedSee, WritingUnreleased, OwnSeen,
                UnseenOf
<1>2. OrderInv /\ [OrderNext]_orderVars => OrderInv'
  <2>1. ASSUME OrderInv, UNCHANGED orderVars
        PROVE  OrderInv'
    <3>1. /\ lockState' = lockState /\ pc' = pc
          /\ unseen' = unseen /\ unreleased' = unreleased
      BY <2>1 DEF orderVars
    <3>2. IInv'
      BY <2>1, <3>1, StutterPreserves DEF OrderInv, vars
    <3> QED
      BY <2>1, <3>1, <3>2 DEF OrderInv, AdmittedSee, WritingUnreleased, OwnSeen,
                     UnseenOf, Admitted, Reading, OwnsFlag
  <2> QED
    BY <2>1, OrderStepPreserves DEF OrderNext
<1> QED
  BY <1>1, <1>2, PTL DEF OrderSpec

(* A section is ordered after every earlier write section, through         *)
(* downgrades, upgrades and failed attempts, for any number of threads.    *)
THEOREM OrderWritesAreSeen == OrderSpec => []WritesAreSeen
<1>1. OrderInv => WritesAreSeen
  BY DEF OrderInv, AdmittedSee, WritesAreSeen, Admitted, Reading, OwnsFlag
<1> QED
  BY <1>1, OrderInvariant, PTL

-----------------------------------------------------------------------------
(* TfBigRWMutex, with variables of its own beside those of the spin mutex, *)
(* for any number of states.                                               *)

CONSTANT NumStates

VARIABLES bigWriterActive, bigLockState, bigPc, bigIndex, bigStage

Big == INSTANCE BigRWMutex WITH
    writerActive <- bigWriterActive, lockState <- bigLockState,
    pc <- bigPc, index <- bigIndex, stage <- bigStage

BigAssumptions == IsFiniteSet(Threads) /\ NumStates \in Nat \ {0}

-----------------------------------------------------------------------------
(* The inductive invariant.                                                *)

(* What a thread has in state i: a counted reader, the flag, a read lock,  *)
(* an exclusive hold.                                                      *)
CountedAt(t, i) == bigPc[t] \in {"read", "readUndo"} /\ bigIndex[t] = i
OwnsAt(t, i) == \/ bigPc[t] = "staging" /\ bigStage[t][i] # "NotAcquired"
                \/ bigPc[t] = "write"
                \/ bigPc[t] = "releasing" /\ bigIndex[t] <= i
ReadsAt(t, i) == bigPc[t] = "read" /\ bigIndex[t] = i
ClearedAt(t, i) == \/ bigPc[t] = "staging" /\ bigStage[t][i] = "Acquired"
                   \/ bigPc[t] = "write"

(* The word of state i counts its readers and the flag of its one owner.   *)
WordExact(i) ==
    /\ bigLockState[i] = Big!OneReader * Cardinality(Big!CountedIn(i))
                        + (IF Big!FlagOwnersOf(i) = {} THEN 0 ELSE Big!WriterFlag)
    /\ \A u, v \in Big!FlagOwnersOf(i) : u = v

(* Nobody reads at a state the writer has found free of readers.           *)
ClearedIsClear ==
    \A t, u \in Threads : \A i \in Big!States : ~(ClearedAt(t, i) /\ ReadsAt(u, i))

(* Loops over the states begin at the first and leave no stages behind.    *)
Placed(t) ==
    /\ bigPc[t] \in {"idle", "writeTry", "writeWait", "write"} => bigIndex[t] = 0
    /\ bigPc[t] # "staging" => bigStage[t] = Big!NoStage

BigInv ==
    /\ Big!TypeOK
    /\ \A i \in Big!States : WordExact(i)
    /\ ClearedIsClear
    /\ \A t \in Threads : Placed(t)

-----------------------------------------------------------------------------
(* Words.                                                                  *)

(* A word of n readers and the flag bit f tells n and f apart.             *)
LEMMA WordParity ==
    ASSUME NEW n \in Nat, NEW f \in {0, 1}
    PROVE  /\ Big!Spin!HasWriter(Big!OneReader * n + f) <=> f = 1
           /\ (Big!OneReader * n + f = 0) <=> (n = 0 /\ f = 0)
           /\ (Big!OneReader * n + f = Big!WriterFlag) <=> (n = 0 /\ f = 1)
BY SMT DEF Big!OneReader, Big!WriterFlag, Big!Spin!HasWriter, Big!Spin!OneReader,
           Big!Spin!WriterFlag

(* CountedIn is finite, and empty exactly when its cardinality is zero.    *)
LEMMA CountedFinite ==
    ASSUME BigAssumptions, NEW i \in Big!States
    PROVE  /\ IsFiniteSet(Big!CountedIn(i)) /\ Cardinality(Big!CountedIn(i)) \in Nat
           /\ Cardinality(Big!CountedIn(i)) = 0 <=> Big!CountedIn(i) = {}
<1>1. IsFiniteSet(Big!CountedIn(i))
  BY FS_Subset DEF BigAssumptions, Big!CountedIn
<1> QED
  BY <1>1, FS_CardinalityType, FS_EmptySet

(* What a thread learns from the word of a state.                          *)
LEMMA BigWordTells ==
    ASSUME BigAssumptions, NEW i \in Big!States, WordExact(i)
    PROVE  /\ bigLockState[i] \in Nat
           /\ Big!HasWriter(i) <=> Big!FlagOwnersOf(i) # {}
           /\ bigLockState[i] = 0 <=> (Big!CountedIn(i) = {} /\ Big!FlagOwnersOf(i) = {})
           /\ bigLockState[i] = Big!WriterFlag
                <=> (Big!CountedIn(i) = {} /\ Big!FlagOwnersOf(i) # {})
<1> DEFINE f == IF Big!FlagOwnersOf(i) = {} THEN 0 ELSE Big!WriterFlag
<1>1. f \in {0, 1} /\ (f = 1 <=> Big!FlagOwnersOf(i) # {})
  BY DEF Big!WriterFlag, Big!Spin!WriterFlag
<1>2. bigLockState[i] = Big!OneReader * Cardinality(Big!CountedIn(i)) + f
  BY DEF WordExact
<1>3. /\ Cardinality(Big!CountedIn(i)) \in Nat
      /\ Cardinality(Big!CountedIn(i)) = 0 <=> Big!CountedIn(i) = {}
  BY CountedFinite
<1>4. bigLockState[i] \in Nat
  BY <1>1, <1>2, <1>3, SMT DEF Big!OneReader, Big!Spin!OneReader
<1> HIDE DEF f
<1> QED
  BY <1>1, <1>2, <1>3, <1>4, WordParity DEF Big!HasWriter

(* The move of one thread, as the others see it.                           *)
OthersStay(t) ==
    \A u \in Threads \ {t} :
        bigPc'[u] = bigPc[u] /\ bigIndex'[u] = bigIndex[u] /\ bigStage'[u] = bigStage[u]

(* A move changes the count of a state by that thread's own reader.        *)
LEMMA BigCountAfterMove ==
    ASSUME BigAssumptions, NEW t \in Threads, NEW i \in Big!States, OthersStay(t)
    PROVE  /\ CountedAt(t, i)' /\ ~CountedAt(t, i)
                => Cardinality(Big!CountedIn(i)') = Cardinality(Big!CountedIn(i)) + 1
           /\ CountedAt(t, i) /\ ~CountedAt(t, i)'
                => Cardinality(Big!CountedIn(i)') = Cardinality(Big!CountedIn(i)) - 1
           /\ (CountedAt(t, i)' <=> CountedAt(t, i))
                => Big!CountedIn(i)' = Big!CountedIn(i)
<1>1. CASE CountedAt(t, i)' /\ ~CountedAt(t, i)
  <2>1. Big!CountedIn(i)' = Big!CountedIn(i) \cup {t} /\ t \notin Big!CountedIn(i)
    BY <1>1 DEF Big!CountedIn, CountedAt, OthersStay
  <2> QED
    BY <1>1, <2>1, CountedFinite, FS_AddElement
<1>2. CASE CountedAt(t, i) /\ ~CountedAt(t, i)'
  <2>1. Big!CountedIn(i)' = Big!CountedIn(i) \ {t} /\ t \in Big!CountedIn(i)
    BY <1>2 DEF Big!CountedIn, CountedAt, OthersStay
  <2> QED
    BY <1>2, <2>1, CountedFinite, FS_RemoveElement
<1>3. CASE CountedAt(t, i)' <=> CountedAt(t, i)
  BY <1>3 DEF Big!CountedIn, CountedAt, OthersStay
<1> QED
  BY <1>1, <1>2, <1>3

(* A word stays exact if it changes by what the thread gains and loses, a  *)
(* flag being gained from nobody only.                                     *)
LEMMA BigWordAfterMove ==
    ASSUME BigAssumptions, NEW t \in Threads, NEW i \in Big!States, OthersStay(t),
           WordExact(i),
           bigLockState'[i] = bigLockState[i]
               + (IF CountedAt(t, i)' THEN Big!OneReader ELSE 0)
               - (IF CountedAt(t, i) THEN Big!OneReader ELSE 0)
               + (IF OwnsAt(t, i)' THEN Big!WriterFlag ELSE 0)
               - (IF OwnsAt(t, i) THEN Big!WriterFlag ELSE 0),
           OwnsAt(t, i)' => OwnsAt(t, i) \/ Big!FlagOwnersOf(i) = {}
    PROVE  WordExact(i)' /\ bigLockState'[i] \in Nat
<1> DEFINE flag(S) == IF S = {} THEN 0 ELSE Big!WriterFlag
<1>1. /\ Big!FlagOwnersOf(i)' = (Big!FlagOwnersOf(i) \ {t})
                         \cup (IF OwnsAt(t, i)' THEN {t} ELSE {})
      /\ t \in Big!FlagOwnersOf(i) <=> OwnsAt(t, i)
  BY DEF Big!FlagOwnersOf, OwnsAt, OthersStay
<1>2. \A v, w \in Big!FlagOwnersOf(i) : v = w
  BY DEF WordExact
<1>3. \A v, w \in Big!FlagOwnersOf(i)' : v = w
  BY <1>1, <1>2
<1>4. flag(Big!FlagOwnersOf(i)') = flag(Big!FlagOwnersOf(i))
               + (IF OwnsAt(t, i)' THEN Big!WriterFlag ELSE 0)
               - (IF OwnsAt(t, i) THEN Big!WriterFlag ELSE 0)
  <2>1. OwnsAt(t, i) => Big!FlagOwnersOf(i) = {t}
    BY <1>1, <1>2
  <2>2. CASE OwnsAt(t, i)
    BY <1>1, <2>1, <2>2 DEF Big!WriterFlag, Big!Spin!WriterFlag
  <2>3. CASE ~OwnsAt(t, i) /\ OwnsAt(t, i)'
    BY <1>1, <2>3 DEF Big!WriterFlag, Big!Spin!WriterFlag
  <2>4. CASE ~OwnsAt(t, i) /\ ~OwnsAt(t, i)'
    <3>1. Big!FlagOwnersOf(i)' = Big!FlagOwnersOf(i)
      BY <1>1, <2>4
    <3> QED
      BY <2>4, <3>1 DEF Big!WriterFlag, Big!Spin!WriterFlag
  <2> QED
    BY <2>2, <2>3, <2>4
<1>5. Cardinality(Big!CountedIn(i)') = Cardinality(Big!CountedIn(i))
               + (IF CountedAt(t, i)' THEN 1 ELSE 0)
               - (IF CountedAt(t, i) THEN 1 ELSE 0)
  BY BigCountAfterMove, CountedFinite
<1>6. Cardinality(Big!CountedIn(i)') \in Nat
  <2>1. IsFiniteSet(Big!CountedIn(i)')
    BY FS_Subset DEF BigAssumptions, Big!CountedIn
  <2> QED
    BY <2>1, FS_CardinalityType
<1>7. bigLockState'[i] = Big!OneReader * Cardinality(Big!CountedIn(i)')
                        + flag(Big!FlagOwnersOf(i)')
  <2>1. bigLockState[i] = Big!OneReader * Cardinality(Big!CountedIn(i))
                         + flag(Big!FlagOwnersOf(i))
    BY DEF WordExact
  <2>2. Cardinality(Big!CountedIn(i)) \in Nat /\ flag(Big!FlagOwnersOf(i)) \in {0, 1}
    BY CountedFinite DEF Big!WriterFlag, Big!Spin!WriterFlag
  <2> HIDE DEF flag
  <2> QED
    BY <1>4, <1>5, <2>1, <2>2, SMT DEF Big!OneReader, Big!WriterFlag,
       Big!Spin!OneReader,
                                       Big!Spin!WriterFlag
<1> QED
  BY <1>3, <1>6, <1>7 DEF WordExact, Big!OneReader, Big!WriterFlag, Big!Spin!OneReader,
                          Big!Spin!WriterFlag

-----------------------------------------------------------------------------
(* Steps.                                                                  *)

(* One thread's move preserves the invariant if it changes each word by    *)
(* its own count and flag, takes flags from nobody, finds a state clear    *)
(* only without readers and reads only where nobody owns the flag.         *)
LEMMA BigMovePreserves ==
    ASSUME BigAssumptions, BigInv, NEW t \in Threads, OthersStay(t),
           bigWriterActive' \in BOOLEAN,
           DOMAIN bigLockState' = Big!States,
           bigLockState' = [i \in Big!States |-> bigLockState'[i]],
           bigPc' \in [Threads -> Big!PCs], bigIndex' \in [Threads -> Big!States],
           bigStage' \in [Threads -> [Big!States -> Big!Stages]],
           \A i \in Big!States : bigLockState'[i] = bigLockState[i]
               + (IF CountedAt(t, i)' THEN Big!OneReader ELSE 0)
               - (IF CountedAt(t, i) THEN Big!OneReader ELSE 0)
               + (IF OwnsAt(t, i)' THEN Big!WriterFlag ELSE 0)
               - (IF OwnsAt(t, i) THEN Big!WriterFlag ELSE 0),
           \A i \in Big!States :
               OwnsAt(t, i)' => OwnsAt(t, i) \/ Big!FlagOwnersOf(i) = {},
           \A i \in Big!States :
               ClearedAt(t, i)' => ClearedAt(t, i) \/ Big!CountedIn(i) = {},
           \A i \in Big!States :
               ReadsAt(t, i)' => ReadsAt(t, i) \/ Big!FlagOwnersOf(i) = {},
           Placed(t)'
    PROVE  BigInv'
<1>1. \A i \in Big!States : WordExact(i)' /\ bigLockState'[i] \in Nat
  BY BigWordAfterMove DEF BigInv
<1>2. Big!TypeOK'
  BY <1>1 DEF Big!TypeOK
<1>3. \A u \in Threads : Placed(u)'
  BY DEF BigInv, Placed, OthersStay
<1>4. ClearedIsClear'
  <2> SUFFICES ASSUME NEW v \in Threads, NEW u \in Threads, NEW i \in Big!States,
                      ClearedAt(v, i)', ReadsAt(u, i)'
               PROVE  FALSE
    BY DEF ClearedIsClear
  <2>0. ~(ClearedAt(v, i) /\ ReadsAt(u, i)) /\ v # u
    BY DEF BigInv, ClearedIsClear, ClearedAt, ReadsAt
  <2>1. CASE v = t
    <3>1. ReadsAt(u, i) /\ u \in Big!CountedIn(i)
      BY <2>0, <2>1 DEF ReadsAt, OthersStay, Big!CountedIn
    <3> QED
      BY <2>0, <2>1, <3>1
  <2>2. CASE u = t
    <3>1. ClearedAt(v, i) /\ v \in Big!FlagOwnersOf(i)
      BY <2>0, <2>2 DEF ClearedAt, OthersStay, Big!FlagOwnersOf
    <3> QED
      BY <2>0, <2>2, <3>1
  <2>3. CASE v # t /\ u # t
    BY <2>0, <2>3 DEF ClearedAt, ReadsAt, OthersStay
  <2> QED
    BY <2>1, <2>2, <2>3
<1> QED
  BY <1>1, <1>2, <1>3, <1>4 DEF BigInv

(* The same with nothing counted, owned or cleared before or after.        *)
LEMMA BigFreeMovePreserves ==
    ASSUME BigAssumptions, BigInv, NEW t \in Threads, OthersStay(t),
           bigWriterActive' \in BOOLEAN, bigLockState' = bigLockState,
           bigPc' \in [Threads -> Big!PCs], bigIndex' \in [Threads -> Big!States],
           bigStage' \in [Threads -> [Big!States -> Big!Stages]],
           \A i \in Big!States : /\ ~CountedAt(t, i) /\ ~CountedAt(t, i)'
                                 /\ ~OwnsAt(t, i) /\ ~OwnsAt(t, i)',
           Placed(t)'
    PROVE  BigInv'
<1>1. \A i \in Big!States : bigLockState[i] \in Nat
  BY DEF BigInv, Big!TypeOK
<1>2. \A i \in Big!States : bigLockState'[i] = bigLockState[i] + 0 - 0 + 0 - 0
  BY <1>1
<1>3. \A i \in Big!States : ~ClearedAt(t, i)' /\ ~ReadsAt(t, i)'
  BY DEF ClearedAt, OwnsAt, ReadsAt, CountedAt
<1>4. bigLockState \in [Big!States -> Nat]
  BY DEF BigInv, Big!TypeOK
<1> QED
  BY <1>2, <1>3, <1>4, BigMovePreserves

(* Each operation preserves the invariant.                                 *)
LEMMA BigStepPreserves ==
    ASSUME BigAssumptions, BigInv, NEW t \in Threads,
           \/ Big!AcquireRead(t) \/ Big!ReadAdd(t) \/ Big!ReadUndo(t) \/ Big!ReadSpin(t)
           \/ Big!ReleaseRead(t)
           \/ Big!AcquireWrite(t) \/ Big!WriteWait(t) \/ Big!Staging(t)
           \/ Big!ReleaseWrite(t) \/ Big!ReleaseState(t) \/ Big!UpgradeToWriter(t)
    PROVE  BigInv'
<1>0. /\ Big!TypeOK /\ Placed(t)
      /\ bigWriterActive \in BOOLEAN
      /\ bigLockState \in [Big!States -> Nat]
      /\ bigPc \in [Threads -> Big!PCs] /\ bigIndex \in [Threads -> Big!States]
      /\ bigStage \in [Threads -> [Big!States -> Big!Stages]]
      /\ \A i \in Big!States : bigLockState[i] \in Nat
  BY DEF BigInv, Big!TypeOK
<1>s. 0 \in Big!States /\ Big!NoStage \in [Big!States -> Big!Stages]
  BY DEF BigAssumptions, Big!States, Big!NoStage, Big!Stages
<1>w. \A i \in Big!States :
        /\ Big!HasWriter(i) <=> Big!FlagOwnersOf(i) # {}
        /\ bigLockState[i] = 0 <=> (Big!CountedIn(i) = {} /\ Big!FlagOwnersOf(i) = {})
        /\ bigLockState[i] = Big!WriterFlag
             <=> (Big!CountedIn(i) = {} /\ Big!FlagOwnersOf(i) # {})
  BY BigWordTells DEF BigInv
<1>1. CASE Big!AcquireRead(t)
  <2>1. /\ bigPc[t] = "idle" /\ bigPc'[t] \in {"readSpin", "readAdd"}
        /\ bigStage' = bigStage /\ bigLockState' = bigLockState
        /\ bigWriterActive' = bigWriterActive
        /\ bigIndex' \in [Threads -> Big!States] /\ bigPc' \in [Threads -> Big!PCs]
        /\ OthersStay(t)
    BY <1>0, <1>1 DEF Big!AcquireRead, Big!Goto, Big!PCs, OthersStay
  <2>2. Placed(t)'
    BY <1>0, <2>1 DEF Placed
  <2> QED
    BY <1>0, <2>1, <2>2, BigFreeMovePreserves DEF CountedAt, OwnsAt
<1>2. CASE Big!ReadSpin(t) \/ Big!WriteWait(t) \/ Big!AcquireWrite(t)
  <2>1. /\ bigPc[t] \in {"readSpin", "writeWait", "idle", "writeTry"}
        /\ bigPc'[t] \in {"readAdd", "writeTry", "writeWait", "staging"}
        /\ bigStage' = bigStage /\ bigLockState' = bigLockState /\ bigIndex' = bigIndex
        /\ bigWriterActive' \in BOOLEAN /\ bigPc' \in [Threads -> Big!PCs]
        /\ OthersStay(t)
        /\ bigPc[t] = "readSpin" => bigPc'[t] = "readAdd"
    BY <1>0, <1>2 DEF Big!ReadSpin, Big!WriteWait, Big!AcquireWrite, Big!Goto,
       Big!PCs, OthersStay
  <2>2. bigStage'[t] = Big!NoStage
    BY <1>0, <2>1 DEF Placed
  <2>3. Placed(t)'
    BY <1>0, <2>1, <2>2 DEF Placed
  <2>4. \A i \in Big!States : bigStage'[t][i] = "NotAcquired"
    BY <2>2 DEF Big!NoStage
  <2> QED
    BY <1>0, <2>1, <2>3, <2>4, BigFreeMovePreserves DEF CountedAt, OwnsAt
<1>3. CASE Big!ReadAdd(t)
  <2>1. /\ bigPc[t] = "readAdd"
        /\ bigPc'[t] = IF Big!HasWriter(bigIndex[t]) THEN "readUndo" ELSE "read"
        /\ bigLockState' = [bigLockState EXCEPT ![bigIndex[t]] = @ + Big!OneReader]
        /\ bigStage' = bigStage /\ bigIndex' = bigIndex
        /\ bigWriterActive' = bigWriterActive
        /\ bigPc' \in [Threads -> Big!PCs] /\ OthersStay(t)
        /\ bigIndex[t] \in Big!States
    BY <1>0, <1>3 DEF Big!ReadAdd, Big!Goto, Big!PCs, OthersStay
  <2>2. /\ \A i \in Big!States : ~CountedAt(t, i) /\ ~OwnsAt(t, i)
        /\ \A i \in Big!States : ~OwnsAt(t, i)' /\ ~ClearedAt(t, i)'
        /\ \A i \in Big!States : CountedAt(t, i)' <=> i = bigIndex[t]
        /\ Placed(t)'
    BY <1>0, <2>1 DEF CountedAt, OwnsAt, ClearedAt, Placed
  <2>3. \A i \in Big!States : ReadsAt(t, i)' => Big!FlagOwnersOf(i) = {}
    BY <1>w, <2>1 DEF ReadsAt
  <2>4. \A i \in Big!States : bigLockState'[i] = bigLockState[i]
               + (IF CountedAt(t, i)' THEN Big!OneReader ELSE 0)
               - (IF CountedAt(t, i) THEN Big!OneReader ELSE 0)
               + (IF OwnsAt(t, i)' THEN Big!WriterFlag ELSE 0)
               - (IF OwnsAt(t, i) THEN Big!WriterFlag ELSE 0)
    BY <1>0, <2>1, <2>2 DEF Big!OneReader, Big!Spin!OneReader
  <2> QED
    BY <1>0, <2>1, <2>2, <2>3, <2>4, BigMovePreserves
<1>4. CASE Big!ReadUndo(t) \/ Big!ReleaseRead(t) \/ Big!UpgradeToWriter(t)
  <2>1. /\ bigPc[t] \in {"readUndo", "read"}
        /\ bigPc'[t] \in {"readSpin", "idle", "writeTry"}
        /\ bigPc'[t] \in {"idle", "writeTry"} => bigIndex'[t] = 0
        /\ bigLockState' = [bigLockState EXCEPT ![bigIndex[t]] = @ - Big!OneReader]
        /\ bigStage' = bigStage /\ bigWriterActive' = bigWriterActive
        /\ bigIndex' \in [Threads -> Big!States]
        /\ bigPc' \in [Threads -> Big!PCs] /\ OthersStay(t)
        /\ bigIndex[t] \in Big!States
    BY <1>0, <1>4, <1>s DEF Big!ReadUndo, Big!ReleaseRead, Big!UpgradeToWriter,
       Big!DropReader,
                            Big!Goto, Big!PCs, OthersStay
  <2>2. /\ \A i \in Big!States : CountedAt(t, i) <=> i = bigIndex[t]
        /\ \A i \in Big!States : ~OwnsAt(t, i)
        /\ \A i \in Big!States : ~OwnsAt(t, i)' /\ ~ClearedAt(t, i)'
        /\ \A i \in Big!States : ~CountedAt(t, i)' /\ ~ReadsAt(t, i)'
        /\ Placed(t)'
    BY <1>0, <2>1 DEF CountedAt, OwnsAt, ClearedAt, ReadsAt, Placed
  <2>3. \A i \in Big!States : bigLockState'[i] = bigLockState[i]
               + (IF CountedAt(t, i)' THEN Big!OneReader ELSE 0)
               - (IF CountedAt(t, i) THEN Big!OneReader ELSE 0)
               + (IF OwnsAt(t, i)' THEN Big!WriterFlag ELSE 0)
               - (IF OwnsAt(t, i) THEN Big!WriterFlag ELSE 0)
    BY <1>0, <2>1, <2>2 DEF Big!OneReader, Big!Spin!OneReader
  <2> QED
    BY <1>0, <2>1, <2>2, <2>3, BigMovePreserves
<1>5. CASE Big!Staging(t)
  <2> PICK i0 \in Big!States : i0 = bigIndex[t]
    BY <1>0
  <2> DEFINE stage1 == [bigStage[t] EXCEPT ![i0] = Big!StepResult(@, i0)]
             last == i0 = NumStates - 1
             done == last /\ \A j \in Big!States : stage1[j] = "Acquired"
  <2>0. /\ bigPc[t] = "staging" /\ i0 \in Big!States
        /\ Big!StagedAcquireWriteStep(t, i0)
        /\ bigIndex' = [bigIndex EXCEPT ![t] = IF last THEN 0 ELSE i0 + 1]
        /\ bigStage' = [bigStage EXCEPT ![t] = IF done THEN Big!NoStage ELSE stage1]
        /\ bigPc' = [bigPc EXCEPT ![t] = IF done THEN "write" ELSE "staging"]
        /\ bigWriterActive' = bigWriterActive
    BY <1>0, <1>5 DEF Big!Staging, Big!Goto
  <2>1. /\ stage1 \in [Big!States -> Big!Stages]
        /\ stage1[i0] = Big!StepResult(bigStage[t][i0], i0)
        /\ \A j \in Big!States \ {i0} : stage1[j] = bigStage[t][j]
    BY <1>0, <2>0 DEF Big!StepResult, Big!Stages
  <2>2. (IF last THEN 0 ELSE i0 + 1) \in Big!States
    BY <1>s, <2>0 DEF Big!States, BigAssumptions
  <2>3. /\ bigPc'[t] = (IF done THEN "write" ELSE "staging")
        /\ bigStage'[t] = (IF done THEN Big!NoStage ELSE stage1)
        /\ bigIndex'[t] = (IF last THEN 0 ELSE i0 + 1)
        /\ bigPc' \in [Threads -> Big!PCs] /\ bigIndex' \in [Threads -> Big!States]
        /\ bigStage' \in [Threads -> [Big!States -> Big!Stages]] /\ OthersStay(t)
    <3> HIDE DEF stage1, done, last
    <3> QED
      BY <1>0, <1>s, <2>0, <2>1, <2>2 DEF Big!PCs, OthersStay
  <2>4. /\ done => last /\ \A j \in Big!States : stage1[j] = "Acquired"
        /\ \A j \in Big!States : OwnsAt(t, j)' <=> stage1[j] # "NotAcquired"
        /\ \A j \in Big!States : ClearedAt(t, j)' <=> stage1[j] = "Acquired"
        /\ \A j \in Big!States : OwnsAt(t, j) <=> bigStage[t][j] # "NotAcquired"
        /\ \A j \in Big!States : ClearedAt(t, j) <=> bigStage[t][j] = "Acquired"
        /\ \A j \in Big!States : ~CountedAt(t, j) /\ ~CountedAt(t, j)'
        /\ \A j \in Big!States : ~ReadsAt(t, j)'
    BY <2>0, <2>3 DEF OwnsAt, ClearedAt, CountedAt, ReadsAt
  <2>5. Placed(t)'
    BY <2>3, <2>4 DEF Placed
  <2>6. /\ bigStage[t][i0] = "NotAcquired" /\ Big!HasWriter(i0)
             => stage1[i0] = "NotAcquired" /\ bigLockState' = bigLockState
        /\ bigStage[t][i0] = "NotAcquired" /\ ~Big!HasWriter(i0)
             => /\ stage1[i0] = (IF bigLockState[i0] = 0 THEN "Acquired"
                                 ELSE "Acquiring")
                /\ bigLockState' = [bigLockState EXCEPT ![i0] = @ + Big!WriterFlag]
        /\ bigStage[t][i0] # "NotAcquired"
             => stage1[i0] = "Acquired" /\ bigLockState' = bigLockState
        /\ bigStage[t][i0] = "Acquiring" => bigLockState[i0] = Big!WriterFlag
    <3>1. bigLockState' = (IF bigStage[t][i0] = "NotAcquired"
                        THEN [bigLockState EXCEPT ![i0] = Big!Spin!FetchOrWriter(@)]
                        ELSE bigLockState)
      BY <2>0 DEF Big!StagedAcquireWriteStep
    <3>2. Big!HasWriter(i0) => [bigLockState EXCEPT ![i0] = Big!Spin!FetchOrWriter(@)]
                             = bigLockState
      BY <1>0, <2>0 DEF Big!HasWriter, Big!Spin!FetchOrWriter
    <3>3. ~Big!HasWriter(i0) => [bigLockState EXCEPT ![i0] = Big!Spin!FetchOrWriter(@)]
                             = [bigLockState EXCEPT ![i0] = @ + Big!WriterFlag]
      BY DEF Big!HasWriter, Big!Spin!FetchOrWriter, Big!WriterFlag
    <3>4. stage1[i0] = Big!StepResult(bigStage[t][i0], i0)
      BY <2>1
    <3>5. bigStage[t][i0] \in Big!Stages
      BY <1>0, <2>0
    <3>6. bigStage[t][i0] = "Acquiring" => bigLockState[i0] = Big!WriterFlag
      BY <2>0 DEF Big!StagedAcquireWriteStep
    <3>7. /\ bigStage[t][i0] = "NotAcquired" /\ Big!HasWriter(i0)
               => Big!StepResult(bigStage[t][i0], i0) = "NotAcquired"
          /\ bigStage[t][i0] = "NotAcquired" /\ ~Big!HasWriter(i0)
               => Big!StepResult(bigStage[t][i0], i0)
                    = IF bigLockState[i0] = 0 THEN "Acquired" ELSE "Acquiring"
          /\ bigStage[t][i0] # "NotAcquired"
               => Big!StepResult(bigStage[t][i0], i0) = "Acquired"
      BY DEF Big!StepResult
    <3> HIDE DEF stage1
    <3> QED
      BY <3>1, <3>2, <3>3, <3>4, <3>6, <3>7
  <2>7. \A j \in Big!States : bigLockState'[j] = bigLockState[j]
               + (IF CountedAt(t, j)' THEN Big!OneReader ELSE 0)
               - (IF CountedAt(t, j) THEN Big!OneReader ELSE 0)
               + (IF OwnsAt(t, j)' THEN Big!WriterFlag ELSE 0)
               - (IF OwnsAt(t, j) THEN Big!WriterFlag ELSE 0)
    <3> HIDE DEF stage1, done
    <3>1. \A j \in Big!States \ {i0} : /\ bigLockState'[j] = bigLockState[j]
                                       /\ OwnsAt(t, j)' <=> OwnsAt(t, j)
      BY <1>0, <2>0, <2>1, <2>4, <2>6
    <3>2. \/ /\ bigLockState'[i0] = bigLockState[i0]
             /\ OwnsAt(t, i0)' <=> OwnsAt(t, i0)
          \/ /\ bigLockState'[i0] = bigLockState[i0] + Big!WriterFlag
             /\ OwnsAt(t, i0)' /\ ~OwnsAt(t, i0)
      BY <1>0, <2>0, <2>4, <2>6
    <3> SUFFICES ASSUME NEW j \in Big!States
                 PROVE  bigLockState'[j] = bigLockState[j]
               + (IF CountedAt(t, j)' THEN Big!OneReader ELSE 0)
               - (IF CountedAt(t, j) THEN Big!OneReader ELSE 0)
               + (IF OwnsAt(t, j)' THEN Big!WriterFlag ELSE 0)
               - (IF OwnsAt(t, j) THEN Big!WriterFlag ELSE 0)
      OBVIOUS
    <3>3. bigLockState[j] \in Nat /\ ~CountedAt(t, j) /\ ~CountedAt(t, j)'
      BY <1>0, <2>4
    <3>4. \/ bigLockState'[j] = bigLockState[j] /\ (OwnsAt(t, j)' <=> OwnsAt(t, j))
          \/ /\ bigLockState'[j] = bigLockState[j] + Big!WriterFlag
             /\ OwnsAt(t, j)' /\ ~OwnsAt(t, j)
      <4>1. CASE j = i0
        BY <3>2, <4>1
      <4>2. CASE j # i0
        BY <3>1, <4>2
      <4> QED
        BY <4>1, <4>2
    <3> QED
      BY <3>3, <3>4 DEF Big!WriterFlag, Big!Spin!WriterFlag
  <2>8. \A j \in Big!States :
          /\ OwnsAt(t, j)' => OwnsAt(t, j) \/ Big!FlagOwnersOf(j) = {}
          /\ ClearedAt(t, j)' => ClearedAt(t, j) \/ Big!CountedIn(j) = {}
    <3> HIDE DEF stage1, done
    <3>1. bigStage[t][i0] \in Big!Stages
      BY <1>0, <2>0
    <3> QED
      BY <1>w, <2>0, <2>1, <2>4, <2>6, <3>1 DEF Big!Stages
  <2>9. bigLockState' = [j \in Big!States |-> bigLockState'[j]] /\ DOMAIN bigLockState' = Big!States
    <3> HIDE DEF stage1, done
    <3> QED
      BY <1>0, <2>6
  <2> HIDE DEF stage1, done, last
  <2> QED
    BY <1>0, <2>0, <2>3, <2>4, <2>5, <2>7, <2>8, <2>9, BigMovePreserves
<1>6. CASE Big!ReleaseWrite(t)
  <2>1. /\ bigPc[t] = "write" /\ bigPc'[t] = "releasing"
        /\ bigStage' = bigStage /\ bigLockState' = bigLockState /\ bigIndex' = bigIndex
        /\ bigWriterActive' \in BOOLEAN /\ bigPc' \in [Threads -> Big!PCs]
        /\ OthersStay(t)
    BY <1>0, <1>6 DEF Big!ReleaseWrite, Big!Goto, Big!PCs, OthersStay
  <2>2. /\ bigIndex[t] = 0 /\ bigStage[t] = Big!NoStage
        /\ \A i \in Big!States : 0 <= i
    BY <1>0, <2>1 DEF Placed, Big!States, BigAssumptions
  <2>3. /\ \A i \in Big!States : OwnsAt(t, i) /\ OwnsAt(t, i)'
        /\ \A i \in Big!States : ~CountedAt(t, i) /\ ~CountedAt(t, i)'
        /\ \A i \in Big!States : ~ClearedAt(t, i)' /\ ~ReadsAt(t, i)'
        /\ Placed(t)'
    BY <2>1, <2>2 DEF OwnsAt, CountedAt, ClearedAt, ReadsAt, Placed
  <2>4. \A i \in Big!States : bigLockState'[i] = bigLockState[i]
               + (IF CountedAt(t, i)' THEN Big!OneReader ELSE 0)
               - (IF CountedAt(t, i) THEN Big!OneReader ELSE 0)
               + (IF OwnsAt(t, i)' THEN Big!WriterFlag ELSE 0)
               - (IF OwnsAt(t, i) THEN Big!WriterFlag ELSE 0)
    BY <1>0, <2>1, <2>3 DEF Big!WriterFlag, Big!Spin!WriterFlag
  <2> QED
    BY <1>0, <2>1, <2>3, <2>4, BigMovePreserves
<1>7. CASE Big!ReleaseState(t)
  <2> DEFINE i0 == bigIndex[t]
             last == i0 = NumStates - 1
  <2>0. /\ bigPc[t] = "releasing" /\ i0 \in Big!States
        /\ bigLockState' = [bigLockState EXCEPT ![i0] = Big!Spin!FetchAndNotWriter(@)]
        /\ bigIndex' = [bigIndex EXCEPT ![t] = IF last THEN 0 ELSE i0 + 1]
        /\ bigPc' = [bigPc EXCEPT ![t] = IF last THEN "idle" ELSE "releasing"]
        /\ bigStage' = bigStage /\ bigWriterActive' = bigWriterActive
    BY <1>0, <1>7 DEF Big!ReleaseState, Big!Goto
  <2>1. (IF last THEN 0 ELSE i0 + 1) \in Big!States
    BY <1>s, <2>0 DEF Big!States, BigAssumptions
  <2>2. /\ bigPc'[t] = (IF last THEN "idle" ELSE "releasing")
        /\ bigIndex'[t] = (IF last THEN 0 ELSE i0 + 1)
        /\ bigPc' \in [Threads -> Big!PCs] /\ bigIndex' \in [Threads -> Big!States]
        /\ OthersStay(t)
    <3> HIDE DEF last, i0
    <3> QED
      BY <1>0, <2>0, <2>1 DEF Big!PCs, OthersStay
  <2>3. bigStage[t] = Big!NoStage
    BY <1>0, <2>0 DEF Placed
  <2>4. /\ \A i \in Big!States : OwnsAt(t, i) <=> i0 <= i
        /\ \A i \in Big!States : ~CountedAt(t, i) /\ ~CountedAt(t, i)'
        /\ \A i \in Big!States : ~ClearedAt(t, i)' /\ ~ReadsAt(t, i)'
        /\ Placed(t)'
    BY <2>0, <2>2, <2>3 DEF OwnsAt, CountedAt, ClearedAt, ReadsAt, Placed
  <2>5. \A i \in Big!States : OwnsAt(t, i)' <=> (OwnsAt(t, i) /\ i # i0)
    <3>1. CASE last
      <4>1. \A i \in Big!States : i0 <= i <=> i = i0
        BY <3>1, <2>0 DEF Big!States, BigAssumptions
      <4> QED
        BY <2>2, <2>4, <3>1, <4>1 DEF OwnsAt
    <3>2. CASE ~last
      <4>1. \A i \in Big!States : i0 + 1 <= i <=> (i0 <= i /\ i # i0)
        BY <2>0 DEF Big!States, BigAssumptions
      <4>2. \A i \in Big!States : OwnsAt(t, i)' <=> i0 + 1 <= i
        BY <2>2, <3>2 DEF OwnsAt
      <4> QED
        BY <2>4, <4>1, <4>2
    <3> QED
      BY <3>1, <3>2
  <2>6. OwnsAt(t, i0) /\ Big!HasWriter(i0)
    <3>1. OwnsAt(t, i0)
      BY <2>0, <2>4 DEF Big!States
    <3>2. t \in Big!FlagOwnersOf(i0)
      BY <3>1 DEF Big!FlagOwnersOf, OwnsAt
    <3> QED
      BY <1>w, <2>0, <3>1, <3>2
  <2>7. bigLockState' = [bigLockState EXCEPT ![i0] = @ - Big!WriterFlag]
    BY <2>0, <2>6 DEF Big!HasWriter, Big!Spin!FetchAndNotWriter, Big!WriterFlag
  <2>8. \A i \in Big!States : bigLockState'[i] = bigLockState[i]
               + (IF CountedAt(t, i)' THEN Big!OneReader ELSE 0)
               - (IF CountedAt(t, i) THEN Big!OneReader ELSE 0)
               + (IF OwnsAt(t, i)' THEN Big!WriterFlag ELSE 0)
               - (IF OwnsAt(t, i) THEN Big!WriterFlag ELSE 0)
    <3> HIDE DEF i0
    <3> QED
      BY <1>0, <2>0, <2>4, <2>5, <2>6, <2>7 DEF Big!WriterFlag, Big!Spin!WriterFlag
  <2>9. bigLockState' = [i \in Big!States |-> bigLockState'[i]] /\ DOMAIN bigLockState' = Big!States
    BY <1>0, <2>7
  <2> HIDE DEF i0, last
  <2> QED
    BY <1>0, <2>0, <2>2, <2>4, <2>5, <2>8, <2>9, BigMovePreserves
<1> QED
  BY <1>1, <1>2, <1>3, <1>4, <1>5, <1>6, <1>7

-----------------------------------------------------------------------------
(* The invariant.                                                          *)

(* Nobody counted, no owner, zero words to begin with.                     *)
LEMMA BigInitHolds ==
    ASSUME BigAssumptions, Big!Init
    PROVE  BigInv
<1>1. /\ \A t \in Threads : bigPc[t] = "idle" /\ bigIndex[t] = 0 /\ bigStage[t] = Big!NoStage
      /\ \A i \in Big!States : bigLockState[i] = 0
  BY DEF Big!Init
<1>2. ASSUME NEW i \in Big!States
      PROVE  WordExact(i)
  <2>1. Big!CountedIn(i) = {} /\ Big!FlagOwnersOf(i) = {}
    BY <1>1 DEF Big!CountedIn, Big!FlagOwnersOf
  <2>2. Cardinality({}) = 0
    BY FS_EmptySet
  <2> QED
    BY <1>1, <2>1, <2>2 DEF WordExact, Big!OneReader, Big!Spin!OneReader
<1>3. ClearedIsClear /\ \A t \in Threads : Placed(t)
  BY <1>1 DEF ClearedIsClear, ReadsAt, Placed
<1>4. Big!TypeOK
  <2>1. 0 \in Big!States
    BY DEF Big!States, BigAssumptions
  <2>2. Big!NoStage \in [Big!States -> Big!Stages]
    BY DEF Big!NoStage, Big!Stages
  <2> QED
    BY <2>1, <2>2 DEF Big!Init, Big!TypeOK, Big!PCs
<1> QED
  BY <1>2, <1>3, <1>4 DEF BigInv

(* A stuttering step changes nothing the invariant reads.                  *)
LEMMA BigStutterPreserves ==
    ASSUME BigInv, UNCHANGED Big!vars
    PROVE  BigInv'
<1>1. /\ bigWriterActive' = bigWriterActive /\ bigLockState' = bigLockState
      /\ bigPc' = bigPc
      /\ bigIndex' = bigIndex /\ bigStage' = bigStage
  BY DEF Big!vars
<1>2. \A i \in Big!States :
        Big!CountedIn(i)' = Big!CountedIn(i) /\ Big!FlagOwnersOf(i)' = Big!FlagOwnersOf(i)
  BY <1>1 DEF Big!CountedIn, Big!FlagOwnersOf
<1> QED
  BY <1>1, <1>2 DEF BigInv, Big!TypeOK, WordExact, ClearedIsClear, ClearedAt,
                    ReadsAt, Placed

(* BigInv is an inductive invariant of the mutex.                          *)
THEOREM BigInvariant ==
    ASSUME BigAssumptions
    PROVE  Big!Spec => []BigInv
<1>1. Big!Init => BigInv
  BY BigInitHolds
<1>2. BigInv /\ [Big!Next]_(Big!vars) => BigInv'
  BY BigStepPreserves, BigStutterPreserves DEF Big!Next
<1> QED
  BY <1>1, <1>2, PTL DEF Big!Spec

(* Each word counts its readers and has one flag owner at most, also while *)
(* one writer lets go and the next sets the flags behind it.               *)
THEOREM BigStatesExact ==
    ASSUME BigAssumptions
    PROVE  Big!Spec => []Big!StatesExact
<1>1. ASSUME BigInv
      PROVE  Big!StatesExact
  <2> SUFFICES ASSUME NEW i \in Big!States
               PROVE  /\ bigLockState[i] = Big!OneReader * Cardinality(Big!CountedIn(i))
                                          + Cardinality(Big!FlagOwnersOf(i))
                      /\ Cardinality(Big!FlagOwnersOf(i)) <= 1
    BY DEF Big!StatesExact, Big!Cardinality, Cardinality
  <2>0. WordExact(i)
    BY <1>1 DEF BigInv
  <2>1. CASE Big!FlagOwnersOf(i) = {}
    <3>1. Cardinality(Big!FlagOwnersOf(i)) = 0
      BY <2>1, FS_EmptySet
    <3> QED
      BY <2>0, <2>1, <3>1 DEF WordExact
  <2>2. CASE Big!FlagOwnersOf(i) # {}
    <3>1. PICK u \in Big!FlagOwnersOf(i) : TRUE
      BY <2>2
    <3>2. Big!FlagOwnersOf(i) = {u}
      BY <2>0, <3>1 DEF WordExact
    <3>3. Cardinality(Big!FlagOwnersOf(i)) = 1
      BY <3>2, FS_Singleton
    <3> QED
      BY <2>0, <2>2, <3>3 DEF WordExact, Big!WriterFlag, Big!Spin!WriterFlag
  <2> QED
    BY <2>1, <2>2
<1> QED
  BY <1>1, BigInvariant, PTL

-----------------------------------------------------------------------------
(* Refinement.                                                             *)

(* Every step changes the place of its thread alone, and is a step of the  *)
(* abstract lock or leaves what the thread holds as it is.                 *)
LEMMA BigStepRefines ==
    ASSUME BigAssumptions, BigInv, BigInv', NEW t \in Threads,
           \/ Big!AcquireRead(t) \/ Big!ReadAdd(t) \/ Big!ReadUndo(t) \/ Big!ReadSpin(t)
           \/ Big!ReleaseRead(t)
           \/ Big!AcquireWrite(t) \/ Big!WriteWait(t) \/ Big!Staging(t)
           \/ Big!ReleaseWrite(t) \/ Big!ReleaseState(t) \/ Big!UpgradeToWriter(t)
    PROVE  Big!Abstract!Next \/ Big!Mode' = Big!Mode
<1>0. /\ bigPc \in [Threads -> Big!PCs]
      /\ Big!Mode = [u \in Threads |-> IF bigPc[u] \in {"read", "write"} THEN bigPc[u]
                                   ELSE "none"]
      /\ Big!Mode' = [u \in Threads |-> IF bigPc'[u] \in {"read", "write"} THEN bigPc'[u]
                                    ELSE "none"]
  BY DEF BigInv, Big!TypeOK, Big!Mode
<1>1. CASE \/ Big!AcquireRead(t) \/ Big!ReadUndo(t) \/ Big!ReadSpin(t) \/ Big!AcquireWrite(t)
           \/ Big!WriteWait(t) \/ Big!ReleaseState(t)
  <2>1. /\ bigPc[t] \notin {"read", "write"} /\ bigPc'[t] \notin {"read", "write"}
        /\ \A u \in Threads \ {t} : bigPc'[u] = bigPc[u]
    BY <1>0, <1>1 DEF Big!AcquireRead, Big!ReadUndo, Big!ReadSpin,
       Big!AcquireWrite, Big!WriteWait,
                      Big!ReleaseState, Big!Goto
  <2> QED
    BY <1>0, <2>1
<1>2. CASE Big!ReadAdd(t)
  <2>1. CASE Big!HasWriter(bigIndex[t])
    <3>1. /\ bigPc[t] = "readAdd" /\ bigPc'[t] = "readUndo"
          /\ \A u \in Threads \ {t} : bigPc'[u] = bigPc[u]
      BY <1>0, <1>2, <2>1 DEF Big!ReadAdd, Big!Goto
    <3> QED
      BY <1>0, <3>1
  <2>2. CASE ~Big!HasWriter(bigIndex[t])
    <3>1. bigPc[t] = "readAdd" /\ bigPc' = [bigPc EXCEPT ![t] = "read"]
      BY <1>2, <2>2 DEF Big!ReadAdd, Big!Goto
    <3>2. \A u \in Threads : bigPc[u] # "write"
      <4>1. bigIndex[t] \in Big!States /\ WordExact(bigIndex[t])
        BY DEF BigInv, Big!TypeOK
      <4>2. Big!FlagOwnersOf(bigIndex[t]) = {}
        BY <2>2, <4>1, BigWordTells
      <4> QED
        BY <4>2 DEF Big!FlagOwnersOf
    <3>3. Big!Abstract!GetRead(t)
      BY <1>0, <3>1, <3>2 DEF Big!Abstract!GetRead, Big!Abstract!OthersHold
    <3> QED
      BY <3>3 DEF Big!Abstract!Next
  <2> QED
    BY <2>1, <2>2
<1>3. CASE Big!Staging(t)
  <2>0. /\ bigPc[t] = "staging"
        /\ bigPc' = [bigPc EXCEPT ![t] = "write"] \/ bigPc' = [bigPc EXCEPT ![t] = "staging"]
    BY <1>3 DEF Big!Staging, Big!Goto
  <2>1. CASE bigPc' = [bigPc EXCEPT ![t] = "write"]
    <3>1. bigPc'[t] = "write" /\ \A u \in Threads \ {t} : bigPc'[u] = bigPc[u]
      BY <1>0, <2>1
    <3>2. \A u \in Threads \ {t} : bigPc'[u] \notin {"read", "write"}
      <4>1. ASSUME NEW u \in Threads \ {t}
            PROVE  bigPc'[u] # "read"
        <5>1. bigIndex'[u] \in Big!States
          BY DEF BigInv, Big!TypeOK
        <5> QED
          BY <3>1, <5>1 DEF BigInv, ClearedIsClear, ClearedAt, ReadsAt
      <4>2. ASSUME NEW u \in Threads \ {t}
            PROVE  bigPc'[u] # "write"
        <5>1. 0 \in Big!States
          BY DEF Big!States, BigAssumptions
        <5>2. \A v, w \in Big!FlagOwnersOf(0)' : v = w
          BY <5>1 DEF BigInv, WordExact
        <5> QED
          BY <3>1, <5>2 DEF Big!FlagOwnersOf
      <4> QED
        BY <4>1, <4>2
    <3>3. Big!Abstract!GetWrite(t)
      BY <1>0, <2>0, <2>1, <3>1, <3>2 DEF Big!Abstract!GetWrite, Big!Abstract!OthersHold
    <3> QED
      BY <3>3 DEF Big!Abstract!Next
  <2>2. CASE bigPc' = [bigPc EXCEPT ![t] = "staging"]
    BY <1>0, <2>0, <2>2
  <2> QED
    BY <2>0, <2>1, <2>2
<1>4. CASE Big!ReleaseRead(t) \/ Big!ReleaseWrite(t) \/ Big!UpgradeToWriter(t)
  <2>1. /\ bigPc[t] \in {"read", "write"} /\ bigPc'[t] \notin {"read", "write"}
        /\ \A u \in Threads \ {t} : bigPc'[u] = bigPc[u]
    BY <1>0, <1>4 DEF Big!ReleaseRead, Big!ReleaseWrite, Big!UpgradeToWriter, Big!Goto
  <2>2. Big!Abstract!Release(t)
    BY <1>0, <2>1 DEF Big!Abstract!Release
  <2> QED
    BY <2>2 DEF Big!Abstract!Next
<1> QED
  BY <1>1, <1>2, <1>3, <1>4

(* The big mutex implements RWLock, for any number of threads and states.  *)
THEOREM BigImplements ==
    ASSUME BigAssumptions
    PROVE  Big!Spec => Big!BigImplementsRWLock
<1>1. Big!Init => Big!Abstract!Init
  BY DEF Big!Init, Big!Abstract!Init, Big!Mode
<1>2. BigInv /\ BigInv' /\ [Big!Next]_(Big!vars) => [Big!Abstract!Next]_(Big!Mode)
  <2>1. UNCHANGED Big!vars => Big!Mode' = Big!Mode
    BY DEF Big!vars, Big!Mode
  <2>2. BigInv /\ BigInv' /\ Big!Next => Big!Abstract!Next \/ Big!Mode' = Big!Mode
    BY BigStepRefines DEF Big!Next
  <2> QED
    BY <2>1, <2>2
<1> QED
  BY <1>1, <1>2, BigInvariant, PTL DEF Big!Spec, Big!BigImplementsRWLock,
     Big!Abstract!Spec

=============================================================================
