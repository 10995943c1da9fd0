---------------------------- MODULE MCRWMutexes ----------------------------
(***************************************************************************)
(* Instances of TfSpinRWMutex, with its memory orders, and TfBigRWMutex    *)
(* for TLC.  The two share no state, so a behaviour uses one of them at a  *)
(* time: the big mutex moves while the spin mutex is as constructed, and   *)
(* the spin mutex while the big one is.                                    *)
(***************************************************************************)
EXTENDS SpinRWMutexOrder

CONSTANTS t1, t2, t3

ThreeThreads == {t1, t2, t3}

VARIABLES bigWriterActive, bigLockState, bigPc, bigIndex, bigStage

Big == INSTANCE BigRWMutex WITH
    NumStates <- 3, writerActive <- bigWriterActive,
    lockState <- bigLockState, pc <- bigPc, index <- bigIndex,
    stage <- bigStage

bigVars == <<bigWriterActive, bigLockState, bigPc, bigIndex, bigStage>>

BothInit == OrderInit /\ Big!Init

BothNext ==
    \/ Big!Init /\ OrderNext /\ UNCHANGED bigVars
    \/ OrderInit /\ Big!Next /\ UNCHANGED orderVars

BothSpec == BothInit /\ [][BothNext]_<<orderVars, bigVars>>

BothFairSpec == BothSpec /\ Fairness /\ Big!Fairness

(* The big mutex implements RWLock.                                        *)
BigImplementsRWLock == Big!BigImplementsRWLock

(* Whoever waits for the big mutex, for its flag or behind it, is not left *)
(* waiting for a writer that is gone: some thread gets the lock.           *)
WaitersGetIn == Big!WaitersGetIn

=============================================================================
