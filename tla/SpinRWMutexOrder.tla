-------------------------- MODULE SpinRWMutexOrder --------------------------
(***************************************************************************)
(* The memory orders of TfSpinRWMutex: which accesses made in earlier      *)
(* critical sections happen before those of a section, by the acquire,     *)
(* release, acq_rel and relaxed orders written in the code.                *)
(*                                                                         *)
(* An access is <<thread, kind>>: the latest accesses of that thread in a  *)
(* section of that kind.  unseen[t] are the accesses of other threads that *)
(* are not ordered before what t does next; unreleased are those that an   *)
(* acquire on _lockState would not order.  Every write of _lockState is a  *)
(* read-modify-write, so a release is never cut off from a later acquire.  *)
(***************************************************************************)
EXTENDS SpinRWMutex

VARIABLES
    unseen,      \* per thread, accesses not ordered before it
    unreleased   \* accesses not published through _lockState

orderVars == <<lockState, pc, unseen, unreleased>>

OrderInit ==
    /\ Init
    /\ unseen = [t \in Threads |-> {}]
    /\ unreleased = {}

(* What t accesses in the section its step enters.                         *)
Entered(t) == IF pc'[t] # pc[t] /\ pc'[t] \in {"read", "write"}
              THEN {<<t, pc'[t]>>} ELSE {}

Order(t, seenBy, published) ==
    /\ unseen' = [u \in Threads |-> IF u = t THEN seenBy
                                    ELSE unseen[u] \cup Entered(t)]
    /\ unreleased' = published \cup Entered(t)

RelaxedOrder(t) == Order(t, unseen[t], unreleased)

AcquireOrder(t) == Order(t, unseen[t] \cap unreleased, unreleased)

ReleaseOrder(t) == Order(t, unseen[t], unreleased \cap unseen[t])

AcqRelOrder(t) == Order(t, unseen[t] \cap unreleased,
                           unreleased \cap unseen[t])

AcquiringOpRelaxed(t) ==
    /\ \/ TryAcquireRead(t) \/ AcquireRead(t)
       \/ TryAcquireWrite(t) \/ AcquireWrite(t)
       \/ TryAcquireWriteIfReleased(t)
       \/ UpgradeToWriter(t)
    /\ RelaxedOrder(t)

(* The order each operation names.                                         *)
AcquiringOp(t) ==
    /\ \/ TryAcquireRead(t) \/ AcquireRead(t)
       \/ TryAcquireWrite(t) \/ AcquireWrite(t)
       \/ TryAcquireWriteIfReleased(t)
       \/ UpgradeToWriter(t)
    /\ AcquireOrder(t)

ReleasingOp(t) ==
    /\ UndoRead(t) \/ ReleaseRead(t) \/ ReleaseWrite(t) \/ UpgradeDropReader(t)
    /\ ReleaseOrder(t)

DowngradeOp(t) == DowngradeToReader(t) /\ AcqRelOrder(t)

WaitOp(t) == (WaitForReaders(t) \/ WaitForWriter(t)) /\ RelaxedOrder(t)

OrderNext == \E t \in Threads :
    AcquiringOp(t) \/ ReleasingOp(t) \/ DowngradeOp(t) \/ WaitOp(t)

OrderSpec == OrderInit /\ [][OrderNext]_orderVars

-----------------------------------------------------------------------------

UnseenOf(t, kind) == {u \in Threads : <<u, kind>> \in unseen[t]}

(* A section, read or write, is ordered after every earlier write section, *)
(* through downgrades, upgrades and failed attempts alike.                 *)
WritesAreSeen ==
    \A t \in Threads : pc[t] \in {"read", "write"} => UnseenOf(t, "write") = {}

(* "The release on the final ReleaseRead [...] pairs with the acquire on   *)
(* the write lock operation that follows this wait" (spinRWMutex.cpp:56):  *)
(* a write section is ordered after the read sections its thread waited    *)
(* for.  No acquire follows the relaxed load of _WaitForReaders.           *)
ReadersHappenBeforeWriter ==
    \A t \in Threads : pc[t] = "write" => UnseenOf(t, "read") = {}

=============================================================================
