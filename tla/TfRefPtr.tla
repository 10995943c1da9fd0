------------------------------ MODULE TfRefPtr ------------------------------
(***************************************************************************)
(* The reference count of one object and the unique-changed listener       *)
(* (Tf_RefPtr_UniqueChangedCounter in pxr/base/tf/refPtr.{h,cpp}, TfRefBase*)
(* in refBase.h, Python ownership in pyIdentity.{h,cpp}, promotion of weak *)
(* pointers in weakPtr.h).                                                 *)
(*                                                                         *)
(* A pointer is a TfRefPtr object; no two threads work on one pointer, so  *)
(* each stands for a thread of its own.  A negative count asks for the     *)
(* listener when the count goes between 1 and 2.  The listener keeps the   *)
(* Python object of this object alive (acquired) as long as there are      *)
(* other references than the one the Python object itself owns: Owner.     *)
(* Each atomic operation on the count is one action.  The listener's lock  *)
(* is Python's interpreter lock; a locked update, which begins and ends    *)
(* with the lock, is one action, and Python's own calls hold it over       *)
(* several.  That lock is all Python has when it flips the sign of the     *)
(* count: other pointers may be between looking at the sign and changing   *)
(* the count (late), and what they do then goes the wrong way (astray).    *)
(***************************************************************************)
EXTENDS Integers, FiniteSets

CONSTANTS
    Ptrs,
    Owner,     \* the pointer that the Python object owns
    None

ASSUME PtrsAssumption ==
    /\ IsFiniteSet(Ptrs)
    /\ Owner \in Ptrs
    /\ None \notin Ptrs

VARIABLES
    count,      \* _refCount
    pc,         \* per pointer, where it is
    prev,       \* per pointer, prevCount of its operation
    source,     \* per pointer, the one it is being copied from
    gil,        \* who holds the listener's lock between actions
    python,     \* where the Python object is in its life
    acquired,   \* Tf_PyIdHandle::_acquired
    dead,       \* the object was destroyed
    late,       \* the pointers that go by a sign that was flipped since
    astray      \* one of them has changed the count

flips == <<late, astray>>
vars == <<count, pc, prev, source, gil, python, acquired, dead, flips>>

AddPlaces == {"add", "addBump", "addCas"}
RemovePlaces == {"remove", "removeDrop", "removeCas"}
PromotePlaces == {"promote", "promotePos", "promoteNeg"}
Places == {"null", "held"} \cup AddPlaces \cup RemovePlaces \cup PromotePlaces

TypeOK ==
    /\ count \in Int
    /\ pc \in [Ptrs -> Places]
    /\ prev \in [Ptrs -> Int]
    /\ source \in [Ptrs -> Ptrs \cup {None}]
    /\ gil \in {Owner, None}
    /\ python \in {"new", "adopting", "owns", "disowning", "dying", "done"}
    /\ acquired \in BOOLEAN
    /\ dead \in BOOLEAN
    /\ late \subseteq Ptrs
    /\ astray \in BOOLEAN

Init ==
    /\ count = 1
    /\ \E p \in Ptrs \ {Owner} :
           pc = [q \in Ptrs |-> IF q = p THEN "held" ELSE "null"]
    /\ prev = [p \in Ptrs |-> 0]
    /\ source = [p \in Ptrs |-> None]
    /\ gil = None
    /\ python = "new"
    /\ acquired = TRUE
    /\ dead = FALSE
    /\ late = {}
    /\ astray = FALSE

Goto(p, place) == pc' = [pc EXCEPT ![p] = place]
See(p) == prev' = [prev EXCEPT ![p] = count]
MayLock(p) == gil \in {None, p}

(* The pointer has changed the count.                                      *)
Changed(p) == late' = late \ {p} /\ astray' = (astray \/ p \in late)

(* The pointer has its reference; what the copy was made from is free.     *)
Hold(p) ==
    /\ Goto(p, "held")
    /\ source' = [source EXCEPT ![p] = None]
    /\ Changed(p)

pythonVars == <<gil, python, acquired>>

----------------------------------------------------------------------------
(* AddRef                                                                  *)

(* Nobody copies the pointer of the Python object: a thread that does      *)
(* keeps the Python object, in Python's lock.                              *)
OwnerIsFree == \A p \in Ptrs : source[p] # Owner

(* A copy is made from a pointer that stays there meanwhile.               *)
Copy(p, q) ==
    /\ p # Owner /\ pc[p] = "null"
    /\ pc[q] = "held"
    /\ q = Owner => python = "owns" /\ gil = None
    /\ Goto(p, "add")
    /\ source' = [source EXCEPT ![p] = q]
    /\ UNCHANGED <<count, prev, pythonVars, dead, flips>>

LoadToAdd(p) ==
    /\ pc[p] = "add"
    /\ See(p)
    /\ Goto(p, IF count < 0 THEN "addCas" ELSE "addBump")
    /\ UNCHANGED <<count, source, pythonVars, dead, flips>>

AddBump(p) ==
    /\ pc[p] = "addBump"
    /\ count' = count + 1
    /\ Hold(p)
    /\ UNCHANGED <<prev, pythonVars, dead>>

(* The compare-exchange of AddRef and _AddRefMaybeLocked: one more         *)
(* reference is one less.  One that fails tells the present count.         *)
AddCas(p) ==
    /\ pc[p] = "addCas" /\ prev[p] # -1
    /\ count = prev[p]
    /\ count' = prev[p] - 1
    /\ Hold(p)
    /\ UNCHANGED <<prev, pythonVars, dead>>

CasFails(p) ==
    /\ \/ pc[p] = "addCas" /\ prev[p] # -1
       \/ pc[p] = "removeCas" /\ prev[p] # -2
       \/ pc[p] = "promotePos" /\ prev[p] > 0
       \/ pc[p] = "promoteNeg" /\ prev[p] \notin {0, -1}
    /\ count # prev[p]
    /\ See(p)
    /\ UNCHANGED <<count, pc, source, pythonVars, dead, flips>>

(* The rest of _AddRefMaybeLocked, which tells the listener of a second    *)
(* reference.                                                              *)
AddLocked(p) ==
    /\ pc[p] = "addCas" /\ prev[p] = -1
    /\ MayLock(p)
    /\ count' = count - 1
    /\ acquired' = (acquired \/ count = -1)
    /\ Hold(p)
    /\ UNCHANGED <<prev, gil, python, dead>>

----------------------------------------------------------------------------
(* RemoveRef                                                               *)

Drop(p) ==
    /\ p # Owner /\ pc[p] = "held"
    /\ \A q \in Ptrs : source[q] # p
    /\ Goto(p, "remove")
    /\ UNCHANGED <<count, prev, source, pythonVars, dead, flips>>

LoadToRemove(p) ==
    /\ pc[p] = "remove"
    /\ See(p)
    /\ Goto(p, IF count < 0 THEN "removeCas" ELSE "removeDrop")
    /\ UNCHANGED <<count, source, pythonVars, dead, flips>>

(* What RemoveRef returns says whether the object is to be destroyed.      *)
(* The Python object's calls end with the removal of its reference.        *)
Removed(p, last) ==
    /\ Goto(p, "null")
    /\ Changed(p)
    /\ dead' = (dead \/ last)
    /\ IF p = Owner THEN gil' = None /\ python' = "done"
       ELSE UNCHANGED <<gil, python>>

RemoveDrop(p) ==
    /\ pc[p] = "removeDrop"
    /\ count' = count - 1
    /\ Removed(p, count = 1)
    /\ UNCHANGED <<prev, source, acquired>>

RemoveCas(p) ==
    /\ pc[p] = "removeCas" /\ prev[p] # -2
    /\ count = prev[p]
    /\ count' = prev[p] + 1
    /\ Removed(p, prev[p] = -1)
    /\ UNCHANGED <<prev, source, acquired>>

(* Faulty: does not look again, under the lock, whether it was two.        *)
RemoveLockedTells(p) ==
    /\ pc[p] = "removeCas" /\ prev[p] = -2
    /\ MayLock(p)
    /\ count' = count + 1
    /\ acquired' = FALSE
    /\ Removed(p, count = -1)
    /\ UNCHANGED <<prev, source>>

RemoveLocked(p) ==
    /\ pc[p] = "removeCas" /\ prev[p] = -2
    /\ MayLock(p)
    /\ count' = count + 1
    /\ acquired' = (acquired /\ count # -2)
    /\ Removed(p, count = -1)
    /\ UNCHANGED <<prev, source>>

----------------------------------------------------------------------------
(* AddRefIfNonzero, called for a weak pointer to an object whose memory is *)
(* kept although it may be expiring                                        *)

Promote(p) ==
    /\ p # Owner /\ pc[p] = "null"
    /\ Goto(p, "promote")
    /\ UNCHANGED <<count, prev, source, pythonVars, dead, flips>>

LoadToPromote(p) ==
    /\ pc[p] = "promote"
    /\ See(p)
    /\ Goto(p, "promotePos")
    /\ UNCHANGED <<count, source, pythonVars, dead, flips>>

(* Faulty: adds to what was positive when it was loaded.                   *)
PromotePosBlind(p) ==
    /\ pc[p] = "promotePos" /\ prev[p] > 0
    /\ count' = count + 1
    /\ Hold(p)
    /\ UNCHANGED <<prev, pythonVars, dead>>

PromotePos(p) ==
    /\ pc[p] = "promotePos" /\ prev[p] > 0
    /\ count = prev[p]
    /\ count' = prev[p] + 1
    /\ Hold(p)
    /\ UNCHANGED <<prev, pythonVars, dead>>

(* The second loop is entered with a count that is not positive.           *)
PromoteTurns(p) ==
    /\ pc[p] = "promotePos" /\ ~(prev[p] > 0)
    /\ Goto(p, "promoteNeg")
    /\ UNCHANGED <<count, prev, source, pythonVars, dead, flips>>

PromoteNeg(p) ==
    /\ pc[p] = "promoteNeg" /\ prev[p] \notin {0, -1}
    /\ count = prev[p]
    /\ count' = prev[p] - 1
    /\ Hold(p)
    /\ UNCHANGED <<prev, pythonVars, dead>>

PromoteFails(p) ==
    /\ pc[p] = "promoteNeg"
    /\ prev[p] = 0 \/ (prev[p] = -1 /\ MayLock(p) /\ count = 0)
    /\ Goto(p, "null")
    /\ late' = late \ {p}
    /\ UNCHANGED <<count, prev, source, pythonVars, dead, astray>>

PromoteLocked(p) ==
    /\ pc[p] = "promoteNeg" /\ prev[p] = -1
    /\ MayLock(p) /\ count # 0
    /\ count' = count - 1
    /\ acquired' = (acquired \/ count = -1)
    /\ Hold(p)
    /\ UNCHANGED <<prev, gil, python, dead>>

----------------------------------------------------------------------------
(* Python, under its lock                                                  *)

(* A pointer that has looked at the sign and will change the count by it.  *)
GoesBySign(p) ==
    \/ pc[p] \in {"addBump", "addCas", "removeDrop", "removeCas", "promoteNeg"}
    \/ pc[p] = "promotePos" /\ prev[p] <= 0

(* SetShouldInvokeUniqueChangedListener, whoever counts meanwhile.         *)
Flip(listen) ==
    IF (count > 0 /\ listen) \/ (count < 0 /\ ~listen)
    THEN /\ count' = -count
         /\ late' = late \cup {p \in Ptrs : GoesBySign(p)}
    ELSE UNCHANGED <<count, late>>

(* Tf_PyOwnershipHelper::Add, for a new object: the Python object copies   *)
(* the pointer and asks for the listener.                                  *)
Adopt(q) ==
    /\ python = "new" /\ gil = None
    /\ pc[q] = "held"
    /\ gil' = Owner
    /\ python' = "adopting"
    /\ Goto(Owner, "add")
    /\ source' = [source EXCEPT ![Owner] = q]
    /\ UNCHANGED <<count, prev, acquired, dead, flips>>

(* Tf_PyOwnershipPtrMap::Insert asks for the listener, with a pointer of   *)
(* the caller still there.                                                 *)
Listen ==
    /\ python = "adopting" /\ pc[Owner] = "held"
    /\ \E q \in Ptrs \ {Owner} : pc[q] = "held"
    /\ Flip(TRUE)
    /\ python' = "owns"
    /\ gil' = None
    /\ UNCHANGED <<pc, prev, source, acquired, dead, astray>>

(* Tf_PyOwnershipHelper::Remove, called with a pointer: the Python object  *)
(* asks for the listener no more and lets go of its reference.             *)
Disown(q) ==
    /\ python = "owns" /\ gil = None
    /\ q # Owner /\ pc[q] = "held"
    /\ OwnerIsFree
    /\ Flip(FALSE)
    /\ gil' = Owner
    /\ python' = "disowning"
    /\ Goto(Owner, "remove")
    /\ UNCHANGED <<prev, source, acquired, dead, astray>>

(* The Python object goes when neither Python nor the listener keeps it,   *)
(* and its pointer with it.                                                *)
Die ==
    /\ python = "owns" /\ gil = None
    /\ ~acquired /\ OwnerIsFree
    /\ gil' = Owner
    /\ python' = "dying"
    /\ Goto(Owner, "remove")
    /\ UNCHANGED <<count, prev, source, acquired, dead, flips>>

Next ==
    \/ \E p \in Ptrs :
        \/ LoadToAdd(p) \/ AddBump(p) \/ AddCas(p) \/ AddLocked(p)
        \/ CasFails(p)
        \/ Drop(p) \/ LoadToRemove(p) \/ RemoveDrop(p) \/ RemoveCas(p)
        \/ RemoveLocked(p)
        \/ Promote(p) \/ LoadToPromote(p) \/ PromotePos(p) \/ PromoteTurns(p)
        \/ PromoteNeg(p) \/ PromoteFails(p) \/ PromoteLocked(p)
        \/ Adopt(p) \/ Disown(p)
        \/ \E q \in Ptrs : Copy(p, q)
    \/ Listen \/ Die

Spec == Init /\ [][Next]_vars

----------------------------------------------------------------------------
(* Properties                                                              *)

(* The pointers whose reference is in the count.                           *)
Refs == {p \in Ptrs : pc[p] \in {"held"} \cup RemovePlaces}

(* "the reference counts of the underlying objects are always correct":    *)
(* refuted, for a pointer may be late.                                     *)
CountAlwaysExact ==
    count = Cardinality(Refs) \/ count = -Cardinality(Refs)

(* The counts are correct, whatever sign they have, however they are being *)
(* changed and whenever the sign flips, until a pointer that is late makes *)
(* its change.                                                             *)
CountExact == astray \/ CountAlwaysExact

(* Until then the listener was told of every change between one and two    *)
(* references: Python keeps its object exactly as long as there are others *)
(* than its own, and does not acquire an object that is on its way out.    *)
ListenerKnows ==
    astray \/
    /\ count < 0 => (acquired <=> count # -1)
    /\ count < 0 => python \in {"owns", "dying"} /\ pc[Owner] # "null"
    /\ python = "dying" => count = -1 /\ Refs = {Owner}

(* Until then the object is there as long as somebody refers to it, and no *)
(* longer; a weak pointer to an object without references is never         *)
(* promoted.                                                               *)
Counted == INSTANCE RefCounted WITH refs <- Refs, alive <- ~dead
ImplementsRefCounted ==
    Counted!Init /\ [][Counted!Next \/ astray']_<<Refs, ~dead>>

=============================================================================
