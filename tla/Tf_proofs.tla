----------------------------- MODULE Tf_proofs -----------------------------
(***************************************************************************)
(* Proofs about parts of Tf. The first part is about reference counts, for *)
(* any finite set of pointers, whenever Python flips the sign: until a     *)
(* pointer that went by the old sign makes its change, the count is exact, *)
(* the listener knows, and the code implements RefCounted. The second part *)
(* is about notices, for any finite numbers of threads, deliverers and     *)
(* lists and any depth of calls from handlers, when keys of expired        *)
(* listeners are not revoked: a listener that was revoked with waiting     *)
(* stays quiet, and no deliverer is freed while a call is at it.           *)
(***************************************************************************)
EXTENDS TfRefPtr, TfNoticeRegistry, SequenceTheorems, FiniteSetTheorems,
        NaturalsInduction, WellFoundedInduction, TLAPS

(* A pointer that changes the count has seen the sign the count still has, *)
(* if it is not late.                                                      *)
SignFits(p) ==
    p \in late \/
    /\ pc[p] \in {"addBump", "removeDrop"} => count > 0
    /\ pc[p] \in {"addCas", "removeCas"} => prev[p] < 0 /\ count < 0
    /\ pc[p] = "promotePos" =>
           /\ prev[p] <= 0 => count <= 0
           /\ prev[p] = 0 => count = 0
    /\ pc[p] = "promoteNeg" =>
           /\ prev[p] <= 0 /\ count <= 0
           /\ prev[p] = 0 => count = 0

(* A pointer that is being copied stays.                                   *)
SourceFits(p) ==
    IF pc[p] \in AddPlaces
    THEN source[p] \in Ptrs /\ pc[source[p]] = "held"
    ELSE source[p] = None

(* The count is negative while the Python object owns its pointer, and it  *)
(* has that pointer from when it asks for the listener.                    *)
OwnerPlaced ==
    /\ python = "new" => pc[Owner] = "null"
    /\ python = "adopting" => pc[Owner] \in AddPlaces \cup {"held"}
    /\ python = "owns" => pc[Owner] = "held"
    /\ python \in {"disowning", "dying"} => pc[Owner] \in RemovePlaces
    /\ python = "done" => pc[Owner] = "null"
    /\ gil = Owner <=> python \in {"adopting", "disowning", "dying"}
    /\ count < 0 <=> python \in {"owns", "dying"}
    /\ python \in {"new", "adopting"} => acquired

DeadExact == dead <=> Refs = {}

(* Together they are kept until a late pointer makes its change.           *)
IInv ==
    /\ TypeOK /\ CountExact /\ ListenerKnows /\ OwnerPlaced /\ DeadExact
    /\ \A p \in Ptrs : SignFits(p) /\ SourceFits(p)
    /\ ~astray

RefPtrInv == TypeOK /\ (astray \/ IInv)

RefPlaces == {"held"} \cup RemovePlaces

----------------------------------------------------------------------------
(* The references                                                          *)

LEMMA RefsFinite ==
    /\ IsFiniteSet(Refs)
    /\ Cardinality(Refs) \in Nat
    /\ Cardinality(Refs) = 0 <=> Refs = {}
<1>1. IsFiniteSet(Refs)
  BY PtrsAssumption, FS_Subset DEF Refs
<1> QED
  BY <1>1, FS_CardinalityType, FS_EmptySet

LEMMA RefsFiniteNext ==
    /\ Cardinality(Refs') \in Nat
    /\ Cardinality(Refs') = 0 <=> Refs' = {}
<1>1. IsFiniteSet(Refs')
  BY PtrsAssumption, FS_Subset DEF Refs
<1> QED
  BY <1>1, FS_CardinalityType, FS_EmptySet

(* A pointer that moves takes or gives back its own reference.             *)
LEMMA RefsAfterMove ==
    ASSUME pc \in [Ptrs -> Places], NEW p \in Ptrs, NEW place \in Places,
           Goto(p, place)
    PROVE  /\ pc' \in [Ptrs -> Places] /\ pc'[p] = place
           /\ \A q \in Ptrs : q # p => pc'[q] = pc[q]
           /\ pc[p] \notin RefPlaces /\ place \in RefPlaces =>
                  /\ Refs' = Refs \cup {p} /\ p \notin Refs
                  /\ Cardinality(Refs') = Cardinality(Refs) + 1
           /\ pc[p] \in RefPlaces /\ place \notin RefPlaces =>
                  /\ Refs' = Refs \ {p} /\ p \in Refs
                  /\ Cardinality(Refs') = Cardinality(Refs) - 1
           /\ (pc[p] \in RefPlaces <=> place \in RefPlaces) => Refs' = Refs
<1>1. /\ pc' \in [Ptrs -> Places] /\ pc'[p] = place
      /\ \A q \in Ptrs : q # p => pc'[q] = pc[q]
  BY DEF Goto
<1>2. CASE pc[p] \notin RefPlaces /\ place \in RefPlaces
  <2>1. Refs' = Refs \cup {p} /\ p \notin Refs
    BY <1>1, <1>2 DEF Refs, RefPlaces
  <2> QED
    BY <1>1, <1>2, <2>1, RefsFinite, FS_AddElement
<1>3. CASE pc[p] \in RefPlaces /\ place \notin RefPlaces
  <2>1. Refs' = Refs \ {p} /\ p \in Refs
    BY <1>1, <1>3 DEF Refs, RefPlaces
  <2> QED
    BY <1>1, <1>3, <2>1, RefsFinite, FS_RemoveElement
<1>4. CASE pc[p] \in RefPlaces <=> place \in RefPlaces
  <2>1. Refs' = Refs
    BY <1>1, <1>4 DEF Refs, RefPlaces
  <2> QED
    BY <1>1, <1>4, <2>1
<1> QED
  BY <1>2, <1>3, <1>4

(* What the invariant tells of the count and of Python's pointer.          *)
LEMMA WhatIsKnown ==
    ASSUME IInv
    PROVE  /\ count \in Int /\ Cardinality(Refs) \in Nat
           /\ count >= 0 => count = Cardinality(Refs)
           /\ count <= 0 => count = -Cardinality(Refs)
           /\ count = 0 <=> Refs = {}
           /\ \A p \in Ptrs : pc[p] \in RefPlaces <=> p \in Refs
           /\ \A p \in Ptrs : pc[p] \in AddPlaces => Refs # {}
           /\ pc[Owner] \notin PromotePlaces
           /\ pc[Owner] \in AddPlaces => python = "adopting"
           /\ pc[Owner] \in RemovePlaces => python \in {"disowning", "dying"}
           /\ None # Owner
<1>1. /\ count \in Int /\ Cardinality(Refs) \in Nat
      /\ count >= 0 => count = Cardinality(Refs)
      /\ count <= 0 => count = -Cardinality(Refs)
      /\ count = 0 <=> Refs = {}
  BY RefsFinite DEF IInv, TypeOK, CountExact, CountAlwaysExact
<1>2. \A p \in Ptrs : pc[p] \in RefPlaces <=> p \in Refs
  BY DEF RefPlaces, Refs
<1>3. \A p \in Ptrs : pc[p] \in AddPlaces => Refs # {}
  BY <1>2 DEF IInv, SourceFits, RefPlaces
<1>4. /\ pc[Owner] \notin PromotePlaces
      /\ pc[Owner] \in AddPlaces => python = "adopting"
      /\ pc[Owner] \in RemovePlaces => python \in {"disowning", "dying"}
  BY PtrsAssumption DEF IInv, TypeOK, OwnerPlaced, AddPlaces, RemovePlaces,
                        PromotePlaces
<1> QED
  BY <1>1, <1>2, <1>3, <1>4, PtrsAssumption
----------------------------------------------------------------------------
(* Preservation of the invariant                                           *)

(* A reference is added away from zero, and the listener told of the       *)
(* second one in its lock.                                                 *)
LEMMA AddPreserves ==
    ASSUME IInv, NEW p \in Ptrs, pc[p] \in AddPlaces \cup PromotePlaces,
           Hold(p), UNCHANGED <<prev, gil, python, dead>>, count # 0, ~astray',
           count' = IF count > 0 THEN count + 1 ELSE count - 1,
           acquired' = (acquired \/ count = -1), count = -1 => MayLock(p)
    PROVE  IInv'
<1>0. late' = late /\ p \notin late /\ astray' \in BOOLEAN
  BY DEF Hold, Changed
<1>1. /\ count \in Int /\ Cardinality(Refs) \in Nat
      /\ count >= 0 => count = Cardinality(Refs)
      /\ count <= 0 => count = -Cardinality(Refs)
      /\ p = Owner => python = "adopting"
      /\ pc[p] \notin RefPlaces
  BY WhatIsKnown DEF AddPlaces, PromotePlaces, RemovePlaces, RefPlaces
<1>2. /\ pc' \in [Ptrs -> Places] /\ pc'[p] = "held"
      /\ \A q \in Ptrs : q # p => pc'[q] = pc[q]
      /\ Refs' = Refs \cup {p}
      /\ Cardinality(Refs') = Cardinality(Refs) + 1
  <2>1. "held" \in Places /\ "held" \in RefPlaces /\ Goto(p, "held")
    BY DEF Hold, Places, RefPlaces
  <2> QED
    BY <1>1, <2>1, RefsAfterMove DEF IInv, TypeOK
<1>3. /\ source'[p] = None /\ \A q \in Ptrs : q # p => source'[q] = source[q]
      /\ source' \in [Ptrs -> Ptrs \cup {None}]
  BY DEF Hold, IInv, TypeOK
<1>4. /\ count > 0 => count' > 0 /\ count' = count + 1
      /\ count < 0 => count' < -1 /\ count' = count - 1
      /\ count > 0 \/ count < 0
  BY <1>1
<1>5. TypeOK'
  BY <1>0, <1>1, <1>2, <1>3, <1>4 DEF IInv, TypeOK
<1>6. CountExact'
  BY <1>1, <1>2, <1>4 DEF CountExact, CountAlwaysExact
<1>7. python # "dying"
  BY <1>1, PtrsAssumption DEF IInv, ListenerKnows, OwnerPlaced, MayLock
<1>8. acquired' <=> acquired \/ count = -1
  OBVIOUS
<1>9. OwnerPlaced'
  <2>1. /\ p = Owner => pc'[Owner] = "held"
        /\ p # Owner => pc'[Owner] = pc[Owner]
    BY <1>2, PtrsAssumption
  <2>2. count' < 0 <=> count < 0
    BY <1>1, <1>4
  <2> QED
    BY <1>1, <1>8, <2>1, <2>2 DEF IInv, OwnerPlaced
<1>10. ListenerKnows'
  <2>1. count' < 0 => acquired'
    <3>1. count < 0 => (acquired <=> count # -1)
      BY DEF IInv, ListenerKnows
    <3> QED
      BY <1>1, <1>4, <1>8, <3>1
  <2>2. count' < 0 => python' \in {"owns", "dying"} /\ pc'[Owner] # "null"
    BY <1>1, <1>2, <1>4, PtrsAssumption DEF IInv, ListenerKnows
  <2> QED
    BY <1>4, <1>7, <2>1, <2>2 DEF ListenerKnows
<1>11. DeadExact'
  BY <1>1, <1>2, WhatIsKnown DEF IInv, DeadExact
<1>12. ASSUME NEW q \in Ptrs PROVE SignFits(q)' /\ SourceFits(q)'
  <2>1. CASE q = p
    BY <1>2, <1>3, <2>1 DEF SignFits, SourceFits, AddPlaces
  <2>2. CASE q # p
    <3>1. SignFits(q)'
      BY <1>0, <1>1, <1>2, <1>4, <2>2 DEF IInv, TypeOK, SignFits
    <3>2. SourceFits(q)'
      BY <1>2, <1>3, <2>2 DEF IInv, SourceFits
    <3> QED
      BY <3>1, <3>2
  <2> QED
    BY <2>1, <2>2
<1> QED
  BY <1>5, <1>6, <1>9, <1>10, <1>11, <1>12 DEF IInv

(* A reference is given back, and the listener told of the last but one.   *)
LEMMA RemovePreserves ==
    ASSUME IInv, NEW p \in Ptrs, pc[p] \in RemovePlaces,
           Removed(p, count = 1 \/ count = -1), UNCHANGED <<prev, source>>,
           ~astray',
           count' = IF count > 0 THEN count - 1 ELSE count + 1,
           acquired' = (acquired /\ count # -2)
    PROVE  IInv'
<1>0. late' = late /\ p \notin late /\ astray' \in BOOLEAN
  BY DEF Removed, Changed
<1>1. /\ count \in Int /\ Cardinality(Refs) \in Nat
      /\ count >= 0 => count = Cardinality(Refs)
      /\ count <= 0 => count = -Cardinality(Refs)
      /\ p = Owner => python \in {"disowning", "dying"}
      /\ pc[p] \in RefPlaces /\ p \in Refs
      /\ count # 0
  BY WhatIsKnown DEF RefPlaces
<1>2. /\ pc' \in [Ptrs -> Places] /\ pc'[p] = "null"
      /\ \A q \in Ptrs : q # p => pc'[q] = pc[q]
      /\ Refs' = Refs \ {p}
      /\ Cardinality(Refs') = Cardinality(Refs) - 1
  <2>1. "null" \in Places /\ "null" \notin RefPlaces /\ Goto(p, "null")
    BY DEF Removed, Places, RefPlaces, RemovePlaces
  <2> QED
    BY <1>1, <2>1, RefsAfterMove DEF IInv, TypeOK
<1>3. /\ count > 0 => count' >= 0 /\ count' = count - 1
      /\ count < 0 => count' <= 0 /\ count' = count + 1
      /\ count > 0 \/ count < 0
  BY <1>1
<1>4. /\ Cardinality(Refs') \in Nat
      /\ Cardinality(Refs') = 0 <=> Refs' = {}
  BY RefsFiniteNext
<1>5. CountExact'
  BY <1>1, <1>2, <1>3 DEF CountExact, CountAlwaysExact
<1>6. /\ count > 0 /\ Refs' # {} => count' > 0
      /\ count < 0 /\ Refs' # {} => count' < 0
      /\ Refs' = {} <=> count \in {1, -1}
      /\ count' = 0 <=> Refs' = {}
  BY <1>1, <1>2, <1>3, <1>4
<1>7. /\ p = Owner => gil' = None /\ python' = "done"
      /\ p # Owner => gil' = gil /\ python' = python
      /\ dead' = (dead \/ count = 1 \/ count = -1)
  BY DEF Removed
<1>8. acquired' <=> acquired /\ count # -2
  OBVIOUS
<1>t. TypeOK'
  BY <1>0, <1>1, <1>2, <1>3, <1>7 DEF IInv, TypeOK
<1>9. p # Owner /\ python \in {"owns", "dying"} => Owner \in Refs'
  BY <1>2, PtrsAssumption DEF IInv, OwnerPlaced, Refs
<1>10. OwnerPlaced'
  <2>1. CASE p = Owner
    <3>1. ~(count' < 0)
      BY <1>1, <1>3, <2>1 DEF IInv, ListenerKnows, OwnerPlaced
    <3>2. None # Owner
      BY PtrsAssumption
    <3> QED
      BY <1>2, <1>7, <2>1, <3>1, <3>2 DEF OwnerPlaced
  <2>2. CASE p # Owner
    <3>1. pc'[Owner] = pc[Owner]
      BY <1>2, <2>2, PtrsAssumption
    <3>2. count' < 0 <=> count < 0
      BY <1>3, <1>6, <1>9, <2>2 DEF IInv, OwnerPlaced
    <3>3. python \in {"new", "adopting"} => acquired'
      <4>1. python \in {"new", "adopting"} => acquired /\ ~(count < 0)
        BY DEF IInv, OwnerPlaced
      <4> QED
        BY <1>1, <1>8, <4>1
    <3> QED
      BY <1>7, <2>2, <3>1, <3>2, <3>3 DEF IInv, OwnerPlaced
  <2> QED
    BY <2>1, <2>2
<1>11. ListenerKnows'
  <2>1. count' < 0 => (acquired' <=> count' # -1)
    <3>1. count < 0 => (acquired <=> count # -1)
      BY DEF IInv, ListenerKnows
    <3> QED
      BY <1>1, <1>3, <1>8, <3>1
  <2>2. count' < 0 => python' \in {"owns", "dying"} /\ pc'[Owner] # "null"
    BY <1>10 DEF OwnerPlaced, RemovePlaces
  <2>3. python' # "dying"
    BY <1>1, <1>7 DEF IInv, ListenerKnows
  <2> QED
    BY <2>1, <2>2, <2>3 DEF ListenerKnows
<1>12. DeadExact'
  BY <1>1, <1>6, <1>7 DEF IInv, DeadExact
<1>13. ASSUME NEW q \in Ptrs PROVE SignFits(q)' /\ SourceFits(q)'
  <2>1. CASE q = p
    BY <1>2, <2>1 DEF IInv, SignFits, SourceFits, AddPlaces, RemovePlaces
  <2>2. CASE q # p
    <3>1. SourceFits(q) /\ SignFits(q) /\ pc'[q] = pc[q]
      BY <1>2, <2>2 DEF IInv
    <3>2. SourceFits(q)'
      BY <1>2, <3>1 DEF SourceFits, RemovePlaces
    <3>3. pc[q] \in AddPlaces \cup RemovePlaces => Refs' # {}
      BY <1>2, <3>1, <3>2 DEF SourceFits, Refs
    <3>4. /\ pc[q] \in AddPlaces \cup RemovePlaces /\ count > 0 => count' > 0
          /\ pc[q] \in AddPlaces \cup RemovePlaces /\ count < 0 => count' < 0
      BY <1>6, <3>3
    <3>5. SignFits(q)'
      BY <1>0, <1>1, <1>3, <3>1, <3>4 DEF SignFits, AddPlaces, RemovePlaces
    <3> QED
      BY <3>2, <3>5
  <2> QED
    BY <2>1, <2>2
<1> QED
  BY <1>5, <1>t, <1>10, <1>11, <1>12, <1>13 DEF IInv

(* A move between places that leave the reference where it is.             *)
LEMMA MovePreserves ==
    ASSUME IInv, NEW p \in Ptrs, NEW place \in Places, Goto(p, place),
           UNCHANGED <<count, pythonVars, dead, astray>>,
           late' = late \/ late' = late \ {p},
           pc[p] \in RefPlaces <=> place \in RefPlaces,
           pc[p] = "held" => \A q \in Ptrs : source[q] # p,
           p = Owner => \/ pc[p] \in AddPlaces /\ place \in AddPlaces
                        \/ pc[p] \in RemovePlaces /\ place \in RemovePlaces,
           prev' \in [Ptrs -> Int], source' \in [Ptrs -> Ptrs \cup {None}],
           \A q \in Ptrs : q # p => prev'[q] = prev[q] /\ source'[q] = source[q],
           SignFits(p)', SourceFits(p)'
    PROVE  IInv'
<1>1. /\ pc' \in [Ptrs -> Places] /\ pc'[p] = place
      /\ \A q \in Ptrs : q # p => pc'[q] = pc[q]
      /\ Refs' = Refs
  BY RefsAfterMove DEF IInv, TypeOK
<1>2. TypeOK' /\ CountExact' /\ DeadExact'
  BY <1>1 DEF IInv, TypeOK, CountExact, CountAlwaysExact, DeadExact, pythonVars
<1>3. /\ p = Owner => \/ pc[Owner] \in AddPlaces /\ pc'[Owner] \in AddPlaces
                      \/ pc[Owner] \in RemovePlaces /\ pc'[Owner] \in RemovePlaces
      /\ p # Owner => pc'[Owner] = pc[Owner]
  BY <1>1, PtrsAssumption
<1>4. OwnerPlaced' /\ ListenerKnows'
  BY <1>1, <1>3 DEF IInv, OwnerPlaced, ListenerKnows, pythonVars, AddPlaces,
                    RemovePlaces
<1>5. ASSUME NEW q \in Ptrs, q # p PROVE SignFits(q)' /\ SourceFits(q)'
  <2>1. SignFits(q)'
    BY <1>1, <1>5 DEF IInv, SignFits
  <2>2. source[q] # None => source[q] # p \/ pc[p] # "held"
    BY <1>5
  <2>3. SourceFits(q)'
    BY <1>1, <1>5, <2>2 DEF IInv, SourceFits
  <2> QED
    BY <2>1, <2>3
<1> QED
  BY <1>2, <1>4, <1>5 DEF IInv

(* The operations of pointers that change no reference.                    *)
LEMMA QuietPreserves ==
    ASSUME IInv, NEW p \in Ptrs,
           \/ \E q \in Ptrs : Copy(p, q)
           \/ LoadToAdd(p) \/ CasFails(p) \/ Drop(p) \/ LoadToRemove(p)
           \/ Promote(p) \/ LoadToPromote(p) \/ PromoteTurns(p) \/ PromoteFails(p)
    PROVE  IInv' /\ Refs' = Refs /\ dead' = dead
<1>1. /\ count \in Int /\ pc \in [Ptrs -> Places] /\ prev \in [Ptrs -> Int]
      /\ source \in [Ptrs -> Ptrs \cup {None}] /\ SignFits(p) /\ SourceFits(p)
      /\ pc[p] \in AddPlaces \cup RemovePlaces => count # 0
      /\ pc[Owner] \notin PromotePlaces
  BY WhatIsKnown DEF IInv, TypeOK, RefPlaces
<1>2. See(p) => /\ prev' \in [Ptrs -> Int] /\ prev'[p] = count
                /\ \A q \in Ptrs : q # p => prev'[q] = prev[q]
  BY <1>1 DEF See
<1>3. \A place \in Places : Goto(p, place) =>
        pc'[p] = place /\ \A q \in Ptrs : q # p => pc'[q] = pc[q]
  BY <1>1 DEF Goto
<1>c. \A place \in Places : Goto(p, place) /\ (pc[p] \in RefPlaces <=> place \in RefPlaces)
        => Refs' = Refs
  BY <1>1, RefsAfterMove
<1>4. ASSUME NEW q \in Ptrs, Copy(p, q)
      PROVE  IInv' /\ Refs' = Refs /\ dead' = dead
  <2>1. /\ "add" \in Places /\ Goto(p, "add") /\ p # Owner
        /\ pc[p] = "null" /\ UNCHANGED <<count, prev, pythonVars, dead, flips>>
        /\ pc[p] \notin RefPlaces /\ "add" \notin RefPlaces
    BY <1>4 DEF Copy, Places, AddPlaces, RefPlaces, RemovePlaces
  <2>2. SignFits(p)'
    BY <1>3, <2>1 DEF SignFits
  <2>3. /\ source' \in [Ptrs -> Ptrs \cup {None}]
        /\ \A r \in Ptrs : r # p => source'[r] = source[r]
        /\ SourceFits(p)'
    BY <1>1, <1>3, <1>4, <2>1 DEF Copy, SourceFits, AddPlaces
  <2> QED
    BY <1>1, <1>c, <2>1, <2>2, <2>3, MovePreserves DEF flips
<1>5. CASE LoadToAdd(p)
  <2> DEFINE place == IF count < 0 THEN "addCas" ELSE "addBump"
  <2>1. /\ place \in Places /\ Goto(p, place) /\ See(p)
        /\ pc[p] \in AddPlaces /\ place \in AddPlaces
        /\ UNCHANGED <<count, source, pythonVars, dead, flips>>
        /\ pc[p] \notin RefPlaces /\ place \notin RefPlaces /\ pc[p] # "held"
    BY <1>5 DEF LoadToAdd, Places, AddPlaces, RefPlaces, RemovePlaces
  <2>2. SignFits(p)'
    BY <1>1, <1>2, <1>3, <2>1 DEF SignFits
  <2>3. SourceFits(p)'
    BY <1>1, <1>3, <2>1 DEF SourceFits
  <2> QED
    BY <1>1, <1>2, <1>c, <2>1, <2>2, <2>3, MovePreserves DEF flips
<1>6. CASE LoadToRemove(p)
  <2> DEFINE place == IF count < 0 THEN "removeCas" ELSE "removeDrop"
  <2>1. /\ place \in Places /\ Goto(p, place) /\ See(p)
        /\ pc[p] \in RemovePlaces /\ place \in RemovePlaces
        /\ UNCHANGED <<count, source, pythonVars, dead, flips>>
        /\ pc[p] \in RefPlaces /\ place \in RefPlaces /\ pc[p] # "held"
        /\ pc[p] \notin AddPlaces /\ place \notin AddPlaces
    BY <1>6 DEF LoadToRemove, Places, AddPlaces, RefPlaces, RemovePlaces
  <2>2. SignFits(p)'
    BY <1>1, <1>2, <1>3, <2>1 DEF SignFits
  <2>3. SourceFits(p)'
    BY <1>1, <1>3, <2>1 DEF SourceFits
  <2> QED
    BY <1>1, <1>2, <1>c, <2>1, <2>2, <2>3, MovePreserves DEF flips
<1>7. CASE CasFails(p)
  <2>1. /\ Goto(p, pc[p]) /\ See(p) /\ pc[p] \in Places
        /\ pc[p] \in {"addCas", "removeCas", "promotePos", "promoteNeg"}
        /\ UNCHANGED <<count, pc, source, pythonVars, dead, flips>>
    BY <1>1, <1>7 DEF CasFails, Goto
  <2>2. SignFits(p)'
    BY <1>1, <1>2, <1>7, <2>1 DEF CasFails, SignFits, AddPlaces, RemovePlaces, flips
  <2>3. SourceFits(p)'
    BY <1>1, <2>1 DEF SourceFits
  <2>4. p = Owner => pc[p] \in AddPlaces \cup RemovePlaces
    BY <1>1, <2>1 DEF AddPlaces, RemovePlaces, PromotePlaces
  <2> QED
    BY <1>1, <1>2, <1>c, <2>1, <2>2, <2>3, <2>4, MovePreserves DEF flips
<1>8. CASE Drop(p)
  <2>1. /\ "remove" \in Places /\ Goto(p, "remove") /\ p # Owner
        /\ UNCHANGED <<count, prev, source, pythonVars, dead, flips>>
        /\ pc[p] = "held" /\ \A q \in Ptrs : source[q] # p
        /\ pc[p] \in RefPlaces /\ "remove" \in RefPlaces
    BY <1>8 DEF Drop, Places, RefPlaces, RemovePlaces
  <2>2. SignFits(p)' /\ SourceFits(p)'
    BY <1>1, <1>3, <2>1 DEF SignFits, SourceFits, AddPlaces
  <2> QED
    BY <1>1, <1>c, <2>1, <2>2, MovePreserves DEF flips
<1>9. CASE Promote(p) \/ PromoteFails(p)
  <2>1. PICK place \in {"promote", "null"} : Goto(p, place)
    BY <1>9 DEF Promote, PromoteFails
  <2>2. /\ place \in Places /\ p # Owner /\ pc[p] \in {"null", "promoteNeg"}
        /\ UNCHANGED <<count, prev, source, pythonVars, dead, astray>>
        /\ late' = late \/ late' = late \ {p}
    BY <1>1, <1>9, <2>1 DEF Promote, PromoteFails, Places, PromotePlaces, flips
  <2>3. pc[p] \notin RefPlaces /\ place \notin RefPlaces
    BY <2>1, <2>2 DEF RefPlaces, RemovePlaces
  <2>4. SignFits(p)' /\ SourceFits(p)'
    BY <1>1, <1>3, <2>1, <2>2 DEF SignFits, SourceFits, AddPlaces
  <2> QED
    BY <1>1, <1>c, <2>1, <2>2, <2>3, <2>4, MovePreserves
<1>10. CASE LoadToPromote(p)
  <2>1. /\ "promotePos" \in Places /\ Goto(p, "promotePos") /\ See(p)
        /\ pc[p] = "promote" /\ p # Owner
        /\ UNCHANGED <<count, source, pythonVars, dead, flips>>
        /\ pc[p] \notin RefPlaces /\ "promotePos" \notin RefPlaces
    BY <1>1, <1>10 DEF LoadToPromote, Places, PromotePlaces, RefPlaces, RemovePlaces
  <2>2. SignFits(p)' /\ SourceFits(p)'
    BY <1>1, <1>2, <1>3, <2>1 DEF SignFits, SourceFits, AddPlaces
  <2> QED
    BY <1>1, <1>2, <1>c, <2>1, <2>2, MovePreserves DEF flips
<1>11. CASE PromoteTurns(p)
  <2>1. /\ "promoteNeg" \in Places /\ Goto(p, "promoteNeg")
        /\ pc[p] = "promotePos" /\ p # Owner /\ ~(prev[p] > 0)
        /\ UNCHANGED <<count, prev, source, pythonVars, dead, flips>>
        /\ pc[p] \notin RefPlaces /\ "promoteNeg" \notin RefPlaces
    BY <1>1, <1>11 DEF PromoteTurns, Places, PromotePlaces, RefPlaces, RemovePlaces
  <2>2. SignFits(p)' /\ SourceFits(p)'
    BY <1>1, <1>3, <2>1 DEF flips, SignFits, SourceFits, AddPlaces
  <2> QED
    BY <1>1, <1>c, <2>1, <2>2, MovePreserves DEF flips
<1> QED
  BY <1>4, <1>5, <1>6, <1>7, <1>8, <1>9, <1>10, <1>11

AddsReference(p) ==
    \/ AddBump(p) \/ AddCas(p) \/ AddLocked(p)
    \/ PromotePos(p) \/ PromoteNeg(p) \/ PromoteLocked(p)

LEMMA AddingPreserves ==
    ASSUME IInv, NEW p \in Ptrs, AddsReference(p), ~astray'
    PROVE  IInv' /\ p \notin Refs /\ Refs' = Refs \cup {p} /\ ~dead /\ dead' = dead
<1>1. /\ count \in Int /\ prev[p] \in Int /\ acquired \in BOOLEAN
      /\ SignFits(p)
      /\ pc[p] \in AddPlaces => count # 0
      /\ pc \in [Ptrs -> Places]
      /\ count = 0 <=> Refs = {}
  BY WhatIsKnown DEF IInv, TypeOK
<1>h. Hold(p)
  BY DEF AddsReference, AddBump, AddCas, AddLocked, PromotePos, PromoteNeg,
         PromoteLocked
<1>l. p \notin late
  BY <1>h DEF Hold, Changed
<1>2. /\ pc[p] \in AddPlaces \cup PromotePlaces /\ pc[p] \notin RefPlaces
      /\ Hold(p) /\ UNCHANGED <<prev, gil, python, dead>>
  BY DEF AddsReference, AddBump, AddCas, AddLocked, PromotePos, PromoteNeg,
         PromoteLocked, AddPlaces, PromotePlaces, pythonVars, RefPlaces,
         RemovePlaces
<1>3. /\ count # 0 /\ count' = IF count > 0 THEN count + 1 ELSE count - 1
      /\ count = -1 => MayLock(p)
  BY <1>1, <1>l DEF AddsReference, AddBump, AddCas, AddLocked, PromotePos,
              PromoteNeg, PromoteLocked, SignFits, AddPlaces
<1>4. acquired' = (acquired \/ count = -1)
  <2>1. CASE AddLocked(p) \/ PromoteLocked(p)
    BY <2>1 DEF AddLocked, PromoteLocked
  <2>2. CASE AddBump(p) \/ AddCas(p) \/ PromotePos(p) \/ PromoteNeg(p)
    <3>1. count # -1 /\ acquired' = acquired
      BY <1>1, <1>l, <2>2 DEF AddBump, AddCas, PromotePos, PromoteNeg, pythonVars,
                        SignFits
    <3> QED
      BY <1>1, <3>1
  <2> QED
    BY <2>1, <2>2 DEF AddsReference
<1>5. IInv'
  BY <1>2, <1>3, <1>4, AddPreserves
<1>6. "held" \in Places /\ "held" \in RefPlaces /\ Goto(p, "held")
  BY <1>2 DEF Hold, Places, RefPlaces
<1>7. p \notin Refs /\ Refs' = Refs \cup {p}
  BY <1>1, <1>2, <1>6, RefsAfterMove
<1> QED
  BY <1>1, <1>2, <1>3, <1>5, <1>7 DEF IInv, DeadExact

RemovesReference(p) == RemoveDrop(p) \/ RemoveCas(p) \/ RemoveLocked(p)

LEMMA RemovingPreserves ==
    ASSUME IInv, NEW p \in Ptrs, RemovesReference(p), ~astray'
    PROVE  IInv' /\ p \in Refs /\ Refs' = Refs \ {p}
<1>1. /\ count \in Int /\ prev[p] \in Int /\ acquired \in BOOLEAN
      /\ SignFits(p) /\ pc \in [Ptrs -> Places]
  BY DEF IInv, TypeOK
<1>l. p \notin late
  BY DEF RemovesReference, RemoveDrop, RemoveCas, RemoveLocked, Removed, Changed
<1>2. pc[p] \in RemovePlaces /\ UNCHANGED <<prev, source>>
  BY DEF RemovesReference, RemoveDrop, RemoveCas, RemoveLocked, RemovePlaces
<1>3. count' = IF count > 0 THEN count - 1 ELSE count + 1
  BY <1>1, <1>l DEF RemovesReference, RemoveDrop, RemoveCas, RemoveLocked, SignFits
<1>4. Removed(p, count = 1 \/ count = -1)
  <2>1. CASE RemoveDrop(p)
    <3>1. (count = 1) <=> (count = 1 \/ count = -1)
      BY <1>1, <1>l, <2>1 DEF RemoveDrop, SignFits
    <3> QED
      BY <2>1, <3>1 DEF RemoveDrop, Removed
  <2>2. CASE RemoveCas(p)
    <3>1. (prev[p] = -1) <=> (count = 1 \/ count = -1)
      BY <1>1, <1>l, <2>2 DEF RemoveCas, SignFits
    <3> QED
      BY <2>2, <3>1 DEF RemoveCas, Removed
  <2>3. CASE RemoveLocked(p)
    <3>1. (count = -1) <=> (count = 1 \/ count = -1)
      BY <1>1, <1>l, <2>3 DEF RemoveLocked, SignFits
    <3> QED
      BY <2>3, <3>1 DEF RemoveLocked, Removed
  <2> QED
    BY <2>1, <2>2, <2>3 DEF RemovesReference
<1>5. acquired' = (acquired /\ count # -2)
  <2>1. CASE RemoveLocked(p)
    BY <2>1 DEF RemoveLocked
  <2>2. CASE RemoveDrop(p) \/ RemoveCas(p)
    <3>1. count # -2 /\ acquired' = acquired
      BY <1>1, <1>l, <2>2 DEF RemoveDrop, RemoveCas, SignFits
    <3> QED
      BY <1>1, <3>1
  <2> QED
    BY <2>1, <2>2 DEF RemovesReference
<1>6. IInv'
  BY <1>2, <1>3, <1>4, <1>5, RemovePreserves
<1>7. /\ "null" \in Places /\ "null" \notin RefPlaces /\ Goto(p, "null")
      /\ pc[p] \in RefPlaces
  BY <1>2, <1>4 DEF Removed, Places, RefPlaces, RemovePlaces
<1> QED
  BY <1>1, <1>6, <1>7, RefsAfterMove

(* Python takes ownership, asks for the listener, and gives its pointer up,*)
(* or dies with it. Whoever goes by the flipped sign is late from then on. *)
LEMMA PythonPreserves ==
    ASSUME IInv,
           (\E q \in Ptrs : Adopt(q) \/ Disown(q)) \/ Listen \/ Die
    PROVE  IInv' /\ Refs' = Refs /\ dead' = dead
<1>1. /\ count \in Int /\ pc \in [Ptrs -> Places] /\ prev \in [Ptrs -> Int]
      /\ source \in [Ptrs -> Ptrs \cup {None}] /\ Owner \in Ptrs /\ None # Owner
      /\ Cardinality(Refs) \in Nat /\ (count = 0 <=> Refs = {})
      /\ count >= 0 => count = Cardinality(Refs)
      /\ count <= 0 => count = -Cardinality(Refs)
      /\ OwnerPlaced /\ ListenerKnows /\ acquired \in BOOLEAN
  BY WhatIsKnown, PtrsAssumption DEF IInv, TypeOK
<1>2. \A place \in Places : Goto(Owner, place) =>
        /\ pc' \in [Ptrs -> Places] /\ pc'[Owner] = place
        /\ \A q \in Ptrs : q # Owner => pc'[q] = pc[q]
        /\ (pc[Owner] \in RefPlaces <=> place \in RefPlaces) => Refs' = Refs
  BY <1>1, RefsAfterMove
<1>3. ASSUME NEW q \in Ptrs, Adopt(q)
      PROVE  IInv' /\ Refs' = Refs /\ dead' = dead
  <2>1. /\ "add" \in Places /\ Goto(Owner, "add") /\ pc[Owner] = "null"
        /\ pc[Owner] \notin RefPlaces /\ "add" \notin RefPlaces
        /\ UNCHANGED <<count, prev, acquired, dead, flips>>
        /\ python = "new" /\ python' = "adopting" /\ gil' = Owner
    BY <1>1, <1>3 DEF Adopt, Places, AddPlaces, RefPlaces, RemovePlaces, OwnerPlaced
  <2>2. /\ pc'[Owner] = "add" /\ pc' \in [Ptrs -> Places] /\ Refs' = Refs
        /\ \A r \in Ptrs : r # Owner => pc'[r] = pc[r]
    BY <1>2, <2>1
  <2>3. /\ source' \in [Ptrs -> Ptrs \cup {None}] /\ source'[Owner] = q
        /\ \A r \in Ptrs : r # Owner => source'[r] = source[r]
        /\ pc[q] = "held" /\ q # Owner
    BY <1>1, <1>3, <2>1 DEF Adopt
  <2>4. TypeOK' /\ CountExact' /\ DeadExact' /\ OwnerPlaced' /\ ListenerKnows'
    BY <1>1, <2>1, <2>2, <2>3 DEF IInv, TypeOK, CountExact, CountAlwaysExact,
       DeadExact, flips,
       OwnerPlaced, ListenerKnows, AddPlaces
  <2>5. ASSUME NEW r \in Ptrs PROVE SignFits(r)' /\ SourceFits(r)'
    <3>1. CASE r = Owner
      BY <2>2, <2>3, <3>1 DEF SignFits, SourceFits, AddPlaces
    <3>2. CASE r # Owner
      BY <2>1, <2>2, <2>3, <3>2 DEF IInv, flips, SignFits, SourceFits
    <3> QED
      BY <3>1, <3>2
  <2> QED
    BY <2>1, <2>2, <2>4, <2>5 DEF IInv, flips
<1>4. CASE Listen
  <2>1. /\ UNCHANGED <<pc, prev, source, acquired, dead, astray>> /\ gil' = None
        /\ python = "adopting" /\ python' = "owns" /\ pc[Owner] = "held"
        /\ count' = IF count > 0 THEN -count ELSE count
        /\ late' = late \cup {r \in Ptrs : GoesBySign(r)}
    BY <1>1, <1>4, RefsFinite DEF Listen, Flip, OwnerPlaced, Refs
  <2>2. Refs' = Refs
    BY <2>1 DEF Refs
  <2>3. PICK q \in Ptrs \ {Owner} : pc[q] = "held"
    BY <1>4 DEF Listen
  <2>4. Cardinality(Refs) # 0 /\ Cardinality(Refs) # 1
    <3>1. {q, Owner} \subseteq Refs
      BY <1>1, <2>1, <2>3 DEF Refs
    <3>2. Refs # {} /\ \A x : Refs # {x}
      BY <2>3, <3>1
    <3> QED
      BY <3>2, RefsFinite, FS_Singleton
  <2>5. count' < 0 /\ count' # -1 /\ acquired
    BY <1>1, <2>1, <2>4 DEF OwnerPlaced
  <2>6. TypeOK' /\ CountExact' /\ DeadExact' /\ OwnerPlaced' /\ ListenerKnows'
    BY <1>1, <2>1, <2>2, <2>5 DEF IInv, TypeOK, CountExact, CountAlwaysExact,
       DeadExact, flips,
       OwnerPlaced, ListenerKnows
  <2>7. ASSUME NEW r \in Ptrs PROVE SignFits(r)' /\ SourceFits(r)'
    BY <1>1, <2>1 DEF IInv, GoesBySign, SignFits, SourceFits
  <2> QED
    BY <2>1, <2>2, <2>6, <2>7 DEF IInv
<1>5. ASSUME NEW q \in Ptrs, Disown(q)
      PROVE  IInv' /\ Refs' = Refs /\ dead' = dead
  <2>1. /\ "remove" \in Places /\ Goto(Owner, "remove") /\ pc[Owner] = "held"
        /\ pc[Owner] \in RefPlaces /\ "remove" \in RefPlaces
        /\ UNCHANGED <<prev, source, acquired, dead, astray>>
        /\ count' = IF count < 0 THEN -count ELSE count
        /\ python = "owns" /\ python' = "disowning" /\ gil' = Owner
        /\ late' = late \cup {r \in Ptrs : GoesBySign(r)} /\ OwnerIsFree
    BY <1>1, <1>5 DEF Disown, Flip, Places, RefPlaces, RemovePlaces, OwnerPlaced
  <2>2. /\ pc'[Owner] = "remove" /\ pc' \in [Ptrs -> Places] /\ Refs' = Refs
        /\ \A r \in Ptrs : r # Owner => pc'[r] = pc[r]
    BY <1>2, <2>1
  <2>3. count' > 0 \/ count' = 0
    BY <1>1, <2>1
  <2>4. TypeOK' /\ CountExact' /\ DeadExact' /\ OwnerPlaced' /\ ListenerKnows'
    BY <1>1, <2>1, <2>2, <2>3 DEF IInv, TypeOK, CountExact, CountAlwaysExact,
       DeadExact, flips,
       OwnerPlaced, ListenerKnows, RemovePlaces
  <2>5. ASSUME NEW r \in Ptrs PROVE SignFits(r)' /\ SourceFits(r)'
    <3>1. r \in late' \/ ~GoesBySign(r)
      BY <2>1
    <3>2. SourceFits(r) /\ source[r] # Owner
      BY <2>1 DEF IInv, OwnerIsFree
    <3>3. CASE r = Owner
      BY <2>1, <2>2, <3>2, <3>3 DEF SignFits, SourceFits, AddPlaces
    <3>4. CASE r # Owner
      BY <1>1, <2>1, <2>2, <3>1, <3>2, <3>4
         DEF GoesBySign, SignFits, SourceFits, AddPlaces
    <3> QED
      BY <3>3, <3>4
  <2> QED
    BY <2>1, <2>2, <2>4, <2>5 DEF IInv
<1>6. CASE Die
  <2>1. /\ "remove" \in Places /\ Goto(Owner, "remove") /\ pc[Owner] = "held"
        /\ pc[Owner] \in RefPlaces /\ "remove" \in RefPlaces
        /\ UNCHANGED <<count, prev, source, acquired, dead, flips>>
        /\ python = "owns" /\ python' = "dying" /\ gil' = Owner
        /\ ~acquired /\ OwnerIsFree
    BY <1>1, <1>6 DEF Die, Places, RefPlaces, RemovePlaces, OwnerPlaced
  <2>2. /\ pc'[Owner] = "remove" /\ pc' \in [Ptrs -> Places] /\ Refs' = Refs
        /\ \A r \in Ptrs : r # Owner => pc'[r] = pc[r]
    BY <1>2, <2>1
  <2>3. count = -1 /\ Refs = {Owner}
    <3>1. count = -1
      BY <1>1, <2>1 DEF IInv, OwnerPlaced, ListenerKnows
    <3>2. Cardinality(Refs) = 1 /\ Owner \in Refs
      BY <1>1, <2>1, <3>1 DEF Refs
    <3>3. \E x : Refs = {x}
      BY <3>2, RefsFinite, FS_Singleton
    <3> QED
      BY <3>1, <3>2, <3>3
  <2>4. TypeOK' /\ CountExact' /\ DeadExact' /\ OwnerPlaced' /\ ListenerKnows'
    BY <1>1, <2>1, <2>2, <2>3 DEF IInv, TypeOK, CountExact, CountAlwaysExact,
       DeadExact, flips,
       OwnerPlaced, ListenerKnows, RemovePlaces
  <2>5. ASSUME NEW r \in Ptrs PROVE SignFits(r)' /\ SourceFits(r)'
    <3>1. SignFits(r) /\ SourceFits(r) /\ source[r] # Owner
      BY <2>1 DEF IInv, OwnerIsFree
    <3>2. CASE r = Owner
      BY <2>1, <2>2, <3>1, <3>2 DEF flips, SignFits, SourceFits, AddPlaces
    <3>3. CASE r # Owner
      BY <2>1, <2>2, <3>1, <3>3 DEF flips, SignFits, SourceFits
    <3> QED
      BY <3>2, <3>3
  <2> QED
    BY <2>1, <2>2, <2>4, <2>5 DEF IInv, flips
<1> QED
  BY <1>3, <1>4, <1>5, <1>6

----------------------------------------------------------------------------
(* Theorems                                                                *)

LEMMA RefPtrInit == Init => IInv
<1> SUFFICES ASSUME Init
             PROVE  IInv
  OBVIOUS
<1>1. PICK p \in Ptrs \ {Owner} :
          pc = [q \in Ptrs |-> IF q = p THEN "held" ELSE "null"]
  BY DEF Init
<1>2. Refs = {p}
  BY <1>1 DEF Refs, RemovePlaces
<1>3. Cardinality(Refs) = 1
  BY <1>2, FS_Singleton
<1>4. TypeOK /\ CountExact /\ DeadExact
  <2>1. pc \in [Ptrs -> Places]
    BY <1>1 DEF Places
  <2>2. TypeOK
    <3>1. prev \in [Ptrs -> Int] /\ source \in [Ptrs -> Ptrs \cup {None}]
      BY DEF Init
    <3>2. count \in Int /\ gil \in {Owner, None} /\ python = "new"
      BY DEF Init
    <3>3. acquired \in BOOLEAN /\ dead \in BOOLEAN
      BY DEF Init
    <3>4. late \subseteq Ptrs /\ astray \in BOOLEAN
      BY DEF Init
    <3> QED
      BY <2>1, <3>1, <3>2, <3>3, <3>4, Zenon DEF TypeOK
  <2>3. CountExact /\ DeadExact
    BY <1>2, <1>3 DEF Init, CountExact, CountAlwaysExact, DeadExact
  <2> QED
    BY <2>2, <2>3
<1>5. OwnerPlaced /\ ListenerKnows
  BY <1>1, PtrsAssumption DEF Init, OwnerPlaced, ListenerKnows
<1>6. \A q \in Ptrs : SignFits(q) /\ SourceFits(q)
  BY <1>1 DEF Init, SignFits, SourceFits, AddPlaces
<1> QED
  BY <1>4, <1>5, <1>6 DEF IInv, Init

(* Types are kept whatever is late.                                        *)
LEMMA RefPtrTypes == TypeOK /\ [Next]_vars => TypeOK'
<1> SUFFICES ASSUME TypeOK, [Next]_vars
             PROVE  TypeOK'
  OBVIOUS
<1> USE PtrsAssumption
<1>1. CASE UNCHANGED vars
  BY <1>1 DEF vars, flips, TypeOK
<1>2. \A p \in Ptrs, place \in Places : Goto(p, place) => pc' \in [Ptrs -> Places]
  BY DEF TypeOK, Goto
<1>3. \A p \in Ptrs : See(p) => prev' \in [Ptrs -> Int]
  BY DEF TypeOK, See
<1>4. {"null", "held", "add", "addBump", "addCas", "remove", "removeDrop",
       "removeCas", "promote", "promotePos", "promoteNeg"} \subseteq Places
  BY DEF Places, AddPlaces, RemovePlaces, PromotePlaces
<1>5. ASSUME NEW p \in Ptrs
      PROVE  Hold(p) => /\ pc' \in [Ptrs -> Places] /\ late' \subseteq Ptrs
                        /\ source' \in [Ptrs -> Ptrs \cup {None}]
                        /\ astray' \in BOOLEAN
  BY <1>2, <1>4 DEF Hold, Changed, TypeOK
<1>6. ASSUME NEW p \in Ptrs, NEW last \in BOOLEAN
      PROVE  Removed(p, last) =>
                 /\ pc' \in [Ptrs -> Places] /\ late' \subseteq Ptrs
                 /\ gil' \in {Owner, None}
                 /\ python' \in {"new", "adopting", "owns", "disowning", "dying",
                                 "done"}
                 /\ astray' \in BOOLEAN /\ dead' \in BOOLEAN
  BY <1>2, <1>4 DEF Removed, Changed, TypeOK
<1>7. ASSUME NEW p \in Ptrs, AddsReference(p)
      PROVE  TypeOK'
  <2>0. prev[p] \in Int /\ count \in Int /\ acquired \in BOOLEAN
    BY DEF TypeOK
  <2>1. Hold(p) /\ UNCHANGED <<prev, gil, python, dead>>
    BY <1>7 DEF AddsReference, AddBump, AddCas, AddLocked, PromotePos,
                PromoteNeg, PromoteLocked, pythonVars
  <2>2. count' \in Int
    BY <1>7, <2>0 DEF AddsReference, AddBump, AddCas, AddLocked, PromotePos,
       PromoteNeg, PromoteLocked, pythonVars
  <2>3. acquired' = acquired \/ acquired' \in BOOLEAN
    BY <1>7 DEF AddsReference, AddBump, AddCas, AddLocked, PromotePos, PromoteNeg,
       PromoteLocked, pythonVars
  <2> QED
    BY <1>5, <2>0, <2>1, <2>2, <2>3 DEF TypeOK
<1>8. ASSUME NEW p \in Ptrs, RemovesReference(p)
      PROVE  TypeOK'
  <2>0. prev[p] \in Int /\ count \in Int /\ acquired \in BOOLEAN
    BY DEF TypeOK
  <2>1. UNCHANGED <<prev, source>> /\ \E last \in BOOLEAN : Removed(p, last)
    BY <1>8 DEF RemovesReference, RemoveDrop, RemoveCas, RemoveLocked
  <2>2. count' \in Int
    BY <1>8, <2>0 DEF RemovesReference, RemoveDrop, RemoveCas, RemoveLocked
  <2>3. acquired' = acquired \/ acquired' \in BOOLEAN
    BY <1>8 DEF RemovesReference, RemoveDrop, RemoveCas, RemoveLocked
  <2> QED
    BY <1>6, <2>0, <2>1, <2>2, <2>3 DEF TypeOK
<1>9. ASSUME NEW p \in Ptrs,
             \/ \E q \in Ptrs : Copy(p, q)
             \/ LoadToAdd(p) \/ CasFails(p) \/ Drop(p) \/ LoadToRemove(p)
             \/ Promote(p) \/ LoadToPromote(p) \/ PromoteTurns(p) \/ PromoteFails(p)
      PROVE  TypeOK'
  <2>1. /\ UNCHANGED <<count, pythonVars, dead, astray>>
        /\ late' \subseteq Ptrs
    BY <1>9 DEF Copy, LoadToAdd, CasFails, Drop, LoadToRemove, Promote,
                LoadToPromote, PromoteTurns, PromoteFails, flips, TypeOK
  <2>2. pc' \in [Ptrs -> Places]
    <3>1. pc' = pc \/ \E place \in Places : Goto(p, place)
      BY <1>4, <1>9 DEF Copy, LoadToAdd, CasFails, Drop, LoadToRemove, Promote,
                        LoadToPromote, PromoteTurns, PromoteFails
    <3> QED
      BY <1>2, <3>1 DEF TypeOK
  <2>3. prev' \in [Ptrs -> Int]
    <3>1. prev' = prev \/ See(p)
      BY <1>9 DEF Copy, LoadToAdd, CasFails, Drop, LoadToRemove, Promote,
                  LoadToPromote, PromoteTurns, PromoteFails
    <3> QED
      BY <1>3, <3>1 DEF TypeOK
  <2>4. source' \in [Ptrs -> Ptrs \cup {None}]
    BY <1>9 DEF Copy, LoadToAdd, CasFails, Drop, LoadToRemove, Promote,
                LoadToPromote, PromoteTurns, PromoteFails, TypeOK
  <2> QED
    BY <2>1, <2>2, <2>3, <2>4 DEF TypeOK, pythonVars
<1>10. ASSUME NEW q \in Ptrs, Adopt(q)
       PROVE  TypeOK'
  BY <1>2, <1>4, <1>10 DEF Adopt, TypeOK, flips
<1>11. ASSUME NEW listen \in BOOLEAN, Flip(listen)
       PROVE  count' \in Int /\ late' \subseteq Ptrs
  BY <1>11 DEF Flip, TypeOK
<1>12. CASE Listen
  BY <1>11, <1>12 DEF Listen, TypeOK
<1>13. ASSUME NEW q \in Ptrs, Disown(q)
       PROVE  TypeOK'
  BY <1>2, <1>4, <1>11, <1>13 DEF Disown, TypeOK
<1>14. CASE Die
  BY <1>2, <1>4, <1>14 DEF Die, TypeOK, flips
<1> QED
  BY <1>1, <1>7, <1>8, <1>9, <1>10, <1>12, <1>13, <1>14
     DEF Next, AddsReference, RemovesReference

(* What a step does to the references and to the object.                   *)
LEMMA RefPtrStep ==
    ASSUME IInv, [Next]_vars, ~astray'
    PROVE  /\ IInv'
           /\ \/ Refs' = Refs /\ dead' = dead
              \/ \E p \in Ptrs :
                    \/ p \notin Refs /\ Refs' = Refs \cup {p} /\ ~dead /\ dead' = dead
                    \/ p \in Refs /\ Refs' = Refs \ {p}
<1>1. CASE UNCHANGED vars
  <2>1. Refs' = Refs /\ dead' = dead
    BY <1>1 DEF vars, Refs
  <2>2. \A p \in Ptrs : SignFits(p)' /\ SourceFits(p)'
    BY <1>1 DEF IInv, vars, flips, SignFits, SourceFits
  <2> QED
    BY <1>1, <2>1, <2>2 DEF IInv, vars, flips, TypeOK, CountExact, CountAlwaysExact,
       ListenerKnows,
                            OwnerPlaced, DeadExact
<1>2. ASSUME NEW p \in Ptrs, AddsReference(p)
      PROVE  IInv' /\ p \notin Refs /\ Refs' = Refs \cup {p} /\ ~dead /\ dead' = dead
  BY <1>2, AddingPreserves
<1>3. ASSUME NEW p \in Ptrs, RemovesReference(p)
      PROVE  IInv' /\ p \in Refs /\ Refs' = Refs \ {p}
  BY <1>3, RemovingPreserves
<1>4. ASSUME NEW p \in Ptrs,
             \/ \E q \in Ptrs : Copy(p, q)
             \/ LoadToAdd(p) \/ CasFails(p) \/ Drop(p) \/ LoadToRemove(p)
             \/ Promote(p) \/ LoadToPromote(p) \/ PromoteTurns(p) \/ PromoteFails(p)
      PROVE  IInv' /\ Refs' = Refs /\ dead' = dead
  BY <1>4, QuietPreserves
<1>5. CASE (\E q \in Ptrs : Adopt(q) \/ Disown(q)) \/ Listen \/ Die
  BY <1>5, PythonPreserves
<1> QED
  BY <1>1, <1>2, <1>3, <1>4, <1>5 DEF Next, AddsReference, RemovesReference

(* The count is not put right again.                                       *)
LEMMA AstrayForGood == astray /\ [Next]_vars => astray'
BY DEF Next, vars, flips, LoadToAdd, AddBump, AddCas, AddLocked, CasFails, Drop,
       LoadToRemove, RemoveDrop, RemoveCas, RemoveLocked, Promote, LoadToPromote,
       PromotePos, PromoteTurns, PromoteNeg, PromoteFails, PromoteLocked, Adopt,
       Disown, Copy, Listen, Die, Hold, Removed, Changed

(* RefPtrInv is inductive: whenever the sign flips, the types are kept, and *)
(* the rest until a late pointer makes its change.                         *)
THEOREM RefPtrInvariant == Spec => []RefPtrInv
<1>1. Init => RefPtrInv
  BY RefPtrInit DEF RefPtrInv, IInv
<1>2. RefPtrInv /\ [Next]_vars => RefPtrInv'
  BY RefPtrTypes, RefPtrStep, AstrayForGood DEF RefPtrInv
<1> QED
  BY <1>1, <1>2, PTL DEF Spec

(* The places, the count and what each pointer saw stay in their types.    *)
THEOREM RefPtrTypeOK == Spec => []TypeOK
<1>1. RefPtrInv => TypeOK
  BY DEF RefPtrInv
<1> QED
  BY RefPtrInvariant, <1>1, PTL

(* No reference is lost or counted twice, for every number of pointers and *)
(* whenever the sign flips, until a late pointer makes its change.         *)
THEOREM RefPtrCountExact == Spec => []CountExact
<1>1. RefPtrInv => CountExact
  BY DEF RefPtrInv, IInv, CountExact
<1> QED
  BY RefPtrInvariant, <1>1, PTL

(* The listener hears of every change between one and two references until *)
(* a late pointer makes its change.                                        *)
THEOREM RefPtrListenerKnows == Spec => []ListenerKnows
<1>1. RefPtrInv => ListenerKnows
  BY DEF RefPtrInv, IInv, ListenerKnows
<1> QED
  BY RefPtrInvariant, <1>1, PTL

(* Until a late pointer makes its change, the object lives exactly as long *)
(* as it has references and is never brought back, as RefCounted says.     *)
THEOREM RefPtrImplementsRefCounted == Spec => ImplementsRefCounted
<1>1. Init => Counted!Init
  <2> SUFFICES ASSUME Init
               PROVE  Counted!Init
    OBVIOUS
  <2>1. PICK p \in Ptrs \ {Owner} :
            pc = [q \in Ptrs |-> IF q = p THEN "held" ELSE "null"]
    BY DEF Init
  <2>2. Refs = {p}
    BY <2>1 DEF Refs, RemovePlaces
  <2>3. ~dead = TRUE
    BY DEF Init
  <2> QED
    BY <2>2, <2>3 DEF Counted!Init
<1>2. RefPtrInv /\ RefPtrInv' /\ [Next]_vars
        => [Counted!Next \/ astray']_<<Refs, ~dead>>
  <2> SUFFICES ASSUME RefPtrInv, RefPtrInv', [Next]_vars, ~astray'
               PROVE  Counted!Next \/ UNCHANGED <<Refs, ~dead>>
    OBVIOUS
  <2>0. IInv /\ IInv'
    BY AstrayForGood DEF RefPtrInv
  <2>1. CASE Refs' = Refs /\ dead' = dead
    BY <2>1
  <2>2. ASSUME NEW p \in Ptrs, p \notin Refs, Refs' = Refs \cup {p}, ~dead, dead' = dead
        PROVE  Counted!Acquire(p)
    BY <2>2 DEF Counted!Acquire
  <2>3. ASSUME NEW p \in Ptrs, p \in Refs, Refs' = Refs \ {p}
        PROVE  Counted!Release(p)
    <3>1. dead' <=> Refs' = {}
      BY <2>0 DEF IInv, DeadExact
    <3>2. dead' \in BOOLEAN
      BY <2>0 DEF IInv, TypeOK
    <3>3. (~dead') = (Refs' # {})
      BY <3>1, <3>2
    <3> QED
      BY <2>3, <3>3 DEF Counted!Release
  <2> QED
    BY <2>0, <2>1, <2>2, <2>3, RefPtrStep DEF Counted!Next
<1> QED
  BY RefPtrInvariant, <1>1, <1>2, PTL
     DEF Spec, ImplementsRefCounted

----------------------------------------------------------------------------
(* Notices                                                                 *)

(* The calls, each by its height in its stack, which it keeps while others *)
(* come and go above it.                                                   *)
Calling == {q \in Threads \X (1 .. MaxDepth + 1) : q[2] <= Len(stack[q[1]])}
CallAt(q) == stack[q[1]][Len(stack[q[1]]) + 1 - q[2]]
Innermost(t) == <<t, Len(stack[t])>>

(* The calls that use the registry, and the deliveries to d under way.     *)
Users == {q \in Calling : CallAt(q).pc # "lock"}
Delivers(f, d) == f.d = d /\ f.pc \in {"call", "leave", "handler"}
Deliveries(d) == {q \in Calling : Delivers(CallAt(q), d)}

SendPlaces ==
    {"head", "visit", "enter", "leave", "call", "handler", "mark", "cleanup"}
CallPlaces ==
    SendPlaces \cup {"prepend", "decrement", "lock", "setWaitBit", "wait"}
CallFrames ==
    [op : {"send", "register", "revoke", "revokeAndWait"}, pc : CallPlaces,
     d : Deliverers \cup {End}, list : 1 .. Len(Chain), due : SUBSET Deliverers,
     heard : [Deliverers -> Nat], threw : BOOLEAN]

NoticeTyped ==
    /\ lists \in [Range(Chain) -> Seq(Deliverers)]
    /\ userCount \in Int /\ deadEntries \in Seq(Deliverers)
    /\ state \in [Deliverers -> {"unborn", "live", "freed"}]
    /\ active \in [Deliverers -> BOOLEAN] /\ marked \in [Deliverers -> BOOLEAN]
    /\ busy \in [Deliverers -> Int] /\ waitBit \in [Deliverers -> BOOLEAN]
    /\ alive \in [Deliverers -> BOOLEAN]
    /\ stack \in [Threads -> Seq(CallFrames)]
    /\ \A t \in Threads : Len(stack[t]) <= MaxDepth + 1
    /\ quiet \subseteq Deliverers

UsersCounted == userCount = Cardinality(Users)
DeliveriesCounted == \A d \in Deliverers : busy[d] = Cardinality(Deliveries(d))

(* Nobody delivers to d, nor will: who enters finds the wait bit.          *)
Hushed(d) == waitBit[d] /\ \A q \in Calling :
    CallAt(q).d = d => CallAt(q).pc \notin {"call", "handler"}

(* What a call that has come so far knows: a send holds the registry open, *)
(* so its deliverer is not freed; a call that is about to retire one found *)
(* it active; who waits has marked it, and has hushed it when done.        *)
FrameFits(f) ==
    /\ f.op = "send" <=> f.pc \in SendPlaces
    /\ f.op = "register" => f.pc \in {"prepend", "decrement"}
    /\ f.op = "revoke" => f.pc = "lock"
    /\ f.op = "revokeAndWait" => f.pc # "prepend"
    /\ f.op # "send" => f.d # End
    /\ f.pc \in {"enter", "leave", "call", "handler", "mark"} => f.d # End
    /\ f.d # End => state[f.d] = IF f.pc = "prepend" THEN "unborn" ELSE "live"
    /\ f.pc = "lock" => active[f.d] /\ alive[f.d]
    /\ f.pc \in {"leave", "mark"} => ~active[f.d] \/ ~alive[f.d]
    /\ f.pc \in {"setWaitBit", "wait"} => marked[f.d]
    /\ f.pc = "wait" => waitBit[f.d]
    /\ f.op = "revokeAndWait" /\ f.pc = "decrement" => Hushed(f.d)
FramesFit == \A q \in Calling : FrameFits(CallAt(q))

(* No two calls register or revoke the same deliverer.                     *)
RevokedOnce == \A q, r \in Calling :
    CallAt(q).op # "send" /\ CallAt(r).op # "send" /\ CallAt(q).d = CallAt(r).d
        => q = r
(* Marked deliverers are inactive, waits are for marked ones, and only those*)
(* are among the dead; the lists hold just what is live.                   *)
DeliverersFit ==
    /\ \A d \in Deliverers : (marked[d] => ~active[d]) /\ (waitBit[d] => marked[d])
    /\ \A d \in Range(deadEntries) : marked[d]
ListsExact == \A l \in Range(Chain) :
    Range(lists[l]) = {d \in Deliverers : ListOf[d] = l /\ state[d] = "live"}
QuietHushed == \A d \in quiet : state[d] = "freed" \/ Hushed(d)

(* Inductive when the keys of expired listeners are not revoked.           *)
NoticeInv ==
    /\ NoticeTyped /\ UsersCounted /\ DeliveriesCounted
    /\ FramesFit /\ RevokedOnce /\ DeliverersFit /\ ListsExact /\ QuietHushed

----------------------------------------------------------------------------
(* Calls that come, go and change                                          *)

LEMMA ConsMeans ==
    ASSUME NEW S, NEW s \in Seq(S), NEW e \in S
    PROVE  /\ <<e>> \o s \in Seq(S)
           /\ Len(<<e>> \o s) = Len(s) + 1
           /\ (<<e>> \o s)[1] = e
           /\ \A i \in 1 .. Len(s) : (<<e>> \o s)[i + 1] = s[i]
<1>1. <<e>> \in Seq(S) /\ Len(<<e>>) = 1
  OBVIOUS
<1>. QED  BY <1>1, ConcatProperties

(* A thread is at the last of its calls.                                   *)
LEMMA InnermostMeans ==
    ASSUME NoticeTyped, NEW t \in Threads, stack[t] # <<>>, NEW q, q = Innermost(t)
    PROVE  q \in Calling /\ CallAt(q) = Top(t) /\ Top(t) \in CallFrames
<1>1. stack[t] \in Seq(CallFrames) /\ Len(stack[t]) \in Nat \ {0}
      /\ Len(stack[t]) <= MaxDepth + 1
  BY DEF NoticeTyped
<1>2. Innermost(t) \in Calling
  BY <1>1, NoticeAssumption DEF Innermost, Calling
<1>3. CallAt(Innermost(t)) = stack[t][1]
  BY <1>1 DEF Innermost, CallAt
<1>. QED  BY <1>1, <1>2, <1>3 DEF Top

LEMMA CallsTyped ==
    ASSUME NoticeTyped, NEW q \in Calling
    PROVE  CallAt(q) \in CallFrames
<1>1. PICK t \in Threads, i \in 1 .. MaxDepth + 1 : q = <<t, i>> /\ i <= Len(stack[t])
  BY DEF Calling
<1>2. stack[t] \in Seq(CallFrames) /\ Len(stack[t]) \in Nat
  BY DEF NoticeTyped
<1>. QED  BY <1>1, <1>2, NoticeAssumption DEF CallAt

LEMMA NewCallsTyped ==
    ASSUME NoticeTyped', NEW q \in Calling'
    PROVE  CallAt(q)' \in CallFrames
<1>1. PICK t \in Threads, i \in 1 .. MaxDepth + 1 : q = <<t, i>> /\ i <= Len(stack'[t])
  BY DEF Calling
<1>2. stack'[t] \in Seq(CallFrames) /\ Len(stack'[t]) \in Nat
  BY DEF NoticeTyped
<1>. QED  BY <1>1, <1>2, NoticeAssumption DEF CallAt

(* Only the call at q comes, goes or changes.                              *)
OnlyAt(q) == \A r : r # q =>
    /\ r \in Calling' <=> r \in Calling
    /\ r \in Calling => CallAt(r)' = CallAt(r)

LEMMA PushMeans ==
    ASSUME NoticeTyped, NEW t \in Threads, NEW f \in CallFrames,
           Len(stack[t]) < MaxDepth + 1, Push(t, f),
           NEW q, q = <<t, Len(stack[t]) + 1>>
    PROVE
           /\ stack' \in [Threads -> Seq(CallFrames)]
           /\ \A u \in Threads : Len(stack'[u]) <= MaxDepth + 1
           /\ q \notin Calling /\ q \in Calling' /\ CallAt(q)' = f
           /\ OnlyAt(q)
<1>. DEFINE n == Len(stack[t])
<1>q. q = <<t, n + 1>>
  OBVIOUS
<1>1. /\ stack[t] \in Seq(CallFrames) /\ n \in Nat
      /\ stack'[t] = <<f>> \o stack[t]
      /\ \A u \in Threads \ {t} : stack'[u] = stack[u]
  BY DEF NoticeTyped, Push
<1>2. /\ stack'[t] \in Seq(CallFrames) /\ Len(stack'[t]) = n + 1
      /\ stack'[t][1] = f /\ \A i \in 1 .. n : stack'[t][i + 1] = stack[t][i]
  BY <1>1, ConsMeans
<1>3. stack' \in [Threads -> Seq(CallFrames)]
  BY <1>1, <1>2 DEF NoticeTyped, Push
<1>4. \A u \in Threads : Len(stack'[u]) <= MaxDepth + 1
  <2>. SUFFICES ASSUME NEW u \in Threads  PROVE Len(stack'[u]) <= MaxDepth + 1
    OBVIOUS
  <2>1. n <= MaxDepth + 1 /\ Len(stack[u]) <= MaxDepth + 1
    BY DEF NoticeTyped
  <2>2. CASE u = t
    BY <1>1, <1>2, <2>1, <2>2, NoticeAssumption
  <2>3. CASE u # t
    BY <1>1, <2>1, <2>3
  <2>. QED  BY <2>2, <2>3
<1>. HIDE DEF n
<1>5. q \notin Calling /\ q \in Calling' /\ CallAt(q)' = f
  <2>1. n + 1 \in 1 .. MaxDepth + 1 /\ q[1] = t /\ q[2] = n + 1
    BY <1>1, <1>q, NoticeAssumption DEF n
  <2>2. q \notin Calling
    BY <2>1, <1>1 DEF Calling, n
  <2>3. q \in Calling'
    BY <2>1, <1>1, <1>2 DEF Calling
  <2>4. n + 1 + 1 - (n + 1) = 1
    BY <1>1
  <2>. QED  BY <2>1, <2>2, <2>3, <2>4, <1>2 DEF CallAt
<1>6. ASSUME NEW r, r # q
      PROVE  /\ r \in Calling' <=> r \in Calling
             /\ r \in Calling => CallAt(r)' = CallAt(r)
  <2>1. ASSUME NEW u \in Threads, NEW i \in 1 .. MaxDepth + 1, r = <<u, i>>
        PROVE  /\ r \in Calling' <=> r \in Calling
               /\ r \in Calling => CallAt(r)' = CallAt(r)
    <3>1. CASE u # t
      BY <2>1, <3>1, <1>1 DEF Calling, CallAt
    <3>2. CASE u = t
      <4>1. r \in Calling' <=> i <= n + 1
        BY <2>1, <3>2, <1>2 DEF Calling
      <4>2. r \in Calling <=> i <= n
        BY <2>1, <3>2 DEF Calling, n
      <4>3. i # n + 1
        BY <1>6, <2>1, <3>2, <1>q
      <4>4. ASSUME i <= n  PROVE CallAt(r)' = CallAt(r)
        <5>1. n + 1 - i \in 1 .. n /\ n + 1 + 1 - i = (n + 1 - i) + 1
          BY <4>4, <1>1, NoticeAssumption
        <5>2. CallAt(r) = stack[t][n + 1 - i]
          BY <2>1, <3>2 DEF CallAt, n
        <5>3. CallAt(r)' = stack'[t][n + 1 + 1 - i]
          BY <2>1, <3>2, <1>2 DEF CallAt
        <5>. QED  BY <1>2, <5>1, <5>2, <5>3
      <4>. QED  BY <4>1, <4>2, <4>3, <4>4, <1>1, NoticeAssumption
    <3>. QED  BY <3>1, <3>2
  <2>2. (r \in Calling \/ r \in Calling') =>
            \E u \in Threads, i \in 1 .. MaxDepth + 1 : r = <<u, i>>
    BY DEF Calling
  <2>. QED  BY <2>1, <2>2
<1>. QED  BY <1>3, <1>4, <1>5, <1>6 DEF OnlyAt

LEMMA ReturnMeans ==
    ASSUME NoticeTyped, NEW t \in Threads, stack[t] # <<>>, Return(t),
           NEW q, q = Innermost(t)
    PROVE  /\ stack' \in [Threads -> Seq(CallFrames)]
           /\ \A u \in Threads : Len(stack'[u]) <= MaxDepth + 1
           /\ q \notin Calling' /\ OnlyAt(q)
<1>. DEFINE n == Len(stack[t])
<1>q. q = <<t, n>>
  BY DEF Innermost
<1>1. /\ stack[t] \in Seq(CallFrames) /\ n \in Nat \ {0}
      /\ stack'[t] = Tail(stack[t])
      /\ \A u \in Threads \ {t} : stack'[u] = stack[u]
  BY DEF NoticeTyped, Return
<1>2. /\ stack'[t] \in Seq(CallFrames) /\ Len(stack'[t]) = n - 1
      /\ \A i \in 1 .. n - 1 : stack'[t][i] = stack[t][i + 1]
  BY <1>1
<1>3. stack' \in [Threads -> Seq(CallFrames)]
  BY <1>1, <1>2 DEF NoticeTyped, Return
<1>l. Len(stack'[t]) = n - 1 /\ n \in Nat /\ n <= MaxDepth + 1 /\ MaxDepth \in Nat
  BY <1>1, <1>2, NoticeAssumption DEF NoticeTyped
<1>4. \A u \in Threads : Len(stack'[u]) <= MaxDepth + 1
  <2>. SUFFICES ASSUME NEW u \in Threads  PROVE Len(stack'[u]) <= MaxDepth + 1
    OBVIOUS
  <2>1. n <= MaxDepth + 1 /\ Len(stack[u]) <= MaxDepth + 1
    BY DEF NoticeTyped
  <2>2. CASE u = t
    BY <1>l, <2>2
  <2>3. CASE u # t
    BY <1>1, <2>1, <2>3
  <2>. QED  BY <2>2, <2>3
<1>. HIDE DEF n
<1>5. q \notin Calling'
  <2>1. q[1] = t /\ q[2] = n
    BY <1>q
  <2>2. ~(n <= n - 1)
    BY <1>l
  <2>. QED  BY <2>1, <2>2, <1>l DEF Calling
<1>6. ASSUME NEW r, r # q
      PROVE  /\ r \in Calling' <=> r \in Calling
             /\ r \in Calling => CallAt(r)' = CallAt(r)
  <2>1. ASSUME NEW u \in Threads, NEW i \in 1 .. MaxDepth + 1, r = <<u, i>>
        PROVE  /\ r \in Calling' <=> r \in Calling
               /\ r \in Calling => CallAt(r)' = CallAt(r)
    <3>1. CASE u # t
      BY <2>1, <3>1, <1>1 DEF Calling, CallAt
    <3>2. CASE u = t
      <4>1. r \in Calling' <=> i <= n - 1
        BY <2>1, <3>2, <1>2 DEF Calling
      <4>2. r \in Calling <=> i <= n
        BY <2>1, <3>2 DEF Calling, n
      <4>3. i # n
        BY <1>6, <2>1, <3>2, <1>q
      <4>4. ASSUME i <= n  PROVE CallAt(r)' = CallAt(r)
        <5>1. n - i \in 1 .. n - 1 /\ n - 1 + 1 - i = n - i /\ n + 1 - i = (n - i) + 1
          BY <4>4, <4>3, <1>1, NoticeAssumption
        <5>2. CallAt(r) = stack[t][n + 1 - i]
          BY <2>1, <3>2 DEF CallAt, n
        <5>3. CallAt(r)' = stack'[t][n - 1 + 1 - i]
          BY <2>1, <3>2, <1>2 DEF CallAt
        <5>. QED  BY <1>2, <5>1, <5>2, <5>3
      <4>. QED  BY <4>1, <4>2, <4>3, <4>4, <1>1, NoticeAssumption
    <3>. QED  BY <3>1, <3>2
  <2>2. (r \in Calling \/ r \in Calling') =>
            \E u \in Threads, i \in 1 .. MaxDepth + 1 : r = <<u, i>>
    BY DEF Calling
  <2>. QED  BY <2>1, <2>2
<1>. QED  BY <1>3, <1>4, <1>5, <1>6 DEF OnlyAt

LEMMA BecomeMeans ==
    ASSUME NoticeTyped, NEW t \in Threads, stack[t] # <<>>,
           NEW f \in CallFrames, Become(t, f), NEW q, q = Innermost(t)
    PROVE  /\ stack' \in [Threads -> Seq(CallFrames)]
           /\ \A u \in Threads : Len(stack'[u]) <= MaxDepth + 1
           /\ q \in Calling' /\ CallAt(q)' = f /\ OnlyAt(q)
<1>. DEFINE n == Len(stack[t])
<1>q. q = <<t, n>>
  BY DEF Innermost
<1>1. /\ stack[t] \in Seq(CallFrames) /\ n \in Nat \ {0}
      /\ stack'[t] = <<f>> \o Tail(stack[t])
      /\ \A u \in Threads \ {t} : stack'[u] = stack[u]
  BY DEF NoticeTyped, Become
<1>a. /\ Tail(stack[t]) \in Seq(CallFrames) /\ Len(Tail(stack[t])) = n - 1
      /\ \A i \in 1 .. n - 1 : Tail(stack[t])[i] = stack[t][i + 1]
  BY <1>1
<1>b. /\ stack'[t] \in Seq(CallFrames) /\ Len(stack'[t]) = n - 1 + 1
      /\ stack'[t][1] = f
      /\ \A i \in 1 .. n - 1 : stack'[t][i + 1] = Tail(stack[t])[i]
  BY <1>1, <1>a, ConsMeans
<1>2. /\ stack'[t] \in Seq(CallFrames) /\ Len(stack'[t]) = n
      /\ stack'[t][1] = f
      /\ \A i \in 1 .. n - 1 : stack'[t][i + 1] = stack[t][i + 1]
  BY <1>1, <1>a, <1>b
<1>3. stack' \in [Threads -> Seq(CallFrames)]
  BY <1>1, <1>2 DEF NoticeTyped, Become
<1>4. \A u \in Threads : Len(stack'[u]) <= MaxDepth + 1
  BY <1>1, <1>2, NoticeAssumption DEF NoticeTyped
<1>c. n <= MaxDepth + 1
  BY DEF NoticeTyped
<1>. HIDE DEF n
<1>5. q \in Calling' /\ CallAt(q)' = f
  <2>1. n \in 1 .. MaxDepth + 1 /\ q[1] = t /\ q[2] = n
    BY <1>1, <1>c, <1>q, NoticeAssumption
  <2>2. q \in Calling'
    <3>1. Len(stack'[t]) = n /\ n <= n
      BY <1>1, <1>2
    <3>. QED  BY <2>1, <3>1, <1>q DEF Calling
  <2>3. n + 1 - n = 1
    BY <1>1
  <2>. QED  BY <2>1, <2>2, <2>3, <1>2 DEF CallAt
<1>6. ASSUME NEW r, r # q
      PROVE  /\ r \in Calling' <=> r \in Calling
             /\ r \in Calling => CallAt(r)' = CallAt(r)
  <2>1. ASSUME NEW u \in Threads, NEW i \in 1 .. MaxDepth + 1, r = <<u, i>>
        PROVE  /\ r \in Calling' <=> r \in Calling
               /\ r \in Calling => CallAt(r)' = CallAt(r)
    <3>1. CASE u # t
      BY <2>1, <3>1, <1>1 DEF Calling, CallAt
    <3>2. CASE u = t
      <4>1. r \in Calling' <=> i <= n
        BY <2>1, <3>2, <1>2 DEF Calling
      <4>2. r \in Calling <=> i <= n
        BY <2>1, <3>2 DEF Calling, n
      <4>3. i # n
        BY <1>6, <2>1, <3>2, <1>q
      <4>4. ASSUME i <= n  PROVE CallAt(r)' = CallAt(r)
        <5>1. n - i \in 1 .. n - 1 /\ n + 1 - i = (n - i) + 1
          BY <4>4, <4>3, <1>1, NoticeAssumption
        <5>2. CallAt(r) = stack[t][n + 1 - i]
          BY <2>1, <3>2 DEF CallAt, n
        <5>3. CallAt(r)' = stack'[t][n + 1 - i]
          BY <2>1, <3>2, <1>2 DEF CallAt
        <5>. QED  BY <1>2, <5>1, <5>2, <5>3
      <4>. QED  BY <4>1, <4>2, <4>3, <4>4
    <3>. QED  BY <3>1, <3>2
  <2>2. (r \in Calling \/ r \in Calling') =>
            \E u \in Threads, i \in 1 .. MaxDepth + 1 : r = <<u, i>>
    BY DEF Calling
  <2>. QED  BY <2>1, <2>2
<1>. QED  BY <1>3, <1>4, <1>5, <1>6 DEF OnlyAt

LEMMA CallsAreFinite == IsFiniteSet(Calling)
<1>1. IsFiniteSet(1 .. MaxDepth + 1)
  BY FS_Interval, NoticeAssumption
<1>2. IsFiniteSet(Threads \X (1 .. MaxDepth + 1))
  BY <1>1, FS_Product, NoticeAssumption
<1>. QED  BY <1>2, FS_Subset DEF Calling

LEMMA CountMoves ==
    ASSUME NEW S, NEW T, NEW q, IsFiniteSet(S), T \ {q} = S \ {q}
    PROVE  /\ IsFiniteSet(T) /\ Cardinality(S) \in Nat
           /\ Cardinality(T) = Cardinality(S) - (IF q \in S THEN 1 ELSE 0)
                                 + (IF q \in T THEN 1 ELSE 0)
<1>1. /\ IsFiniteSet(S \ {q})
      /\ Cardinality(S \ {q}) = Cardinality(S) - (IF q \in S THEN 1 ELSE 0)
      /\ Cardinality(S) \in Nat /\ Cardinality(S \ {q}) \in Nat
  BY FS_RemoveElement, FS_CardinalityType
<1>2. CASE q \in T
  <2>1. T = (S \ {q}) \cup {q}
    BY <1>2
  <2>. QED  BY <1>1, <1>2, <2>1, FS_AddElement
<1>3. CASE q \notin T
  <2>1. T = S \ {q}
    BY <1>3
  <2>. QED  BY <1>1, <1>3, <2>1
<1>. QED  BY <1>2, <1>3

LEMMA CountsMove ==
    ASSUME NEW q, OnlyAt(q)
    PROVE  /\ Cardinality(Users)' = Cardinality(Users)
                 - (IF q \in Users THEN 1 ELSE 0) + (IF q \in Users' THEN 1 ELSE 0)
           /\ \A d : Cardinality(Deliveries(d))' = Cardinality(Deliveries(d))
                 - (IF q \in Deliveries(d) THEN 1 ELSE 0)
                 + (IF q \in Deliveries(d)' THEN 1 ELSE 0)
<1>1. IsFiniteSet(Users) /\ \A d : IsFiniteSet(Deliveries(d))
  <2>1. Users \in SUBSET Calling /\ \A d : Deliveries(d) \in SUBSET Calling
    BY DEF Users, Deliveries
  <2>. QED  BY <2>1, CallsAreFinite, FS_Subset
<1>2. Users' \ {q} = Users \ {q}
  BY DEF Users, OnlyAt
<1>3. \A d : Deliveries(d)' \ {q} = Deliveries(d) \ {q}
  BY DEF Deliveries, OnlyAt
<1>. QED  BY <1>1, <1>2, <1>3, CountMoves

(* The rest of the invariant follows from what a step does to the call at  *)
(* q, the only one that it starts, moves on or ends.                       *)
Talks(f, d) == f.d = d /\ f.pc \in {"call", "handler"}
Keeps(f, d) == f.op # "send" /\ f.d = d

LEMMA OthersFit ==
    ASSUME NoticeInv, NEW q, OnlyAt(q),
           \A d \in Deliverers :
               /\ active'[d] => active[d]
               /\ marked[d] => marked'[d]
               /\ waitBit[d] => waitBit'[d]
               /\ alive'[d] => alive[d],
           \A r \in Calling : r # q /\ CallAt(r).d # End =>
               /\ state'[CallAt(r).d] = state[CallAt(r).d]
               /\ CallAt(r).pc = "lock" =>
                      active'[CallAt(r).d] /\ alive'[CallAt(r).d],
           \A d \in Deliverers :
               waitBit[d] /\ q \in Calling' /\ Talks(CallAt(q)', d) =>
                   q \in Calling /\ Talks(CallAt(q), d)
    PROVE  /\ \A d \in Deliverers : Hushed(d) => Hushed(d)'
           /\ \A r \in Calling' : r # q => FrameFits(CallAt(r))'
<1>1. ASSUME NEW d \in Deliverers, Hushed(d)  PROVE Hushed(d)'
  <2>1. ASSUME NEW r \in Calling'  PROVE ~Talks(CallAt(r)', d)
    <3>1. CASE r = q
      BY <1>1, <3>1 DEF Hushed, Talks
    <3>2. CASE r # q
      BY <1>1, <3>2 DEF Hushed, OnlyAt, Talks
    <3>. QED  BY <3>1, <3>2
  <2>. QED  BY <1>1, <2>1 DEF Hushed, Talks
<1>2. ASSUME NEW r \in Calling', r # q  PROVE FrameFits(CallAt(r))'
  <2>1. r \in Calling /\ CallAt(r)' = CallAt(r) /\ FrameFits(CallAt(r))
        /\ CallAt(r) \in CallFrames
    BY <1>2, CallsTyped DEF OnlyAt, NoticeInv, FramesFit
  <2>. DEFINE f == CallAt(r)
  <2>2. f.d \in Deliverers \cup {End} /\ f.pc \in CallPlaces
    BY <2>1 DEF CallFrames
  <2>3. f.d # End /\ Hushed(f.d) => Hushed(f.d)'
    BY <1>1, <2>1, <2>2
  <2>. QED  BY <1>2, <2>1, <2>2, <2>3 DEF FrameFits, CallPlaces, SendPlaces
<1>. QED  BY <1>1, <1>2

One(P) == IF P THEN 1 ELSE 0

LEMMA CallsMove ==
    ASSUME NoticeInv, NEW q, OnlyAt(q), NoticeTyped', DeliverersFit', ListsExact',
           userCount' = userCount - One(q \in Users) + One(q \in Users'),
           \A d \in Deliverers : busy'[d] =
               busy[d] - One(q \in Deliveries(d)) + One(q \in Deliveries(d)'),
           \A d \in Deliverers :
               /\ active'[d] => active[d]
               /\ marked[d] => marked'[d]
               /\ waitBit[d] => waitBit'[d]
               /\ alive'[d] => alive[d]
               /\ state[d] = "freed" => state'[d] = "freed",
           \A r \in Calling : r # q /\ CallAt(r).d # End =>
               /\ state'[CallAt(r).d] = state[CallAt(r).d]
               /\ CallAt(r).pc = "lock" =>
                      active'[CallAt(r).d] /\ alive'[CallAt(r).d],
           \A d \in Deliverers :
               waitBit[d] /\ q \in Calling' /\ Talks(CallAt(q)', d) =>
                   q \in Calling /\ Talks(CallAt(q), d),
           \A d \in Deliverers :
               q \in Calling' /\ Keeps(CallAt(q)', d) =>
                   \A r \in Calling : Keeps(CallAt(r), d) => r = q,
           q \in Calling' => FrameFits(CallAt(q))',
           \A d \in quiet' : d \in quiet \/ state'[d] = "freed" \/ Hushed(d)'
    PROVE  NoticeInv'
<1>1. /\ \A d \in Deliverers : Hushed(d) => Hushed(d)'
      /\ \A r \in Calling' : r # q => FrameFits(CallAt(r))'
  BY OthersFit
<1>2. UsersCounted'
  BY CountsMove DEF NoticeInv, UsersCounted, One
<1>3. DeliveriesCounted'
  BY CountsMove DEF NoticeInv, DeliveriesCounted, One
<1>4. FramesFit'
  BY <1>1 DEF FramesFit
<1>5. RevokedOnce'
  <2>1. ASSUME NEW r \in Calling', NEW u \in Calling',
               CallAt(r)'.op # "send", CallAt(u)'.op # "send",
               CallAt(r)'.d = CallAt(u)'.d, r # u
        PROVE FALSE
    <3>1. CallAt(r)' \in CallFrames /\ CallAt(r)'.d # End
      <4>1. FrameFits(CallAt(r))'
        BY <1>4 DEF FramesFit
      <4>2. CallAt(r)' \in CallFrames
        BY <2>1, NewCallsTyped
      <4>. QED  BY <2>1, <4>1, <4>2 DEF FrameFits
    <3>2. PICK d \in Deliverers : d = CallAt(r)'.d
      BY <3>1 DEF CallFrames
    <3>3. CASE r # q /\ u # q
      <4>1. /\ r \in Calling /\ CallAt(r)' = CallAt(r)
            /\ u \in Calling /\ CallAt(u)' = CallAt(u)
        BY <2>1, <3>3 DEF OnlyAt
      <4>. QED  BY <2>1, <4>1 DEF NoticeInv, RevokedOnce
    <3>4. CASE r = q
      BY <2>1, <3>2, <3>4 DEF OnlyAt, Keeps
    <3>5. CASE u = q
      BY <2>1, <3>2, <3>5 DEF OnlyAt, Keeps
    <3>. QED  BY <3>3, <3>4, <3>5
  <2>. QED  BY <2>1 DEF RevokedOnce
<1>6. QuietHushed'
  BY <1>1 DEF QuietHushed, NoticeInv, NoticeTyped
<1>. QED  BY <1>2, <1>3, <1>4, <1>5, <1>6 DEF NoticeInv

----------------------------------------------------------------------------
(* A send on its way                                                       *)

LEMMA TopFits ==
    ASSUME NoticeInv, NEW t \in Threads, stack[t] # <<>>
    PROVE  Top(t) \in CallFrames /\ FrameFits(Top(t))
BY InnermostMeans DEF NoticeInv, FramesFit

(* A send that moves on may not start to deliver where somebody waits, and *)
(* counts what it delivers.                                                *)
LEMMA SendMoves ==
    ASSUME NoticeInv, NEW t \in Threads, stack[t] # <<>>, Top(t).op = "send",
           NEW f \in CallFrames, Become(t, f), f.op = "send", f.pc \in SendPlaces,
           f.pc \in {"enter", "leave", "call", "handler", "mark"} => f.d # End,
           f.d # End => state[f.d] = "live",
           f.pc \in {"leave", "mark"} => ~active[f.d] \/ ~alive[f.d],
           \A d \in Deliverers : waitBit[d] /\ Talks(f, d) => Talks(Top(t), d),
           busy' \in [Deliverers -> Int],
           \A d \in Deliverers : busy'[d] =
               busy[d] - One(Delivers(Top(t), d)) + One(Delivers(f, d)),
           UNCHANGED <<lists, userCount, deadEntries, entryVars, waitBit, alive, quiet>>
    PROVE  NoticeInv'
<1>1. PICK q : q = Innermost(t)
  OBVIOUS
<1>2. /\ q \in Calling /\ CallAt(q) = Top(t) /\ Top(t) \in CallFrames
      /\ FrameFits(Top(t))
  BY <1>1, InnermostMeans, TopFits DEF NoticeInv
<1>3. /\ stack' \in [Threads -> Seq(CallFrames)]
      /\ \A u \in Threads : Len(stack'[u]) <= MaxDepth + 1
      /\ q \in Calling' /\ CallAt(q)' = f /\ OnlyAt(q)
  BY <1>1, BecomeMeans DEF NoticeInv
<1>4. NoticeTyped'
  BY <1>3 DEF NoticeInv, NoticeTyped, entryVars
<1>5. DeliverersFit' /\ ListsExact'
  BY DEF NoticeInv, DeliverersFit, ListsExact, entryVars
<1>6. userCount' = userCount - One(q \in Users) + One(q \in Users')
  <2>1. Top(t).pc # "lock" /\ f.pc # "lock"
    BY <1>2 DEF FrameFits, SendPlaces
  <2>2. q \in Users /\ q \in Users'
    BY <2>1, <1>2, <1>3 DEF Users
  <2>. QED  BY <2>2 DEF One, NoticeInv, NoticeTyped
<1>7. \A d \in Deliverers : busy'[d] =
          busy[d] - One(q \in Deliveries(d)) + One(q \in Deliveries(d)')
  <2>1. ASSUME NEW d
        PROVE  /\ q \in Deliveries(d) <=> Delivers(Top(t), d)
               /\ q \in Deliveries(d)' <=> Delivers(f, d)
    BY <1>2, <1>3 DEF Deliveries
  <2>. QED  BY <2>1 DEF One
<1>8. FrameFits(CallAt(q))'
  BY <1>3 DEF FrameFits, SendPlaces, entryVars
<1>9. \A r \in Calling : CallAt(r).d # End /\ CallAt(r).pc = "lock" =>
          active[CallAt(r).d] /\ alive[CallAt(r).d]
  BY DEF NoticeInv, FramesFit, FrameFits
<1>10. \A d \in Deliverers :
           /\ active'[d] => active[d]
           /\ marked[d] => marked'[d]
           /\ waitBit[d] => waitBit'[d]
           /\ alive'[d] => alive[d]
           /\ state[d] = "freed" => state'[d] = "freed"
  BY DEF entryVars
<1>11. \A r \in Calling : r # q /\ CallAt(r).d # End =>
           /\ state'[CallAt(r).d] = state[CallAt(r).d]
           /\ CallAt(r).pc = "lock" =>
                  active'[CallAt(r).d] /\ alive'[CallAt(r).d]
  BY <1>9 DEF entryVars
<1>12. \A d \in Deliverers :
           waitBit[d] /\ q \in Calling' /\ Talks(CallAt(q)', d) =>
               q \in Calling /\ Talks(CallAt(q), d)
  BY <1>2, <1>3
<1>13. \A d \in Deliverers : ~Keeps(CallAt(q)', d)
  BY <1>3 DEF Keeps
<1>. QED
  BY <1>3, <1>4, <1>5, <1>6, <1>7, <1>8, <1>10, <1>11, <1>12, <1>13, CallsMove

(* What a send finds next in a list is live.                               *)
LEMMA StepsAlong ==
    ASSUME NoticeInv
    PROVE  /\ \A l \in Range(Chain) :
                  First(l) = End \/ (First(l) \in Deliverers /\ state[First(l)] = "live")
           /\ \A d \in Deliverers : state[d] = "live" =>
                  After(d) = End \/ (After(d) \in Deliverers /\ state[After(d)] = "live")
<1>1. ASSUME NEW l \in Range(Chain), NEW i \in DOMAIN lists[l]
      PROVE  lists[l][i] \in Deliverers /\ state[lists[l][i]] = "live"
  <2>1. lists[l][i] \in Range(lists[l])
    BY <1>1 DEF Range
  <2>. QED  BY <2>1, <1>1 DEF NoticeInv, ListsExact
<1>2. \A l \in Range(Chain) : lists[l] \in Seq(Deliverers)
  BY DEF NoticeInv, NoticeTyped
<1>3. ASSUME NEW l \in Range(Chain)
      PROVE  First(l) = End \/ (First(l) \in Deliverers /\ state[First(l)] = "live")
  <2>1. lists[l] # <<>> => Head(lists[l]) = lists[l][1] /\ 1 \in DOMAIN lists[l]
    BY <1>2
  <2>2. lists[l] # <<>> => lists[l][1] \in Deliverers /\ state[lists[l][1]] = "live"
    BY <2>1, <1>1
  <2>. QED  BY <2>1, <2>2 DEF First
<1>4. ASSUME NEW d \in Deliverers, state[d] = "live"
      PROVE  After(d) = End \/ (After(d) \in Deliverers /\ state[After(d)] = "live")
  <2>. DEFINE l == ListOf[d]  s == lists[l]
              i == CHOOSE i \in DOMAIN s : s[i] = d
  <2>1. l \in Range(Chain) /\ s \in Seq(Deliverers)
    BY <1>2, NoticeAssumption
  <2>2. d \in Range(s)
    BY <2>1, <1>4 DEF NoticeInv, ListsExact
  <2>3. \E j \in DOMAIN s : s[j] = d
    BY <2>2 DEF Range
  <2>4. i \in DOMAIN s
    BY <2>3
  <2>5. i # Len(s) => i + 1 \in DOMAIN s
    BY <2>1, <2>4
  <2>6. After(d) = IF i = Len(s) THEN End ELSE s[i + 1]
    BY DEF After
  <2>. HIDE DEF s, i, l
  <2>7. i # Len(s) => s[i + 1] \in Deliverers /\ state[s[i + 1]] = "live"
    BY <2>5, <2>1, <1>1 DEF s
  <2>8. CASE i = Len(s)
    BY <2>6, <2>8
  <2>9. CASE i # Len(s)
    <3>1. After(d) = s[i + 1]
      BY <2>6, <2>9
    <3>. QED  BY <2>7, <2>9, <3>1
  <2>. QED  BY <2>8, <2>9
<1>. QED  BY <1>3, <1>4

LEMMA AtPlace ==
    ASSUME NoticeInv, NEW t \in Threads, NEW place, InCall(t, place)
    PROVE  /\ stack[t] # <<>> /\ Top(t) \in CallFrames /\ FrameFits(Top(t))
           /\ Top(t).pc = place /\ (Top(t).op = "send" <=> place \in SendPlaces)
BY TopFits DEF InCall, FrameFits

(* A send that moves on between deliveries.                                *)
LEMMA QuietSendMoves ==
    ASSUME NoticeInv, NEW t \in Threads, stack[t] # <<>>, Top(t).op = "send",
           Top(t).pc \notin {"call", "leave", "handler"},
           NEW f \in CallFrames, Become(t, f), f.op = "send",
           f.pc \in {"head", "visit", "enter", "mark", "cleanup"},
           f.pc \in {"enter", "mark"} => f.d # End,
           f.d # End => state[f.d] = "live",
           f.pc = "mark" => ~active[f.d] \/ ~alive[f.d],
           UNCHANGED <<lists, userCount, deadEntries, entryVars, countVars, alive, quiet>>
    PROVE  NoticeInv'
<1>1. \A x \in Deliverers : /\ ~Talks(f, x)
                            /\ One(Delivers(Top(t), x)) = 0 /\ One(Delivers(f, x)) = 0
  BY DEF Talks, Delivers, One
<1>2. busy' = busy /\ busy \in [Deliverers -> Int]
  BY DEF countVars, NoticeInv, NoticeTyped
<1>3. \A x \in Deliverers :
          busy'[x] = busy[x] - One(Delivers(Top(t), x)) + One(Delivers(f, x))
  BY <1>1, <1>2
<1>4. UNCHANGED <<lists, userCount, deadEntries, entryVars, waitBit, alive, quiet>>
  BY DEF countVars
<1>. QED  BY <1>1, <1>2, <1>3, <1>4, SendMoves DEF SendPlaces

LEMMA GetHeadKeepsInv ==
    ASSUME NoticeInv, NEW t \in Threads, GetHead(t)
    PROVE  NoticeInv'
<1>. DEFINE e == Top(t)  d == First(Chain[e.list])
            f == [e EXCEPT !.pc = "visit", !.d = d]
<1>1. /\ stack[t] # <<>> /\ e \in CallFrames /\ e.op = "send" /\ e.pc = "head"
      /\ Become(t, f)
  BY AtPlace DEF GetHead, SendPlaces
<1>2. Chain[e.list] \in Range(Chain)
  BY <1>1, NoticeAssumption DEF CallFrames, Range
<1>3. d = End \/ (d \in Deliverers /\ state[d] = "live")
  BY <1>2, StepsAlong
<1>. HIDE DEF e, d
<1>4. /\ f \in CallFrames /\ f.op = "send" /\ f.pc = "visit" /\ f.d = d
  BY <1>1, <1>3 DEF CallFrames, CallPlaces, SendPlaces
<1>. QED  BY <1>1, <1>3, <1>4, QuietSendMoves DEF e, GetHead

LEMMA VisitKeepsInv ==
    ASSUME NoticeInv, NEW t \in Threads, Visit(t)
    PROVE  NoticeInv'
<1>. DEFINE e == Top(t)
<1>1. /\ stack[t] # <<>> /\ e \in CallFrames /\ e.op = "send" /\ e.pc = "visit"
      /\ FrameFits(e)
  BY AtPlace DEF Visit, SendPlaces
<1>2. UNCHANGED <<lists, userCount, deadEntries, entryVars, countVars, alive, quiet>>
  BY DEF Visit
<1>3. e.d # End => state[e.d] = "live"
  BY <1>1 DEF FrameFits
<1>4. CASE e.d # End
  <2>. DEFINE place == IF active[e.d] THEN "enter" ELSE "mark"
              f == [e EXCEPT !.pc = place]
  <2>1. Become(t, f)
    BY <1>4 DEF Visit, Proceed
  <2>. HIDE DEF e
  <2>2. /\ f \in CallFrames /\ f.op = "send" /\ f.pc = place /\ f.d = e.d
        /\ place \in {"enter", "mark"}
    BY <1>1 DEF CallFrames, CallPlaces, SendPlaces
  <2>. QED  BY <1>1, <1>2, <1>3, <1>4, <2>1, <2>2, QuietSendMoves DEF e
<1>5. CASE e.d = End /\ e.list = Len(Chain)
  <2>. DEFINE f == [e EXCEPT !.pc = "cleanup"]
  <2>1. Become(t, f)
    BY <1>5 DEF Visit, Proceed
  <2>. HIDE DEF e
  <2>2. f \in CallFrames /\ f.op = "send" /\ f.pc = "cleanup" /\ f.d = e.d
    BY <1>1 DEF CallFrames, CallPlaces, SendPlaces
  <2>. QED  BY <1>1, <1>2, <1>3, <1>5, <2>1, <2>2, QuietSendMoves DEF e
<1>6. CASE e.d = End /\ e.list # Len(Chain)
  <2>. DEFINE f == [e EXCEPT !.pc = "head", !.list = @ + 1]
  <2>1. Become(t, f)
    BY <1>6 DEF Visit
  <2>. HIDE DEF e
  <2>2. e.list + 1 \in 1 .. Len(Chain)
    BY <1>1, <1>6, NoticeAssumption DEF CallFrames
  <2>3. f \in CallFrames /\ f.op = "send" /\ f.pc = "head" /\ f.d = e.d
    BY <1>1, <2>2 DEF CallFrames, CallPlaces, SendPlaces
  <2>. QED  BY <1>1, <1>2, <1>3, <1>6, <2>1, <2>3, QuietSendMoves DEF e
<1>. QED  BY <1>4, <1>5, <1>6

LEMMA EnterKeepsInv ==
    ASSUME NoticeInv, NEW t \in Threads, Enter(t)
    PROVE  NoticeInv'
<1>. DEFINE e == Top(t)  place == IF waitBit[e.d] THEN "leave" ELSE "call"
            f == [e EXCEPT !.pc = place]
<1>1. /\ stack[t] # <<>> /\ e \in CallFrames /\ e.op = "send" /\ e.pc = "enter"
      /\ FrameFits(e) /\ Become(t, f)
  BY AtPlace DEF Enter, SendPlaces, Proceed
<1>2. /\ UNCHANGED <<lists, userCount, deadEntries, entryVars, waitBit, alive, quiet>>
      /\ busy' = [busy EXCEPT ![e.d] = @ + 1] /\ busy \in [Deliverers -> Int]
  BY DEF Enter, NoticeInv, NoticeTyped
<1>3. e.d \in Deliverers /\ state[e.d] = "live"
  BY <1>1 DEF FrameFits, CallFrames
<1>4. waitBit[e.d] => ~active[e.d]
  BY <1>3 DEF NoticeInv, DeliverersFit
<1>. HIDE DEF e
<1>5. /\ f \in CallFrames /\ f.op = "send" /\ f.pc = place /\ f.d = e.d
      /\ place \in {"leave", "call"}
  BY <1>1 DEF CallFrames, CallPlaces, SendPlaces
<1>6. \A x \in Deliverers :
          /\ waitBit[x] => ~Talks(f, x)
          /\ One(Delivers(e, x)) = 0
          /\ One(Delivers(f, x)) = IF x = e.d THEN 1 ELSE 0
  BY <1>1, <1>5 DEF Talks, Delivers, One
<1>7. /\ busy' \in [Deliverers -> Int]
      /\ \A x \in Deliverers :
             busy'[x] = busy[x] - One(Delivers(e, x)) + One(Delivers(f, x))
  BY <1>2, <1>3, <1>6
<1>8. f.pc \in SendPlaces /\ (f.pc \in {"leave", "mark"} => ~active[f.d])
  BY <1>4, <1>5 DEF SendPlaces
<1>. HIDE DEF f
<1>. QED
  BY <1>1, <1>2, <1>3, <1>5, <1>6, <1>7, <1>8, NoticeAssumption, SendMoves DEF e

(* A delivery that ends: where the send goes then, nobody is delivered to. *)
LEMMA DeliveryEnds ==
    ASSUME NoticeInv, NEW t \in Threads, stack[t] # <<>>, Top(t).op = "send",
           Top(t).pc \in {"call", "leave", "handler"}, Top(t).d \in Deliverers,
           NEW f \in CallFrames, Become(t, f), f.op = "send",
           f.pc \in {"visit", "mark", "cleanup"},
           f.pc = "mark" => f.d # End,
           f.d # End => state[f.d] = "live",
           f.pc = "mark" => ~active[f.d] \/ ~alive[f.d],
           busy' = [busy EXCEPT ![Top(t).d] = @ - 1],
           UNCHANGED <<lists, userCount, deadEntries, entryVars, waitBit, alive, quiet>>
    PROVE  NoticeInv'
<1>1. \A x \in Deliverers :
          /\ ~Talks(f, x)
          /\ One(Delivers(Top(t), x)) = IF x = Top(t).d THEN 1 ELSE 0
          /\ One(Delivers(f, x)) = 0
  BY DEF Talks, Delivers, One
<1>2. busy \in [Deliverers -> Int]
  BY DEF NoticeInv, NoticeTyped
<1>3. /\ busy' \in [Deliverers -> Int]
      /\ \A x \in Deliverers :
             busy'[x] = busy[x] - One(Delivers(Top(t), x)) + One(Delivers(f, x))
  BY <1>1, <1>2
<1>. QED  BY <1>1, <1>3, SendMoves DEF SendPlaces

LEMMA LeaveKeepsInv ==
    ASSUME NoticeInv, NEW t \in Threads, Leave(t)
    PROVE  NoticeInv'
<1>. DEFINE e == Top(t)  f == [e EXCEPT !.pc = "mark"]
<1>1. /\ stack[t] # <<>> /\ e \in CallFrames /\ e.op = "send" /\ FrameFits(e)
      /\ e.pc \in {"leave", "call"} /\ (e.pc = "call" => ~alive[e.d])
      /\ Become(t, f)
  BY AtPlace DEF Leave, SendPlaces, Proceed
<1>2. /\ UNCHANGED <<lists, userCount, deadEntries, entryVars, waitBit, alive, quiet>>
      /\ busy' = [busy EXCEPT ![e.d] = @ - 1]
  BY DEF Leave
<1>3. /\ e.d \in Deliverers /\ e.d # End /\ state[e.d] = "live"
      /\ ~active[e.d] \/ ~alive[e.d]
  BY <1>1 DEF FrameFits, CallFrames
<1>. HIDE DEF e
<1>4. f \in CallFrames /\ f.op = "send" /\ f.pc = "mark" /\ f.d = e.d
  BY <1>1 DEF CallFrames, CallPlaces, SendPlaces
<1>. QED  BY <1>1, <1>2, <1>3, <1>4, DeliveryEnds DEF e

LEMMA HandlerReturnsKeepsInv ==
    ASSUME NoticeInv, NEW t \in Threads, HandlerReturns(t)
    PROVE  NoticeInv'
<1>. DEFINE e == Top(t)  d == After(e.d)  f == [e EXCEPT !.pc = "visit", !.d = d]
<1>1. /\ stack[t] # <<>> /\ e \in CallFrames /\ e.op = "send" /\ FrameFits(e)
      /\ e.pc = "handler" /\ Become(t, f)
  BY AtPlace DEF HandlerReturns, SendPlaces, Advance
<1>2. /\ UNCHANGED <<lists, userCount, deadEntries, entryVars, waitBit, alive, quiet>>
      /\ busy' = [busy EXCEPT ![e.d] = @ - 1]
  BY DEF HandlerReturns
<1>3. e.d \in Deliverers /\ state[e.d] = "live"
  BY <1>1 DEF FrameFits, CallFrames
<1>4. d = End \/ (d \in Deliverers /\ state[d] = "live")
  BY <1>3, StepsAlong
<1>. HIDE DEF e, d
<1>5. f \in CallFrames /\ f.op = "send" /\ f.pc = "visit" /\ f.d = d
  BY <1>1, <1>4 DEF CallFrames, CallPlaces, SendPlaces
<1>. QED  BY <1>1, <1>2, <1>3, <1>4, <1>5, DeliveryEnds DEF e

LEMMA HandlerThrowsKeepsInv ==
    ASSUME NoticeInv, NEW t \in Threads, HandlerThrows(t)
    PROVE  NoticeInv'
<1>. DEFINE e == Top(t)  f == [e EXCEPT !.pc = "cleanup", !.threw = TRUE]
<1>1. /\ stack[t] # <<>> /\ e \in CallFrames /\ e.op = "send" /\ FrameFits(e)
      /\ e.pc = "handler" /\ Become(t, f)
  BY AtPlace DEF HandlerThrows, SendPlaces
<1>2. /\ UNCHANGED <<lists, userCount, deadEntries, entryVars, waitBit, alive, quiet>>
      /\ busy' = [busy EXCEPT ![e.d] = @ - 1]
  BY DEF HandlerThrows
<1>3. e.d \in Deliverers /\ state[e.d] = "live"
  BY <1>1 DEF FrameFits, CallFrames
<1>. HIDE DEF e
<1>4. f \in CallFrames /\ f.op = "send" /\ f.pc = "cleanup" /\ f.d = e.d
  BY <1>1 DEF CallFrames, CallPlaces, SendPlaces
<1>. QED  BY <1>1, <1>2, <1>3, <1>4, DeliveryEnds DEF e

LEMMA CallKeepsInv ==
    ASSUME NoticeInv, NEW t \in Threads, Call(t)
    PROVE  NoticeInv'
<1>. DEFINE e == Top(t)  f == [e EXCEPT !.pc = "handler", !.heard[e.d] = @ + 1]
<1>1. /\ stack[t] # <<>> /\ e \in CallFrames /\ e.op = "send" /\ FrameFits(e)
      /\ e.pc = "call" /\ Become(t, f)
  BY AtPlace DEF Call, SendPlaces
<1>2. UNCHANGED <<lists, userCount, deadEntries, entryVars, countVars, alive, quiet>>
  BY DEF Call
<1>3. e.d \in Deliverers /\ e.d # End /\ state[e.d] = "live"
  BY <1>1 DEF FrameFits, CallFrames
<1>. HIDE DEF e
<1>4. f \in CallFrames /\ f.op = "send" /\ f.pc = "handler" /\ f.d = e.d
  <2>1. [e.heard EXCEPT ![e.d] = @ + 1] \in [Deliverers -> Nat]
    BY <1>1, <1>3 DEF CallFrames
  <2>. QED  BY <1>1, <2>1 DEF CallFrames, CallPlaces, SendPlaces
<1>5. \A x \in Deliverers : /\ Talks(f, x) => Talks(e, x)
                            /\ One(Delivers(f, x)) = One(Delivers(e, x))
                            /\ One(Delivers(e, x)) \in Int
  BY <1>1, <1>4 DEF Talks, Delivers, One
<1>6. /\ busy' \in [Deliverers -> Int]
      /\ \A x \in Deliverers :
             busy'[x] = busy[x] - One(Delivers(e, x)) + One(Delivers(f, x))
  BY <1>2, <1>5 DEF countVars, NoticeInv, NoticeTyped
<1>7. UNCHANGED <<lists, userCount, deadEntries, entryVars, waitBit, alive, quiet>>
  BY <1>2 DEF countVars
<1>8. f.pc \in SendPlaces
  BY <1>4 DEF SendPlaces
<1>. HIDE DEF f
<1>. QED  BY <1>1, <1>3, <1>4, <1>5, <1>6, <1>7, <1>8, SendMoves DEF e

----------------------------------------------------------------------------
(* Deliverers that are to go                                               *)

LEMMA RetireMeans ==
    ASSUME NoticeInv, NEW d \in Deliverers, Retire(d), UNCHANGED waitBit
    PROVE  /\ active' \in [Deliverers -> BOOLEAN] /\ marked' \in [Deliverers -> BOOLEAN]
           /\ deadEntries' \in Seq(Deliverers) /\ DeliverersFit' /\ state' = state
           /\ \A x \in Deliverers : /\ active'[x] => active[x]
                                    /\ marked[x] => marked'[x]
                                    /\ x # d => active'[x] = active[x]
           /\ marked'[d] /\ ~active'[d]
<1>1. /\ active \in [Deliverers -> BOOLEAN] /\ marked \in [Deliverers -> BOOLEAN]
      /\ active' = [active EXCEPT ![d] = FALSE]
      /\ marked' = [marked EXCEPT ![d] = TRUE]
      /\ deadEntries \in Seq(Deliverers) /\ state' = state
      /\ deadEntries' = IF marked[d] THEN deadEntries ELSE Append(deadEntries, d)
  BY DEF Retire, NoticeInv, NoticeTyped
<1>2. /\ \A x \in Deliverers : /\ active'[x] => active[x]
                               /\ marked[x] => marked'[x]
                               /\ x # d => active'[x] = active[x] /\ marked'[x] = marked[x]
      /\ marked'[d] /\ ~active'[d]
  BY <1>1
<1>3. deadEntries' \in Seq(Deliverers)
      /\ \A x \in Range(deadEntries') : x \in Range(deadEntries) \/ x = d
  <2>1. CASE marked[d]
    BY <1>1, <2>1
  <2>2. CASE ~marked[d]
    BY <1>1, <2>2 DEF Range
  <2>. QED  BY <2>1, <2>2
<1>4. Range(deadEntries) \subseteq Deliverers
  BY <1>1 DEF Range
<1>5. DeliverersFit'
  <2>1. ASSUME NEW x \in Deliverers
        PROVE  (marked'[x] => ~active'[x]) /\ (waitBit'[x] => marked'[x])
    BY <1>2 DEF NoticeInv, DeliverersFit
  <2>2. \A x \in Range(deadEntries') : marked'[x]
    BY <1>2, <1>3, <1>4 DEF NoticeInv, DeliverersFit
  <2>. QED  BY <2>1, <2>2 DEF DeliverersFit
<1>. QED  BY <1>1, <1>2, <1>3, <1>5

LEMMA LocksMean ==
    ASSUME NoticeInv, NEW r \in Calling, CallAt(r).pc = "lock"
    PROVE  /\ CallAt(r).d \in Deliverers /\ CallAt(r).op # "send"
           /\ state[CallAt(r).d] = "live"
           /\ active[CallAt(r).d] /\ alive[CallAt(r).d] /\ ~marked[CallAt(r).d]
<1>1. CallAt(r) \in CallFrames /\ FrameFits(CallAt(r))
  BY CallsTyped DEF NoticeInv, FramesFit
<1>2. CallAt(r).op # "send" /\ CallAt(r).d # End
  BY <1>1 DEF FrameFits, SendPlaces
<1>3. CallAt(r).d \in Deliverers
  BY <1>1, <1>2 DEF CallFrames
<1>. QED  BY <1>1, <1>2, <1>3 DEF FrameFits, NoticeInv, DeliverersFit

LEMMA MarkKeepsInv ==
    ASSUME NoticeInv, NEW t \in Threads, Mark(t)
    PROVE  NoticeInv'
<1>. DEFINE e == Top(t)  d == After(e.d)  f == [e EXCEPT !.pc = "visit", !.d = d]
<1>1. /\ stack[t] # <<>> /\ e \in CallFrames /\ e.op = "send" /\ FrameFits(e)
      /\ e.pc = "mark" /\ Become(t, f)
  BY AtPlace DEF Mark, SendPlaces, Advance
<1>2. UNCHANGED <<lists, userCount, busy, waitBit, alive, quiet>> /\ Retire(e.d)
  BY DEF Mark, countVars
<1>3. /\ e.d \in Deliverers /\ state[e.d] = "live"
      /\ ~active[e.d] \/ ~alive[e.d]
  BY <1>1 DEF FrameFits, CallFrames
<1>4. d = End \/ (d \in Deliverers /\ state[d] = "live")
  BY <1>3, StepsAlong
<1>5. PICK q : q = Innermost(t)
  OBVIOUS
<1>6. q \in Calling /\ CallAt(q) = e
  BY <1>1, <1>5, InnermostMeans DEF NoticeInv
<1>. HIDE DEF e, d
<1>7. f \in CallFrames /\ f.op = "send" /\ f.pc = "visit" /\ f.d = d
  BY <1>1, <1>4 DEF CallFrames, CallPlaces, SendPlaces
<1>. HIDE DEF f
<1>8. /\ stack' \in [Threads -> Seq(CallFrames)]
      /\ \A u \in Threads : Len(stack'[u]) <= MaxDepth + 1
      /\ q \in Calling' /\ CallAt(q)' = f /\ OnlyAt(q)
  BY <1>1, <1>5, <1>7, BecomeMeans DEF NoticeInv
<1>9. /\ active' \in [Deliverers -> BOOLEAN] /\ marked' \in [Deliverers -> BOOLEAN]
      /\ deadEntries' \in Seq(Deliverers) /\ DeliverersFit' /\ state' = state
      /\ \A x \in Deliverers : /\ active'[x] => active[x]
                               /\ marked[x] => marked'[x]
                               /\ x # e.d => active'[x] = active[x]
  BY <1>2, <1>3, RetireMeans
<1>10. NoticeTyped' /\ ListsExact'
  BY <1>2, <1>8, <1>9 DEF NoticeInv, NoticeTyped, ListsExact
<1>11. userCount' = userCount - One(q \in Users) + One(q \in Users')
  BY <1>1, <1>2, <1>6, <1>7, <1>8 DEF Users, One, NoticeInv, NoticeTyped
<1>12. \A x \in Deliverers : busy'[x] =
          busy[x] - One(q \in Deliveries(x)) + One(q \in Deliveries(x)')
  BY <1>1, <1>2, <1>6, <1>7, <1>8 DEF Deliveries, Delivers, One, NoticeInv, NoticeTyped
<1>13. FrameFits(CallAt(q))'
  BY <1>4, <1>7, <1>8, <1>9 DEF FrameFits, SendPlaces
<1>14. \A r \in Calling : r # q /\ CallAt(r).d # End =>
           /\ state'[CallAt(r).d] = state[CallAt(r).d]
           /\ CallAt(r).pc = "lock" =>
                  active'[CallAt(r).d] /\ alive'[CallAt(r).d]
  BY <1>2, <1>3, <1>9, LocksMean
<1>15. \A x : ~Talks(CallAt(q)', x) /\ ~Keeps(CallAt(q)', x)
  BY <1>7, <1>8 DEF Talks, Keeps
<1>. QED
  BY <1>2, <1>8, <1>9, <1>10, <1>11, <1>12, <1>13, <1>14, <1>15, CallsMove

LEMMA RevokeLaterKeepsInv ==
    ASSUME NoticeInv, NEW t \in Threads, RevokeLater(t)
    PROVE  NoticeInv'
<1>. DEFINE e == Top(t)  wait == e.op = "revokeAndWait"
            f == [e EXCEPT !.pc = "setWaitBit"]
<1>1. /\ stack[t] # <<>> /\ e \in CallFrames /\ e.op # "send" /\ FrameFits(e)
      /\ e.pc = "lock"
  BY AtPlace DEF RevokeLater, SendPlaces
<1>2. /\ UNCHANGED <<lists, busy, waitBit, alive, quiet>> /\ Retire(e.d)
      /\ userCount' = userCount + IF wait THEN 1 ELSE 0
      /\ IF wait THEN Become(t, f) ELSE Return(t)
  BY DEF RevokeLater, countVars, Proceed
<1>3. PICK q : q = Innermost(t)
  OBVIOUS
<1>4. q \in Calling /\ CallAt(q) = e
  BY <1>1, <1>3, InnermostMeans DEF NoticeInv
<1>5. e.d \in Deliverers /\ e.d # End /\ state[e.d] = "live"
  BY <1>1, <1>4, LocksMean, NoticeAssumption
<1>. HIDE DEF e
<1>6. /\ f \in CallFrames /\ f.op = e.op /\ f.pc = "setWaitBit" /\ f.d = e.d
  BY <1>1 DEF CallFrames, CallPlaces, SendPlaces
<1>. HIDE DEF f
<1>7. /\ stack' \in [Threads -> Seq(CallFrames)]
      /\ \A u \in Threads : Len(stack'[u]) <= MaxDepth + 1
      /\ OnlyAt(q)
      /\ IF wait THEN q \in Calling' /\ CallAt(q)' = f ELSE q \notin Calling'
  <2>1. CASE wait
    BY <1>1, <1>2, <1>3, <1>6, <2>1, BecomeMeans DEF NoticeInv
  <2>2. CASE ~wait
    BY <1>1, <1>2, <1>3, <2>2, ReturnMeans DEF NoticeInv
  <2>. QED  BY <2>1, <2>2
<1>8. /\ active' \in [Deliverers -> BOOLEAN] /\ marked' \in [Deliverers -> BOOLEAN]
      /\ deadEntries' \in Seq(Deliverers) /\ DeliverersFit' /\ state' = state
      /\ \A x \in Deliverers : /\ active'[x] => active[x]
                               /\ marked[x] => marked'[x]
                               /\ x # e.d => active'[x] = active[x]
      /\ marked'[e.d]
  BY <1>2, <1>5, RetireMeans
<1>9. NoticeTyped' /\ ListsExact'
  BY <1>2, <1>7, <1>8 DEF NoticeInv, NoticeTyped, ListsExact
<1>10. userCount' = userCount - One(q \in Users) + One(q \in Users')
  <2>1. One(q \in Users) = 0
    BY <1>1, <1>4 DEF Users, One
  <2>2. One(q \in Users') = IF wait THEN 1 ELSE 0
    BY <1>6, <1>7 DEF Users, One
  <2>. QED  BY <1>2, <2>1, <2>2 DEF NoticeInv, NoticeTyped
<1>11. \A x \in Deliverers : busy'[x] =
          busy[x] - One(q \in Deliveries(x)) + One(q \in Deliveries(x)')
  <2>1. \A x : One(q \in Deliveries(x)) = 0 /\ One(q \in Deliveries(x)') = 0
    BY <1>1, <1>4, <1>6, <1>7 DEF Deliveries, Delivers, One
  <2>. QED  BY <1>2, <2>1 DEF NoticeInv, NoticeTyped
<1>12. q \in Calling' => FrameFits(CallAt(q))'
  BY <1>1, <1>5, <1>6, <1>7, <1>8 DEF FrameFits, SendPlaces, CallFrames
<1>13. \A r \in Calling : Keeps(CallAt(r), e.d) => r = q
  BY <1>1, <1>4 DEF NoticeInv, RevokedOnce, Keeps
<1>14. \A r \in Calling : r # q /\ CallAt(r).d # End =>
           /\ state'[CallAt(r).d] = state[CallAt(r).d]
           /\ CallAt(r).pc = "lock" =>
                  active'[CallAt(r).d] /\ alive'[CallAt(r).d]
  BY <1>2, <1>8, <1>13, LocksMean DEF Keeps
<1>15. /\ \A x : q \in Calling' => ~Talks(CallAt(q)', x)
       /\ \A x \in Deliverers : q \in Calling' /\ Keeps(CallAt(q)', x) =>
              \A r \in Calling : Keeps(CallAt(r), x) => r = q
  BY <1>6, <1>7, <1>13 DEF Talks, Keeps
<1>. QED
  BY <1>2, <1>7, <1>8, <1>9, <1>10, <1>11, <1>12, <1>14, <1>15, CallsMove

(* A call of RevokeAndWait that moves on: only its own wait bit changes.   *)
LEMMA WaiterMoves ==
    ASSUME NoticeInv, NEW t \in Threads, stack[t] # <<>>, Top(t).op = "revokeAndWait",
           Top(t).pc \in {"setWaitBit", "wait"},
           NEW f \in CallFrames, Become(t, f), f.op = "revokeAndWait", f.d = Top(t).d,
           f.pc \in {"wait", "decrement"},
           f.pc = "decrement" => busy[f.d] = 0,
           waitBit' = [waitBit EXCEPT ![f.d] = TRUE],
           UNCHANGED <<lists, userCount, deadEntries, entryVars, busy, alive, quiet>>
    PROVE  NoticeInv'
<1>. DEFINE e == Top(t)
<1>1. PICK q : q = Innermost(t)
  OBVIOUS
<1>2. q \in Calling /\ CallAt(q) = e /\ e \in CallFrames /\ FrameFits(e)
  BY <1>1, InnermostMeans DEF NoticeInv, FramesFit
<1>3. /\ f.d \in Deliverers /\ f.d # End /\ state[f.d] = "live" /\ marked[f.d]
  BY <1>2 DEF FrameFits, CallFrames
<1>4. /\ stack' \in [Threads -> Seq(CallFrames)]
      /\ \A u \in Threads : Len(stack'[u]) <= MaxDepth + 1
      /\ q \in Calling' /\ CallAt(q)' = f /\ OnlyAt(q)
  BY <1>1, BecomeMeans DEF NoticeInv
<1>5. /\ waitBit' \in [Deliverers -> BOOLEAN] /\ waitBit'[f.d]
      /\ \A x \in Deliverers : /\ waitBit[x] => waitBit'[x]
                               /\ x # f.d => waitBit'[x] = waitBit[x]
  BY <1>3 DEF NoticeInv, NoticeTyped
<1>6. NoticeTyped' /\ DeliverersFit' /\ ListsExact'
  <2>1. NoticeTyped'
    BY <1>4, <1>5 DEF NoticeInv, NoticeTyped, entryVars
  <2>2. DeliverersFit'
    BY <1>3, <1>5 DEF NoticeInv, DeliverersFit, entryVars
  <2>3. ListsExact'
    BY DEF NoticeInv, ListsExact, entryVars
  <2>. QED  BY <2>1, <2>2, <2>3
<1>7. userCount' = userCount - One(q \in Users) + One(q \in Users')
  BY <1>2, <1>4 DEF Users, One, NoticeInv, NoticeTyped
<1>8. \A x : ~Delivers(e, x) /\ ~Delivers(f, x) /\ ~Talks(f, x)
  BY DEF Delivers, Talks
<1>9. \A x \in Deliverers : busy'[x] =
          busy[x] - One(q \in Deliveries(x)) + One(q \in Deliveries(x)')
  BY <1>2, <1>4, <1>8 DEF Deliveries, One, NoticeInv, NoticeTyped
<1>10. f.pc = "decrement" => Hushed(f.d)'
  <2>1. SUFFICES ASSUME busy[f.d] = 0  PROVE Hushed(f.d)'
    OBVIOUS
  <2>2. Deliveries(f.d) = {}
    <3>1. Deliveries(f.d) \in SUBSET Calling
      BY DEF Deliveries
    <3>2. IsFiniteSet(Deliveries(f.d))
      BY <3>1, CallsAreFinite, FS_Subset
    <3>. QED  BY <2>1, <1>3, <3>2, FS_EmptySet DEF NoticeInv, DeliveriesCounted
  <2>3. ASSUME NEW r \in Calling'  PROVE ~Talks(CallAt(r)', f.d)
    <3>1. CASE r = q
      BY <1>4, <1>8, <3>1
    <3>2. CASE r # q
      BY <1>4, <2>2, <3>2 DEF OnlyAt, Deliveries, Delivers, Talks
    <3>. QED  BY <3>1, <3>2
  <2>. QED  BY <1>5, <2>3 DEF Hushed, Talks
<1>11. FrameFits(CallAt(q))'
  BY <1>3, <1>4, <1>5, <1>10 DEF FrameFits, SendPlaces, entryVars
<1>12. \A r \in Calling : Keeps(CallAt(r), f.d) => r = q
  BY <1>2 DEF NoticeInv, RevokedOnce, Keeps
<1>13. \A r \in Calling : r # q /\ CallAt(r).d # End =>
           /\ state'[CallAt(r).d] = state[CallAt(r).d]
           /\ CallAt(r).pc = "lock" =>
                  active'[CallAt(r).d] /\ alive'[CallAt(r).d]
  BY LocksMean DEF entryVars
<1>14. \A x \in Deliverers : q \in Calling' /\ Keeps(CallAt(q)', x) =>
           \A r \in Calling : Keeps(CallAt(r), x) => r = q
  BY <1>4, <1>12 DEF Keeps
<1>15. \A d \in Deliverers :
           /\ active'[d] => active[d]
           /\ marked[d] => marked'[d]
           /\ alive'[d] => alive[d]
           /\ state[d] = "freed" => state'[d] = "freed"
  BY DEF entryVars
<1>. QED
  BY <1>4, <1>5, <1>6, <1>7, <1>8, <1>9, <1>11, <1>13, <1>14, <1>15, CallsMove

LEMMA SetWaitBitKeepsInv ==
    ASSUME NoticeInv, NEW t \in Threads, SetWaitBit(t)
    PROVE  NoticeInv'
<1>. DEFINE e == Top(t)
            place == IF busy[e.d] > 0 \/ waitBit[e.d] THEN "wait" ELSE "decrement"
            f == [e EXCEPT !.pc = place]
<1>1. /\ stack[t] # <<>> /\ e \in CallFrames /\ e.op = "revokeAndWait" /\ FrameFits(e)
      /\ e.pc = "setWaitBit" /\ Become(t, f)
  <2>1. /\ stack[t] # <<>> /\ e \in CallFrames /\ e.op # "send" /\ FrameFits(e)
        /\ e.pc = "setWaitBit" /\ Become(t, f)
    BY AtPlace DEF SetWaitBit, SendPlaces, Proceed
  <2>. QED  BY <2>1 DEF FrameFits, CallFrames
<1>2. /\ UNCHANGED <<lists, userCount, deadEntries, entryVars, busy, alive, quiet>>
      /\ waitBit' = [waitBit EXCEPT ![e.d] = TRUE]
  BY DEF SetWaitBit
<1>3. e.d \in Deliverers
  BY <1>1 DEF FrameFits, CallFrames
<1>4. busy[e.d] \in Nat
  <2>1. Deliveries(e.d) \in SUBSET Calling
    BY DEF Deliveries
  <2>2. IsFiniteSet(Deliveries(e.d))
    BY <2>1, CallsAreFinite, FS_Subset
  <2>. QED  BY <1>3, <2>2, FS_CardinalityType DEF NoticeInv, DeliveriesCounted
<1>. HIDE DEF e
<1>5. /\ f \in CallFrames /\ f.op = "revokeAndWait" /\ f.pc = place /\ f.d = e.d
      /\ place \in {"wait", "decrement"}
  BY <1>1 DEF CallFrames, CallPlaces, SendPlaces
<1>6. f.pc = "decrement" => busy[f.d] = 0
  BY <1>4, <1>5
<1>. HIDE DEF f
<1>. QED  BY <1>1, <1>2, <1>5, <1>6, WaiterMoves DEF e

LEMMA WaitUntilNotSendingKeepsInv ==
    ASSUME NoticeInv, NEW t \in Threads, WaitUntilNotSending(t)
    PROVE  NoticeInv'
<1>. DEFINE e == Top(t)  f == [e EXCEPT !.pc = "decrement"]
<1>1. /\ stack[t] # <<>> /\ e \in CallFrames /\ e.op = "revokeAndWait" /\ FrameFits(e)
      /\ e.pc = "wait" /\ Become(t, f) /\ busy[e.d] = 0
  <2>1. /\ stack[t] # <<>> /\ e \in CallFrames /\ e.op # "send" /\ FrameFits(e)
        /\ e.pc = "wait" /\ Become(t, f) /\ busy[e.d] = 0
    BY AtPlace DEF WaitUntilNotSending, SendPlaces, Proceed
  <2>. QED  BY <2>1 DEF FrameFits, CallFrames
<1>2. /\ UNCHANGED <<lists, userCount, deadEntries, entryVars, busy, alive, quiet>>
      /\ waitBit' = waitBit
  BY DEF WaitUntilNotSending, countVars
<1>3. waitBit[e.d] /\ e.d \in Deliverers
  BY <1>1 DEF FrameFits, CallFrames
<1>4. waitBit' = [waitBit EXCEPT ![e.d] = TRUE]
  BY <1>2, <1>3 DEF NoticeInv, NoticeTyped
<1>. HIDE DEF e
<1>5. f \in CallFrames /\ f.op = "revokeAndWait" /\ f.pc = "decrement" /\ f.d = e.d
  BY <1>1 DEF CallFrames, CallPlaces, SendPlaces
<1>. HIDE DEF f
<1>. QED  BY <1>1, <1>2, <1>4, <1>5, WaiterMoves DEF e

(* A call begins. It keeps what it is about for itself.                    *)
LEMMA CallBegins ==
    ASSUME NoticeInv, NEW t \in Threads, NEW f \in CallFrames, MayCall(t),
           Push(t, f), userCount' = userCount + One(f.pc # "lock"),
           f.pc \in {"head", "prepend", "lock"}, FrameFits(f),
           \A d \in Deliverers : Keeps(f, d) => \A r \in Calling : ~Keeps(CallAt(r), d),
           UNCHANGED <<lists, deadEntries, entryVars, countVars, alive, quiet>>
    PROVE  NoticeInv'
<1>1. Len(stack[t]) < MaxDepth + 1
  <2>1. CASE stack[t] = <<>>
    BY <2>1, NoticeAssumption
  <2>2. CASE stack[t] # <<>>
    BY <2>2, NoticeAssumption DEF MayCall, NoticeInv, NoticeTyped
  <2>. QED  BY <2>1, <2>2
<1>2. PICK q : q = <<t, Len(stack[t]) + 1>>
  OBVIOUS
<1>3. /\ stack' \in [Threads -> Seq(CallFrames)]
      /\ \A u \in Threads : Len(stack'[u]) <= MaxDepth + 1
      /\ q \notin Calling /\ q \in Calling' /\ CallAt(q)' = f /\ OnlyAt(q)
  BY <1>1, <1>2, PushMeans DEF NoticeInv
<1>4. userCount \in Int /\ One(f.pc # "lock") \in Int
  BY DEF NoticeInv, NoticeTyped, One
<1>5. NoticeTyped' /\ DeliverersFit' /\ ListsExact'
  BY <1>3, <1>4 DEF NoticeInv, NoticeTyped, DeliverersFit, ListsExact, entryVars,
     countVars
<1>6. userCount' = userCount - One(q \in Users) + One(q \in Users')
  <2>1. One(q \in Users) = 0 /\ One(q \in Users') = One(f.pc # "lock")
    BY <1>3 DEF Users, One
  <2>. QED  BY <1>4, <2>1
<1>7. \A x : ~Delivers(f, x) /\ ~Talks(f, x)
  BY DEF Delivers, Talks
<1>8. \A x \in Deliverers : busy'[x] =
          busy[x] - One(q \in Deliveries(x)) + One(q \in Deliveries(x)')
  BY <1>3, <1>7 DEF Deliveries, One, NoticeInv, NoticeTyped, countVars
<1>9. FrameFits(CallAt(q))'
  BY <1>3 DEF FrameFits, SendPlaces, entryVars, countVars
<1>10. \A r \in Calling : r # q /\ CallAt(r).d # End =>
           /\ state'[CallAt(r).d] = state[CallAt(r).d]
           /\ CallAt(r).pc = "lock" =>
                  active'[CallAt(r).d] /\ alive'[CallAt(r).d]
  BY LocksMean DEF entryVars
<1>11. \A d \in Deliverers :
           /\ active'[d] => active[d]
           /\ marked[d] => marked'[d]
           /\ waitBit[d] => waitBit'[d]
           /\ alive'[d] => alive[d]
           /\ state[d] = "freed" => state'[d] = "freed"
  BY DEF entryVars, countVars
<1>12. /\ \A x : ~Talks(CallAt(q)', x)
       /\ \A x \in Deliverers : q \in Calling' /\ Keeps(CallAt(q)', x) =>
              \A r \in Calling : Keeps(CallAt(r), x) => r = q
  BY <1>3, <1>7
<1>. QED
  BY <1>3, <1>5, <1>6, <1>8, <1>9, <1>10, <1>11, <1>12, CallsMove

(* The frames that the properties speak of are those of the calls.         *)
LEMMA FramesAreCalls ==
    ASSUME NoticeTyped
    PROVE  /\ \A q \in Calling : CallAt(q) \in AllFrames
           /\ \A f \in AllFrames : \E q \in Calling : CallAt(q) = f
<1>1. ASSUME NEW t \in Threads
      PROVE  /\ stack[t] \in Seq(CallFrames) /\ Len(stack[t]) \in Nat
             /\ Len(stack[t]) <= MaxDepth + 1 /\ DOMAIN stack[t] = 1 .. Len(stack[t])
  BY DEF NoticeTyped
<1>2. ASSUME NEW q \in Calling  PROVE CallAt(q) \in AllFrames
  <2>1. PICK t \in Threads, i \in 1 .. MaxDepth + 1 : q = <<t, i>> /\ i <= Len(stack[t])
    BY DEF Calling
  <2>2. Len(stack[t]) + 1 - i \in DOMAIN stack[t]
    BY <1>1, <2>1, NoticeAssumption
  <2>3. CallAt(q) \in Frames(t)
    BY <2>1, <2>2 DEF CallAt, Frames, Range
  <2>. QED  BY <2>3 DEF AllFrames
<1>3. ASSUME NEW f \in AllFrames  PROVE \E q \in Calling : CallAt(q) = f
  <2>1. PICK t \in Threads : f \in Range(stack[t])
    BY DEF AllFrames, Frames
  <2>2. PICK i \in DOMAIN stack[t] : f = stack[t][i]
    BY <2>1 DEF Range
  <2>. DEFINE n == Len(stack[t])
  <2>3. n \in Nat /\ n <= MaxDepth + 1 /\ i \in 1 .. n
    BY <1>1, <2>2
  <2>4. PICK j : j = n + 1 - i
    OBVIOUS
  <2>5. j \in 1 .. MaxDepth + 1 /\ j <= n /\ n + 1 - j = i
    BY <2>3, <2>4, NoticeAssumption
  <2>6. <<t, j>> \in Calling /\ CallAt(<<t, j>>) = f
    BY <2>2, <2>5 DEF Calling, CallAt
  <2>. QED  BY <2>6
<1>. QED  BY <1>2, <1>3

LEMMA NewFrames ==
    ASSUME NEW op \in {"send", "register", "revoke", "revokeAndWait"},
           NEW place \in CallPlaces, NEW d \in Deliverers \cup {End}
    PROVE  /\ Frame(op, place, d) \in CallFrames
           /\ Frame(op, place, d).op = op /\ Frame(op, place, d).pc = place
           /\ Frame(op, place, d).d = d
<1>1. Len(Chain) \in Nat \ {0}
  BY NoticeAssumption
<1>. QED  BY <1>1 DEF Frame, CallFrames

LEMMA RegisterKeepsInv ==
    ASSUME NoticeInv, NEW t \in Threads, NEW d \in Deliverers, Register(t, d)
    PROVE  NoticeInv'
<1>. DEFINE f == Frame("register", "prepend", d)
<1>1. /\ f \in CallFrames /\ f.op = "register" /\ f.pc = "prepend" /\ f.d = d
  BY NewFrames DEF CallPlaces
<1>2. /\ MayCall(t) /\ Push(t, f) /\ userCount' = userCount + 1
      /\ state[d] = "unborn" /\ \A g \in AllFrames : g.op # "register" \/ g.d # d
      /\ UNCHANGED <<lists, deadEntries, entryVars, countVars, alive, quiet>>
  BY DEF Register
<1>. HIDE DEF f
<1>3. FrameFits(f)
  BY <1>1, <1>2, NoticeAssumption DEF FrameFits, SendPlaces
<1>4. ASSUME NEW r \in Calling  PROVE ~Keeps(CallAt(r), d)
  <2>1. CallAt(r).op # "register" \/ CallAt(r).d # d
    BY <1>2, FramesAreCalls DEF NoticeInv
  <2>2. FrameFits(CallAt(r)) /\ d # End
    BY NoticeAssumption DEF NoticeInv, FramesFit
  <2>. QED  BY <1>2, <2>1, <2>2, CallsTyped DEF FrameFits, Keeps, CallFrames, NoticeInv
<1>5. One(f.pc # "lock") = 1
  BY <1>1 DEF One
<1>. QED  BY <1>1, <1>2, <1>3, <1>4, <1>5, CallBegins DEF Keeps

LEMMA RevokeKeepsInv ==
    ASSUME NoticeInv, ~RevokeExpired, NEW t \in Threads, NEW d \in Deliverers,
           NEW op \in {"revoke", "revokeAndWait"}, Revoke(t, d, op)
    PROVE  NoticeInv'
<1>. DEFINE f == Frame(op, "lock", d)
<1>1. /\ f \in CallFrames /\ f.op = op /\ f.pc = "lock" /\ f.d = d
  <2>1. op \in {"send", "register", "revoke", "revokeAndWait"} /\ "lock" \in CallPlaces
        /\ d \in Deliverers \cup {End}
    BY DEF CallPlaces
  <2>. HIDE DEF f
  <2>2. f = Frame(op, "lock", d)
    BY DEF f
  <2>. QED  BY <2>1, <2>2, NewFrames
<1>2. /\ MayCall(t) /\ Push(t, f)
      /\ state[d] = "live" /\ active[d] /\ alive[d]
      /\ \A g \in AllFrames : g.op = "send" \/ g.d # d
      /\ UNCHANGED <<lists, userCount, deadEntries, entryVars, countVars, alive, quiet>>
  BY DEF Revoke
<1>. HIDE DEF f
<1>3. FrameFits(f)
  BY <1>1, <1>2, NoticeAssumption DEF FrameFits, SendPlaces
<1>4. \A r \in Calling : ~Keeps(CallAt(r), d)
  BY <1>2, FramesAreCalls DEF NoticeInv, Keeps
<1>5. userCount' = userCount + One(f.pc # "lock")
  BY <1>1, <1>2 DEF One, NoticeInv, NoticeTyped
<1>. QED  BY <1>1, <1>2, <1>3, <1>4, <1>5, CallBegins DEF Keeps

LEMMA SendKeepsInv ==
    ASSUME NoticeInv, NEW t \in Threads, Send(t)
    PROVE  NoticeInv'
<1>. DEFINE g == Frame("send", "head", End)
            f == [g EXCEPT !.due = {d \in Deliverers : state[d] = "live"}]
<1>1. /\ MayCall(t) /\ Push(t, f) /\ userCount' = userCount + 1
      /\ UNCHANGED <<lists, deadEntries, entryVars, countVars, alive, quiet>>
  BY DEF Send
<1>2. /\ g \in CallFrames /\ g.op = "send" /\ g.pc = "head" /\ g.d = End
  BY NewFrames DEF CallPlaces, SendPlaces
<1>. HIDE DEF g
<1>3. /\ f \in CallFrames /\ f.op = "send" /\ f.pc = "head" /\ f.d = End
  BY <1>2 DEF CallFrames
<1>. HIDE DEF f
<1>4. FrameFits(f) /\ \A d : ~Keeps(f, d)
  BY <1>3 DEF FrameFits, SendPlaces, Keeps
<1>5. One(f.pc # "lock") = 1
  BY <1>3 DEF One
<1>. QED  BY <1>1, <1>3, <1>4, <1>5, CallBegins

----------------------------------------------------------------------------
(* Registering ends, waiting ends, listeners go                            *)

LEMMA PrependKeepsInv ==
    ASSUME NoticeInv, NEW t \in Threads, Prepend(t)
    PROVE  NoticeInv'
<1>. DEFINE e == Top(t)  f == [e EXCEPT !.pc = "decrement"]
<1>1. /\ stack[t] # <<>> /\ e \in CallFrames /\ FrameFits(e)
      /\ e.pc = "prepend" /\ e.op = "register" /\ Become(t, f)
  <2>1. /\ stack[t] # <<>> /\ e \in CallFrames /\ e.op # "send" /\ FrameFits(e)
        /\ e.pc = "prepend" /\ Become(t, f)
    BY AtPlace DEF Prepend, SendPlaces, Proceed
  <2>. QED  BY <2>1 DEF FrameFits, CallFrames
<1>2. /\ UNCHANGED <<userCount, deadEntries, active, marked, busy, waitBit, alive, quiet>>
      /\ lists' = [lists EXCEPT ![ListOf[e.d]] = <<e.d>> \o @]
      /\ state' = [state EXCEPT ![e.d] = "live"]
  BY DEF Prepend, countVars
<1>3. e.d \in Deliverers /\ e.d # End /\ state[e.d] = "unborn"
  BY <1>1 DEF FrameFits, CallFrames
<1>4. PICK q : q = Innermost(t)
  OBVIOUS
<1>5. q \in Calling /\ CallAt(q) = e
  BY <1>1, <1>4, InnermostMeans DEF NoticeInv
<1>. HIDE DEF e
<1>6. f \in CallFrames /\ f.op = "register" /\ f.pc = "decrement" /\ f.d = e.d
  BY <1>1 DEF CallFrames, CallPlaces, SendPlaces
<1>. HIDE DEF f
<1>7. /\ stack' \in [Threads -> Seq(CallFrames)]
      /\ \A u \in Threads : Len(stack'[u]) <= MaxDepth + 1
      /\ q \in Calling' /\ CallAt(q)' = f /\ OnlyAt(q)
  BY <1>1, <1>4, <1>6, BecomeMeans DEF NoticeInv
<1>8. /\ state' \in [Deliverers -> {"unborn", "live", "freed"}]
      /\ state'[e.d] = "live" /\ \A x \in Deliverers : x # e.d => state'[x] = state[x]
  BY <1>2, <1>3 DEF NoticeInv, NoticeTyped
<1>9. /\ lists' \in [Range(Chain) -> Seq(Deliverers)]
      /\ \A l \in Range(Chain) : Range(lists'[l]) =
             Range(lists[l]) \cup (IF l = ListOf[e.d] THEN {e.d} ELSE {})
  <2>1. lists \in [Range(Chain) -> Seq(Deliverers)] /\ ListOf[e.d] \in Range(Chain)
    BY <1>3, NoticeAssumption DEF NoticeInv, NoticeTyped
  <2>2. PICK s : s = lists[ListOf[e.d]]
    OBVIOUS
  <2>3. s \in Seq(Deliverers)
    BY <2>1, <2>2
  <2>4. /\ <<e.d>> \o s \in Seq(Deliverers) /\ Len(<<e.d>> \o s) = Len(s) + 1
        /\ (<<e.d>> \o s)[1] = e.d
        /\ \A i \in 1 .. Len(s) : (<<e.d>> \o s)[i + 1] = s[i]
    BY <1>3, <2>3, ConsMeans
  <2>5. Range(<<e.d>> \o s) = Range(s) \cup {e.d}
    <3>. DEFINE c == <<e.d>> \o s
    <3>1. DOMAIN c = 1 .. Len(s) + 1 /\ DOMAIN s = 1 .. Len(s) /\ Len(s) \in Nat
      BY <2>3, <2>4
    <3>. HIDE DEF c
    <3>2. ASSUME NEW i \in DOMAIN c  PROVE c[i] \in Range(s) \cup {e.d}
      <4>1. CASE i = 1
        BY <2>4, <4>1 DEF c
      <4>2. CASE i # 1
        <5>1. i - 1 \in 1 .. Len(s) /\ (i - 1) + 1 = i
          BY <3>1, <4>2
        <5>2. c[i] = s[i - 1]
          BY <2>4, <5>1 DEF c
        <5>. QED  BY <3>1, <5>1, <5>2 DEF Range
      <4>. QED  BY <4>1, <4>2
    <3>3. ASSUME NEW i \in DOMAIN s  PROVE s[i] \in Range(c)
      <4>1. i + 1 \in DOMAIN c /\ c[i + 1] = s[i]
        BY <3>1, <2>4 DEF c
      <4>. QED  BY <4>1 DEF Range
    <3>4. e.d \in Range(c)
      <4>1. 1 \in DOMAIN c /\ c[1] = e.d
        BY <3>1, <2>4 DEF c
      <4>. QED  BY <4>1 DEF Range
    <3>5. Range(c) = Range(s) \cup {e.d}
      BY <3>2, <3>3, <3>4 DEF Range
    <3>. QED  BY <3>5 DEF c
  <2>6. lists' = [lists EXCEPT ![ListOf[e.d]] = <<e.d>> \o s]
    BY <1>2, <2>2
  <2>. QED  BY <2>1, <2>2, <2>4, <2>5, <2>6
<1>10. NoticeTyped'
  BY <1>2, <1>7, <1>8, <1>9 DEF NoticeInv, NoticeTyped
<1>11. DeliverersFit'
  BY <1>2 DEF NoticeInv, DeliverersFit
<1>12. ListsExact'
  <2>1. ASSUME NEW l \in Range(Chain)
        PROVE  Range(lists'[l]) = {d \in Deliverers : ListOf[d] = l /\ state'[d] = "live"}
    <3>1. Range(lists[l]) = {d \in Deliverers : ListOf[d] = l /\ state[d] = "live"}
      BY DEF NoticeInv, ListsExact
    <3>2. ASSUME NEW x
          PROVE  x \in Range(lists'[l]) <=>
                     x \in Deliverers /\ ListOf[x] = l /\ state'[x] = "live"
      <4>1. x \in Range(lists'[l]) <=>
                x \in Range(lists[l]) \/ (l = ListOf[e.d] /\ x = e.d)
        BY <1>9
      <4>2. CASE x = e.d
        BY <1>3, <1>8, <3>1, <4>1, <4>2
      <4>3. CASE x # e.d
        BY <1>8, <3>1, <4>1, <4>3
      <4>. QED  BY <4>2, <4>3
    <3>. QED  BY <3>2
  <2>. QED  BY <2>1 DEF ListsExact
<1>13. userCount' = userCount - One(q \in Users) + One(q \in Users')
  BY <1>1, <1>2, <1>5, <1>6, <1>7 DEF Users, One, NoticeInv, NoticeTyped
<1>14. \A x \in Deliverers : busy'[x] =
          busy[x] - One(q \in Deliveries(x)) + One(q \in Deliveries(x)')
  BY <1>1, <1>2, <1>5, <1>6, <1>7 DEF Deliveries, Delivers, One, NoticeInv, NoticeTyped
<1>15. FrameFits(CallAt(q))'
  BY <1>3, <1>6, <1>7, <1>8 DEF FrameFits, SendPlaces
<1>16. \A r \in Calling : Keeps(CallAt(r), e.d) => r = q
  BY <1>1, <1>5 DEF NoticeInv, RevokedOnce, Keeps
<1>17. ASSUME NEW r \in Calling, r # q, CallAt(r).d # End
       PROVE  /\ state'[CallAt(r).d] = state[CallAt(r).d]
              /\ CallAt(r).pc = "lock" =>
                     active'[CallAt(r).d] /\ alive'[CallAt(r).d]
  <2>1. CallAt(r) \in CallFrames /\ FrameFits(CallAt(r))
    BY CallsTyped DEF NoticeInv, FramesFit
  <2>2. CallAt(r).d \in Deliverers
    BY <1>17, <2>1 DEF CallFrames
  <2>3. CallAt(r).d # e.d
    BY <1>3, <1>16, <1>17, <2>1 DEF FrameFits, Keeps, SendPlaces
  <2>. QED  BY <1>2, <1>8, <2>2, <2>3, LocksMean
<1>18. /\ \A x : ~Talks(CallAt(q)', x)
       /\ \A x \in Deliverers : q \in Calling' /\ Keeps(CallAt(q)', x) =>
              \A r \in Calling : Keeps(CallAt(r), x) => r = q
  BY <1>6, <1>7, <1>16 DEF Talks, Keeps
<1>19. \A d \in Deliverers :
           /\ active'[d] => active[d]
           /\ marked[d] => marked'[d]
           /\ waitBit[d] => waitBit'[d]
           /\ alive'[d] => alive[d]
           /\ state[d] = "freed" => state'[d] = "freed"
  BY <1>2, <1>3, <1>8
<1>. QED
  BY <1>2, <1>7, <1>10, <1>11, <1>12, <1>13, <1>14, <1>15, <1>17, <1>18, <1>19,
     CallsMove

LEMMA DecrementKeepsInv ==
    ASSUME NoticeInv, NEW t \in Threads, Decrement(t)
    PROVE  NoticeInv'
<1>. DEFINE e == Top(t)
<1>1. /\ stack[t] # <<>> /\ e \in CallFrames /\ FrameFits(e) /\ e.op # "send"
      /\ e.pc = "decrement" /\ Return(t)
  BY AtPlace DEF Decrement, SendPlaces
<1>2. /\ UNCHANGED <<lists, deadEntries, entryVars, countVars, alive>>
      /\ userCount' = userCount - 1
      /\ quiet' = IF e.op = "revokeAndWait" THEN quiet \cup {e.d} ELSE quiet
  BY DEF Decrement
<1>3. e.d \in Deliverers
  BY <1>1 DEF FrameFits, CallFrames
<1>4. PICK q : q = Innermost(t)
  OBVIOUS
<1>5. q \in Calling /\ CallAt(q) = e
  BY <1>1, <1>4, InnermostMeans DEF NoticeInv
<1>6. /\ stack' \in [Threads -> Seq(CallFrames)]
      /\ \A u \in Threads : Len(stack'[u]) <= MaxDepth + 1
      /\ q \notin Calling' /\ OnlyAt(q)
  BY <1>1, <1>4, ReturnMeans DEF NoticeInv
<1>. HIDE DEF e
<1>7. NoticeTyped'
  BY <1>2, <1>3, <1>6 DEF NoticeInv, NoticeTyped, entryVars, countVars
<1>8. DeliverersFit' /\ ListsExact'
  BY <1>2 DEF NoticeInv, DeliverersFit, ListsExact, entryVars, countVars
<1>9. userCount' = userCount - One(q \in Users) + One(q \in Users')
  BY <1>1, <1>2, <1>5, <1>6 DEF Users, One, NoticeInv, NoticeTyped
<1>10. \A x \in Deliverers : busy'[x] =
          busy[x] - One(q \in Deliveries(x)) + One(q \in Deliveries(x)')
  BY <1>1, <1>2, <1>5, <1>6 DEF Deliveries, Delivers, One, NoticeInv, NoticeTyped,
     countVars
<1>11. \A d \in quiet' : d \in quiet \/ Hushed(d)'
  <2>1. ASSUME NEW d \in Deliverers, e.op = "revokeAndWait", d = e.d  PROVE Hushed(d)'
    <3>1. Hushed(d)
      BY <1>1, <2>1 DEF FrameFits
    <3>2. \A r \in Calling' : r \in Calling /\ CallAt(r)' = CallAt(r)
      BY <1>6 DEF OnlyAt
    <3>. QED  BY <1>2, <3>1, <3>2 DEF Hushed, countVars
  <2>. QED  BY <1>2, <1>3, <2>1
<1>12. \A r \in Calling : r # q /\ CallAt(r).d # End =>
           /\ state'[CallAt(r).d] = state[CallAt(r).d]
           /\ CallAt(r).pc = "lock" =>
                  active'[CallAt(r).d] /\ alive'[CallAt(r).d]
  BY <1>2, LocksMean DEF entryVars
<1>13. \A d \in Deliverers :
           /\ active'[d] => active[d]
           /\ marked[d] => marked'[d]
           /\ waitBit[d] => waitBit'[d]
           /\ alive'[d] => alive[d]
           /\ state[d] = "freed" => state'[d] = "freed"
  BY <1>2 DEF entryVars, countVars
<1>. QED
  BY <1>6, <1>7, <1>8, <1>9, <1>10, <1>11, <1>12, <1>13, CallsMove

LEMMA ExpireKeepsInv ==
    ASSUME NoticeInv, NEW d \in Deliverers, Expire(d)
    PROVE  NoticeInv'
<1>1. /\ \A f \in AllFrames : f.d = d => f.op = "send"
      /\ alive' = [alive EXCEPT ![d] = FALSE]
      /\ UNCHANGED <<lists, userCount, deadEntries, entryVars, countVars, stack, quiet>>
  BY DEF Expire
<1>2. PICK q : q = <<d, MaxDepth + 2>>
  OBVIOUS
<1>3. q \notin Calling /\ q \notin Calling'
  BY <1>2, NoticeAssumption DEF Calling
<1>4. OnlyAt(q)
  BY <1>1 DEF OnlyAt, Calling, CallAt
<1>5. /\ alive' \in [Deliverers -> BOOLEAN]
      /\ \A x \in Deliverers : /\ alive'[x] => alive[x]
                               /\ x # d => alive'[x] = alive[x]
  BY <1>1 DEF NoticeInv, NoticeTyped
<1>6. NoticeTyped' /\ DeliverersFit' /\ ListsExact'
  <2>1. NoticeTyped'
    BY <1>1, <1>5 DEF NoticeInv, NoticeTyped, entryVars, countVars
  <2>2. DeliverersFit' /\ ListsExact'
    BY <1>1 DEF NoticeInv, DeliverersFit, ListsExact, entryVars, countVars
  <2>. QED  BY <2>1, <2>2
<1>7. userCount' = userCount - One(q \in Users) + One(q \in Users')
  BY <1>1, <1>3 DEF Users, One, NoticeInv, NoticeTyped
<1>8. \A x \in Deliverers : busy'[x] =
          busy[x] - One(q \in Deliveries(x)) + One(q \in Deliveries(x)')
  BY <1>1, <1>3 DEF Deliveries, One, NoticeInv, NoticeTyped, countVars
<1>9. \A r \in Calling : CallAt(r).op # "send" => CallAt(r).d # d
  BY <1>1, FramesAreCalls DEF NoticeInv
<1>10. \A r \in Calling : r # q /\ CallAt(r).d # End =>
           /\ state'[CallAt(r).d] = state[CallAt(r).d]
           /\ CallAt(r).pc = "lock" =>
                  active'[CallAt(r).d] /\ alive'[CallAt(r).d]
  BY <1>1, <1>5, <1>9, LocksMean DEF entryVars
<1>11. \A x \in Deliverers :
           /\ active'[x] => active[x]
           /\ marked[x] => marked'[x]
           /\ waitBit[x] => waitBit'[x]
           /\ alive'[x] => alive[x]
           /\ state[x] = "freed" => state'[x] = "freed"
  BY <1>1, <1>5 DEF entryVars, countVars
<1>. QED
  BY <1>1, <1>3, <1>4, <1>6, <1>7, <1>8, <1>10, <1>11, CallsMove

----------------------------------------------------------------------------
(* Freeing                                                                 *)

(* The function that Without is defined by exists, and what it says of     *)
(* each beginning of s is right: else there were a least one it is not     *)
(* right about.                                                            *)
LEMMA Least ==
    ASSUME NEW T, T \subseteq Nat, T # {}
    PROVE  \E i \in T : \A j \in T : i <= j
<1>1. IsWellFoundedOn(OpToRel(<, Nat), Nat)
  BY NatLessThanWellFounded
<1>2. PICK i \in T : \A j \in T : <<j, i>> \notin OpToRel(<, Nat)
  BY <1>1, WFMin
<1>3. \A j \in T : ~(j < i)
  BY <1>2 DEF OpToRel
<1>. QED  BY <1>3

LEMMA WithoutMeans ==
    ASSUME NEW S, NEW s \in Seq(S), NEW ds
    PROVE  Without(s, ds) \in Seq(S) /\ Range(Without(s, ds)) = Range(s) \ ds
<1>. DEFINE n == Len(s)
            Value(g, i) == IF i = 0 THEN <<>> ELSE IF s[i] \in ds THEN g[i - 1]
                           ELSE Append(g[i - 1], s[i])
            IsUpTo(g, m) == g = [i \in 0 .. m |-> Value(g, i)]
            f == CHOOSE g : IsUpTo(g, n)
            Right(i) == /\ f[i] \in Seq(S)
                        /\ Range(f[i]) = {s[j] : j \in 1 .. i} \ ds
<1>1. n \in Nat /\ DOMAIN s = 1 .. n /\ \A i \in 1 .. n : s[i] \in S
  OBVIOUS
<1>2. \A m \in 0 .. n : \E g : IsUpTo(g, m)
  <2>. DEFINE T == {m \in 0 .. n : ~\E g : IsUpTo(g, m)}
  <2>. SUFFICES ASSUME T # {} PROVE FALSE
    OBVIOUS
  <2>1. \E m \in T : \A j \in T : m <= j
    <3>1. T \subseteq Nat
      BY <1>1
    <3>. HIDE DEF T
    <3>. QED  BY <3>1, Least
  <2>2. PICK m \in T : \A j \in T : m <= j
    BY <2>1
  <2>3. m \in 0 .. n /\ m \in Nat /\ \A g : ~IsUpTo(g, m)
    OBVIOUS
  <2>4. CASE m = 0
    <3>. DEFINE g == [i \in 0 .. 0 |-> <<>>]
    <3>1. IsUpTo(g, 0)
      OBVIOUS
    <3>. QED  BY <2>3, <2>4, <3>1
  <2>5. CASE m # 0
    <3>1. m - 1 \in 0 .. n /\ m - 1 \notin T
      <4>. HIDE DEF T
      <4>. QED  BY <2>2, <2>3, <2>5
    <3>2. PICK g : IsUpTo(g, m - 1)
      BY <3>1
    <3>. DEFINE h == [i \in 0 .. m |-> IF i = m THEN Value(g, m) ELSE g[i]]
    <3>3. ASSUME NEW i \in 0 .. m  PROVE h[i] = Value(h, i)
      <4>1. i # 0 => h[i - 1] = g[i - 1]
        BY <2>3
      <4>2. Value(h, i) = Value(g, i)
        BY <4>1
      <4>3. ASSUME i # m  PROVE g[i] = Value(g, i)
        <5>1. i \in 0 .. m - 1
          BY <2>3, <4>3
        <5>. QED  BY <3>2, <5>1
      <4>. QED  BY <4>2, <4>3
    <3>4. h = [i \in 0 .. m |-> h[i]]
      OBVIOUS
    <3>. HIDE DEF h
    <3>5. IsUpTo(h, m)
      BY <3>3, <3>4
    <3>. QED  BY <2>3, <3>5
  <2>. QED  BY <2>4, <2>5
<1>3. IsUpTo(f, n)
  <2>1. n \in 0 .. n
    BY <1>1
  <2>. HIDE DEF IsUpTo
  <2>2. \E g : IsUpTo(g, n)
    BY <1>2, <2>1
  <2>. QED  BY <2>2
<1>4. \A i \in 0 .. n : f[i] = Value(f, i)
  <2>. HIDE DEF f
  <2>. QED  BY <1>3
<1>5. Without(s, ds) = f[n]
  BY DEF Without
<1>. HIDE DEF f
<1>6. \A i \in 0 .. n : Right(i)
  <2>. DEFINE T == {m \in 0 .. n : ~Right(m)}
  <2>. SUFFICES ASSUME T # {} PROVE FALSE
    OBVIOUS
  <2>1. \E m \in T : \A j \in T : m <= j
    <3>1. T \subseteq Nat
      BY <1>1
    <3>. HIDE DEF T
    <3>. QED  BY <3>1, Least
  <2>2. PICK m \in T : \A j \in T : m <= j
    BY <2>1
  <2>3. m \in 0 .. n /\ ~Right(m) /\ f[m] = Value(f, m)
    BY <1>4
  <2>4. CASE m = 0
    <3>1. f[m] = <<>> /\ {s[j] : j \in 1 .. m} = {}
      BY <2>3, <2>4
    <3>2. <<>> \in Seq(S) /\ Range(<<>>) = {}
      BY DEF Range
    <3>. QED  BY <2>3, <3>1, <3>2
  <2>5. CASE m # 0
    <3>1. m - 1 \in 0 .. n /\ m - 1 \notin T /\ m \in 1 .. n
      <4>. HIDE DEF T
      <4>. QED  BY <1>1, <2>2, <2>3, <2>5
    <3>2. Right(m - 1)
      BY <3>1
    <3>3. {s[j] : j \in 1 .. m} = {s[j] : j \in 1 .. m - 1} \cup {s[m]}
      BY <3>1
    <3>4. f[m] = IF s[m] \in ds THEN f[m - 1] ELSE Append(f[m - 1], s[m])
      BY <2>3, <2>5
    <3>5. CASE s[m] \in ds
      BY <2>3, <3>2, <3>3, <3>4, <3>5
    <3>6. CASE s[m] \notin ds
      <4>. DEFINE r == f[m - 1]
      <4>1. s[m] \in S /\ r \in Seq(S) /\ f[m] = Append(r, s[m])
        BY <1>1, <3>1, <3>2, <3>4, <3>6
      <4>. HIDE DEF r
      <4>2. Append(r, s[m]) \in Seq(S) /\ Range(Append(r, s[m])) = Range(r) \cup {s[m]}
        BY <4>1 DEF Range
      <4>. QED  BY <2>3, <3>2, <3>3, <3>6, <4>1, <4>2 DEF r
    <3>. QED  BY <3>5, <3>6
  <2>. QED  BY <2>4, <2>5
<1>7. {s[j] : j \in 1 .. n} = Range(s)
  BY <1>1 DEF Range
<1>8. n \in 0 .. n
  BY <1>1
<1>9. Right(n)
  BY <1>6, <1>8
<1>. QED  BY <1>5, <1>7, <1>9

LEMMA FreeMeans ==
    ASSUME NoticeInv, NEW ds \in SUBSET Deliverers, Free(ds)
    PROVE  /\ state' \in [Deliverers -> {"unborn", "live", "freed"}]
           /\ lists' \in [Range(Chain) -> Seq(Deliverers)] /\ ListsExact'
           /\ \A d \in Deliverers : state'[d] = IF d \in ds THEN "freed" ELSE state[d]
<1>1. /\ state \in [Deliverers -> {"unborn", "live", "freed"}]
      /\ state' = [d \in Deliverers |-> IF d \in ds THEN "freed" ELSE state[d]]
      /\ lists \in [Range(Chain) -> Seq(Deliverers)]
      /\ lists' = [l \in Range(Chain) |-> Without(lists[l], ds)]
  BY DEF NoticeInv, NoticeTyped, Free
<1>2. /\ state' \in [Deliverers -> {"unborn", "live", "freed"}]
      /\ \A d \in Deliverers : state'[d] = IF d \in ds THEN "freed" ELSE state[d]
  BY <1>1
<1>3. ASSUME NEW l \in Range(Chain)
      PROVE  lists'[l] \in Seq(Deliverers) /\ Range(lists'[l]) = Range(lists[l]) \ ds
  <2>1. lists[l] \in Seq(Deliverers) /\ lists'[l] = Without(lists[l], ds)
    BY <1>1
  <2>. QED  BY <2>1, WithoutMeans
<1>4. lists' \in [Range(Chain) -> Seq(Deliverers)]
  BY <1>1, <1>3
<1>5. ListsExact'
  BY <1>2, <1>3 DEF NoticeInv, ListsExact
<1>. QED  BY <1>2, <1>4, <1>5

LEMMA UsersAreFinite == IsFiniteSet(Users)
<1>1. Users \in SUBSET Calling
  BY DEF Users
<1>. QED  BY <1>1, CallsAreFinite, FS_Subset

(* With no user, every call is waiting for the lock, each at a deliverer of*)
(* its own: the one that is freed is nobody else's.                        *)
LEMMA RevokeNowKeepsInv ==
    ASSUME NoticeInv, NEW t \in Threads, RevokeNow(t)
    PROVE  NoticeInv'
<1>. DEFINE e == Top(t)
<1>1. /\ stack[t] # <<>> /\ e \in CallFrames /\ FrameFits(e) /\ e.op # "send"
      /\ e.pc = "lock" /\ Return(t)
  BY AtPlace DEF RevokeNow, SendPlaces
<1>2. /\ UNCHANGED <<userCount, deadEntries, active, marked, countVars, alive>>
      /\ userCount = 0 /\ Free({e.d})
      /\ quiet' = IF e.op = "revokeAndWait" THEN quiet \cup {e.d} ELSE quiet
  BY DEF RevokeNow
<1>3. e.d \in Deliverers
  BY <1>1 DEF FrameFits, CallFrames
<1>4. PICK q : q = Innermost(t)
  OBVIOUS
<1>5. q \in Calling /\ CallAt(q) = e
  BY <1>1, <1>4, InnermostMeans DEF NoticeInv
<1>6. /\ stack' \in [Threads -> Seq(CallFrames)]
      /\ \A u \in Threads : Len(stack'[u]) <= MaxDepth + 1
      /\ q \notin Calling' /\ OnlyAt(q)
  BY <1>1, <1>4, ReturnMeans DEF NoticeInv
<1>. HIDE DEF e
<1>7. /\ state' \in [Deliverers -> {"unborn", "live", "freed"}]
      /\ lists' \in [Range(Chain) -> Seq(Deliverers)] /\ ListsExact'
      /\ \A d \in Deliverers : state'[d] = IF d = e.d THEN "freed" ELSE state[d]
  <2>1. {e.d} \in SUBSET Deliverers
    BY <1>3
  <2>. QED  BY <1>2, <2>1, FreeMeans
<1>8. NoticeTyped' /\ DeliverersFit'
  <2>1. NoticeTyped'
    BY <1>2, <1>3, <1>6, <1>7 DEF NoticeInv, NoticeTyped, countVars
  <2>2. DeliverersFit'
    BY <1>2 DEF NoticeInv, DeliverersFit, countVars
  <2>. QED  BY <2>1, <2>2
<1>9. userCount' = userCount - One(q \in Users) + One(q \in Users')
  BY <1>1, <1>2, <1>5, <1>6 DEF Users, One, NoticeInv, NoticeTyped
<1>10. \A x \in Deliverers : busy'[x] =
          busy[x] - One(q \in Deliveries(x)) + One(q \in Deliveries(x)')
  BY <1>1, <1>2, <1>5, <1>6 DEF Deliveries, Delivers, One, NoticeInv, NoticeTyped,
     countVars
<1>11. \A d \in quiet' : d \in quiet \/ state'[d] = "freed"
  BY <1>2, <1>3, <1>7
<1>12. \A r \in Calling : CallAt(r).pc = "lock"
  <2>1. Users = {}
    BY <1>2, UsersAreFinite, FS_EmptySet DEF NoticeInv, UsersCounted
  <2>. QED  BY <2>1 DEF Users
<1>13. ASSUME NEW r \in Calling, r # q
       PROVE  /\ state'[CallAt(r).d] = state[CallAt(r).d]
              /\ active'[CallAt(r).d] /\ alive'[CallAt(r).d]
  <2>1. CallAt(r).op # "send" /\ CallAt(r).d \in Deliverers
    BY <1>12, LocksMean
  <2>2. CallAt(r).d # e.d
    BY <1>1, <1>5, <1>13, <2>1 DEF NoticeInv, RevokedOnce
  <2>. QED  BY <1>2, <1>7, <1>12, <2>1, <2>2, LocksMean
<1>14. \A d \in Deliverers :
           /\ active'[d] => active[d]
           /\ marked[d] => marked'[d]
           /\ waitBit[d] => waitBit'[d]
           /\ alive'[d] => alive[d]
           /\ state[d] = "freed" => state'[d] = "freed"
  BY <1>2, <1>7 DEF countVars
<1>. QED
  BY <1>6, <1>7, <1>8, <1>9, <1>10, <1>11, <1>13, <1>14, CallsMove

(* The last user frees the marked ones; the calls that wait for the lock   *)
(* are at active ones.                                                     *)
LEMMA CleanupKeepsInv ==
    ASSUME NoticeInv, NEW t \in Threads, Cleanup(t)
    PROVE  NoticeInv'
<1>. DEFINE e == Top(t)
<1>1. /\ stack[t] # <<>> /\ e \in CallFrames /\ e.pc = "cleanup" /\ Return(t)
  BY AtPlace DEF Cleanup
<1>2. /\ UNCHANGED <<active, marked, countVars, alive, quiet>>
      /\ userCount' = userCount - 1
      /\ IF userCount = 1 THEN Free(Range(deadEntries)) /\ deadEntries' = <<>>
         ELSE UNCHANGED <<state, lists, deadEntries>>
  BY DEF Cleanup
<1>3. PICK q : q = Innermost(t)
  OBVIOUS
<1>4. q \in Calling /\ CallAt(q) = e
  BY <1>1, <1>3, InnermostMeans DEF NoticeInv
<1>5. /\ stack' \in [Threads -> Seq(CallFrames)]
      /\ \A u \in Threads : Len(stack'[u]) <= MaxDepth + 1
      /\ q \notin Calling' /\ OnlyAt(q)
  BY <1>1, <1>3, ReturnMeans DEF NoticeInv
<1>. HIDE DEF e
<1>6. q \in Users
  BY <1>1, <1>4 DEF Users
<1>7. userCount' = userCount - One(q \in Users) + One(q \in Users')
  BY <1>2, <1>5, <1>6 DEF Users, One, NoticeInv, NoticeTyped
<1>8. \A x \in Deliverers : busy'[x] =
          busy[x] - One(q \in Deliveries(x)) + One(q \in Deliveries(x)')
  BY <1>1, <1>2, <1>4, <1>5 DEF Deliveries, Delivers, One, NoticeInv, NoticeTyped,
     countVars
<1>9. /\ state' \in [Deliverers -> {"unborn", "live", "freed"}]
      /\ lists' \in [Range(Chain) -> Seq(Deliverers)] /\ ListsExact'
      /\ deadEntries' \in Seq(Deliverers)
      /\ DeliverersFit'
      /\ \A d \in Deliverers : state[d] = "freed" => state'[d] = "freed"
      /\ \A r \in Calling : r # q /\ CallAt(r).d # End =>
             state'[CallAt(r).d] = state[CallAt(r).d]
  <2>1. CASE userCount = 1
    <3>1. Range(deadEntries) \in SUBSET Deliverers
      BY DEF NoticeInv, NoticeTyped, Range
    <3>2. /\ state' \in [Deliverers -> {"unborn", "live", "freed"}]
          /\ lists' \in [Range(Chain) -> Seq(Deliverers)] /\ ListsExact'
          /\ \A d \in Deliverers :
                 state'[d] = IF d \in Range(deadEntries) THEN "freed" ELSE state[d]
      BY <1>2, <2>1, <3>1, FreeMeans
    <3>3. deadEntries' = <<>> /\ deadEntries' \in Seq(Deliverers) /\ Range(deadEntries') = {}
      BY <1>2, <2>1 DEF Range
    <3>4. DeliverersFit'
      BY <1>2, <3>3 DEF NoticeInv, DeliverersFit, countVars
    <3>5. \A r \in Calling : r # q => CallAt(r).pc = "lock"
      <4>1. \E x : Users = {x}
        BY <2>1, UsersAreFinite, FS_Singleton DEF NoticeInv, UsersCounted
      <4>. QED  BY <1>6, <4>1 DEF Users
    <3>6. \A r \in Calling : r # q => /\ CallAt(r).d \in Deliverers
                                      /\ CallAt(r).d \notin Range(deadEntries)
      BY <3>5, LocksMean DEF NoticeInv, DeliverersFit
    <3>. QED  BY <3>2, <3>3, <3>4, <3>6
  <2>2. CASE userCount # 1
    <3>1. UNCHANGED <<state, lists, deadEntries, active, marked, waitBit>>
      BY <1>2, <2>2 DEF countVars
    <3>2. DeliverersFit' /\ ListsExact'
      BY <3>1 DEF NoticeInv, DeliverersFit, ListsExact
    <3>. QED  BY <3>1, <3>2 DEF NoticeInv, NoticeTyped
  <2>. QED  BY <2>1, <2>2
<1>10. NoticeTyped'
  BY <1>2, <1>5, <1>9 DEF NoticeInv, NoticeTyped, countVars
<1>11. \A r \in Calling : r # q /\ CallAt(r).d # End =>
           /\ state'[CallAt(r).d] = state[CallAt(r).d]
           /\ CallAt(r).pc = "lock" =>
                  active'[CallAt(r).d] /\ alive'[CallAt(r).d]
  BY <1>2, <1>9, LocksMean
<1>12. \A d \in Deliverers :
           /\ active'[d] => active[d]
           /\ marked[d] => marked'[d]
           /\ waitBit[d] => waitBit'[d]
           /\ alive'[d] => alive[d]
           /\ state[d] = "freed" => state'[d] = "freed"
  BY <1>2, <1>9 DEF countVars
<1>. QED
  BY <1>2, <1>5, <1>7, <1>8, <1>9, <1>10, <1>11, <1>12, CallsMove

----------------------------------------------------------------------------
(* The theorems                                                            *)

LEMMA SetToSeqMeans ==
    ASSUME NEW S, IsFiniteSet(S)
    PROVE  SetToSeq(S) \in Seq(S) /\ Range(SetToSeq(S)) = S
<1>. DEFINE n == Cardinality(S)  f == SetToSeq(S)
<1>1. n \in Nat /\ ExistsBijection(1 .. n, S)
  BY FS_CardinalityType
<1>2. \E g \in [1 .. n -> S] : IsInjective(g)
  BY <1>1 DEF ExistsBijection, Bijection, Injection
<1>3. f \in [1 .. n -> S] /\ IsInjective(f)
  BY <1>2 DEF SetToSeq
<1>. HIDE DEF f
<1>4. IsFiniteSet(1 .. n) /\ Cardinality(1 .. n) = n
  BY <1>1, FS_Interval
<1>5. f \in Surjection(1 .. n, S)
  BY <1>3, <1>4, FS_Injection DEF Injection
<1>6. \A x \in S : \E i \in 1 .. n : f[i] = x
  BY <1>5 DEF Surjection
<1>7. f \in Seq(S)
  BY <1>1, <1>3
<1>8. Range(f) = S
  BY <1>3, <1>6 DEF Range
<1>. QED  BY <1>7, <1>8 DEF f

LEMMA NoticeInitInv == NoticeInit => NoticeInv
<1>. SUFFICES ASSUME NoticeInit  PROVE NoticeInv
  OBVIOUS
<1>1. Calling = {}
  <2>1. ASSUME NEW q \in Calling  PROVE FALSE
    <3>1. q[1] \in Threads /\ q[2] \in 1 .. MaxDepth + 1 /\ q[2] <= Len(stack[q[1]])
      BY DEF Calling
    <3>2. stack[q[1]] = <<>>
      BY <3>1 DEF NoticeInit
    <3>. QED  BY <3>1, <3>2, NoticeAssumption
  <2>. QED  BY <2>1
<1>2. ASSUME NEW l \in Range(Chain)
      PROVE  /\ lists[l] \in Seq(Deliverers)
             /\ Range(lists[l]) = {d \in Registered : ListOf[d] = l}
  <2>. DEFINE S == {d \in Registered : ListOf[d] = l}
  <2>1. S \in SUBSET Deliverers
    BY NoticeAssumption
  <2>2. IsFiniteSet(S)
    BY <2>1, NoticeAssumption, FS_Subset
  <2>3. lists[l] = SetToSeq(S)
    BY DEF NoticeInit
  <2>. HIDE DEF S
  <2>4. lists[l] \in Seq(S) /\ Range(lists[l]) = S
    BY <2>2, <2>3, SetToSeqMeans
  <2>. QED  BY <2>1, <2>4 DEF S
<1>3. NoticeTyped
  <2>1. lists \in [Range(Chain) -> Seq(Deliverers)]
    BY <1>2 DEF NoticeInit
  <2>2. /\ stack \in [Threads -> Seq(CallFrames)]
        /\ \A t \in Threads : Len(stack[t]) <= MaxDepth + 1
    BY NoticeAssumption DEF NoticeInit
  <2>3. deadEntries \in Seq(Deliverers)
    BY DEF NoticeInit
  <2>. QED  BY <2>1, <2>2, <2>3 DEF NoticeInit, NoticeTyped
<1>4. UsersCounted /\ DeliveriesCounted
  <2>1. Users = {} /\ \A d : Deliveries(d) = {}
    BY <1>1 DEF Users, Deliveries
  <2>. QED  BY <2>1, FS_EmptySet DEF UsersCounted, DeliveriesCounted, NoticeInit
<1>5. FramesFit /\ RevokedOnce /\ QuietHushed
  BY <1>1 DEF FramesFit, RevokedOnce, QuietHushed, NoticeInit
<1>6. DeliverersFit
  BY DEF DeliverersFit, NoticeInit, Range
<1>7. ListsExact
  BY <1>2, NoticeAssumption DEF ListsExact, NoticeInit
<1>. QED  BY <1>3, <1>4, <1>5, <1>6, <1>7 DEF NoticeInv

(* NoticeInv is an inductive invariant as long as no key of an expired     *)
(* listener is revoked: the counts of users and of deliveries are exact and*)
(* every call is at a deliverer that is live.                              *)
THEOREM NoticeInvariant ==
    ASSUME ~RevokeExpired
    PROVE  NoticeSpec => []NoticeInv
<1>1. NoticeInv /\ [NoticeNext]_noticeVars => NoticeInv'
  <2>. SUFFICES ASSUME NoticeInv, [NoticeNext]_noticeVars  PROVE NoticeInv'
    OBVIOUS
  <2>1. ASSUME NEW t \in Threads, Step(t)  PROVE NoticeInv'
    BY <2>1, PrependKeepsInv, DecrementKeepsInv, RevokeNowKeepsInv,
       RevokeLaterKeepsInv, SetWaitBitKeepsInv, WaitUntilNotSendingKeepsInv,
       GetHeadKeepsInv, VisitKeepsInv, EnterKeepsInv, LeaveKeepsInv, CallKeepsInv,
       MarkKeepsInv, CleanupKeepsInv, HandlerReturnsKeepsInv DEF Step
  <2>2. ASSUME NEW t \in Threads, Send(t) \/ HandlerThrows(t)  PROVE NoticeInv'
    BY <2>2, SendKeepsInv, HandlerThrowsKeepsInv
  <2>3. ASSUME NEW t \in Threads, NEW d \in Deliverers,
               \/ Register(t, d)
               \/ Revoke(t, d, "revoke")
               \/ Revoke(t, d, "revokeAndWait")
        PROVE  NoticeInv'
    BY <2>3, RegisterKeepsInv, RevokeKeepsInv
  <2>4. ASSUME NEW d \in Deliverers, Expire(d)  PROVE NoticeInv'
    BY <2>4, ExpireKeepsInv
  <2>5. CASE UNCHANGED noticeVars
    <3>1. UNCHANGED <<lists, userCount, deadEntries, state, active, marked, busy,
                      waitBit, alive, stack, quiet>>
      BY <2>5 DEF noticeVars, entryVars, countVars
    <3>2. Calling' = Calling /\ \A q : CallAt(q)' = CallAt(q)
      BY <3>1 DEF Calling, CallAt
    <3>3. Users' = Users /\ \A d : Deliveries(d)' = Deliveries(d)
      BY <3>2 DEF Users, Deliveries
    <3>4. \A d : Hushed(d)' <=> Hushed(d)
      BY <3>1, <3>2 DEF Hushed
    <3>5. NoticeTyped' /\ UsersCounted' /\ DeliveriesCounted'
      BY <3>1, <3>3 DEF NoticeInv, NoticeTyped, UsersCounted, DeliveriesCounted
    <3>6. ASSUME NEW q \in Calling'  PROVE FrameFits(CallAt(q))'
      BY <3>1, <3>2, <3>4 DEF NoticeInv, FramesFit, FrameFits
    <3>7. FramesFit' /\ RevokedOnce'
      BY <3>2, <3>6 DEF NoticeInv, FramesFit, RevokedOnce
    <3>8. DeliverersFit' /\ ListsExact' /\ QuietHushed'
      BY <3>1, <3>4 DEF NoticeInv, DeliverersFit, ListsExact, QuietHushed
    <3>. QED  BY <3>5, <3>7, <3>8 DEF NoticeInv
  <2>. QED  BY <2>1, <2>2, <2>3, <2>4, <2>5 DEF NoticeNext
<1>. QED  BY NoticeInitInv, <1>1, PTL DEF NoticeSpec

(* Once RevokeAndWait has returned, no thread runs the handler of the      *)
(* deliverer: QuietHushed and FramesFit.                                   *)
THEOREM RevokeAndWaitSilences ==
    ASSUME ~RevokeExpired
    PROVE  NoticeSpec => []RevokedStaysQuiet
<1>1. NoticeInv => RevokedStaysQuiet
  <2>. SUFFICES ASSUME NoticeInv, NEW f \in AllFrames, f.pc = "handler"
                PROVE  f.d \notin quiet
    BY DEF RevokedStaysQuiet
  <2>1. PICK q \in Calling : CallAt(q) = f
    BY FramesAreCalls DEF NoticeInv
  <2>2. FrameFits(f)
    BY <2>1 DEF NoticeInv, FramesFit
  <2>. QED  BY <2>1, <2>2 DEF NoticeInv, QuietHushed, FrameFits, Hushed
<1>. QED  BY <1>1, NoticeInvariant, PTL

(* No call is at a deliverer that was freed.                               *)
THEOREM NoticeFreesNothingInUse ==
    ASSUME ~RevokeExpired
    PROVE  NoticeSpec => []NothingFreedInUse
<1>1. NoticeInv => NothingFreedInUse
  <2>. SUFFICES ASSUME NoticeInv, NEW f \in AllFrames, f.d # End
                PROVE  state[f.d] # "freed"
    BY DEF NothingFreedInUse
  <2>1. PICK q \in Calling : CallAt(q) = f
    BY FramesAreCalls DEF NoticeInv
  <2>. QED  BY <2>1 DEF NoticeInv, FramesFit, FrameFits
<1>. QED  BY <1>1, NoticeInvariant, PTL

=============================================================================
