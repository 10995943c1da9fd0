----------------------------- MODULE RefCounted -----------------------------
(***************************************************************************)
(* What reference counting promises (the class documentation in            *)
(* pxr/base/tf/refPtr.h): pointers come and go one by one, an object is    *)
(* there exactly as long as a pointer refers to it, and is destroyed once. *)
(***************************************************************************)
CONSTANT Ptrs

VARIABLES refs, alive

Init == \E p \in Ptrs : refs = {p} /\ alive = TRUE

(* A copy of a pointer, or a promotion of a weak one.                      *)
Acquire(p) ==
    /\ p \notin refs
    /\ alive
    /\ refs' = refs \cup {p}
    /\ UNCHANGED alive

(* The last one to let go destroys the object.                             *)
Release(p) ==
    /\ p \in refs
    /\ refs' = refs \ {p}
    /\ alive' = (refs' # {})

Next == \E p \in Ptrs : Acquire(p) \/ Release(p)

Spec == Init /\ [][Next]_<<refs, alive>>

=============================================================================
