-------------------------- MODULE WorkSingularTask --------------------------
(***************************************************************************)
(* A task that runs when it is woken, never twice at once                  *)
(* (WorkSingularTask in pxr/base/work/singularTask.h).                     *)
(*                                                                         *)
(* A waker that raises the count from zero hands the task to a dispatcher, *)
(* which runs it on some thread some time later: a run.  A run calls the   *)
(* task's function until it can set the count back to zero.  What the      *)
(* function does, and when it returns, is for the users of this module.    *)
(***************************************************************************)
EXTENDS Naturals

CONSTANTS
    Wakers,    \* threads that call Wake
    Runs       \* as many as may be with the dispatcher at one time

VARIABLES
    count,     \* _count
    waker,     \* per waker, "idle" or "spawning" a run
    run,       \* per run, "none", "queued", "calling" the function, "returned"
    old,       \* per run, the count it saw before the call
    due        \* wakers for which no call has begun yet

vars == <<count, waker, run, old, due>>

TypeOK ==
    /\ count \in Nat
    /\ waker \in [Wakers -> {"idle", "spawning"}]
    /\ run \in [Runs -> {"none", "queued", "calling", "returned"}]
    /\ old \in [Runs -> Nat]
    /\ due \subseteq Wakers

Init ==
    /\ count = 0
    /\ waker = [w \in Wakers |-> "idle"]
    /\ run = [k \in Runs |-> "none"]
    /\ old = [k \in Runs |-> 0]
    /\ due = {}

(* Wake: the first to raise the count spawns a run.                        *)
Bump(w) ==
    /\ waker[w] = "idle"
    /\ count' = count + 1
    /\ waker' = [waker EXCEPT ![w] = IF count = 0 THEN "spawning" ELSE "idle"]
    /\ due' = due \cup {w}
    /\ UNCHANGED <<run, old>>

Spawn(w) ==
    /\ waker[w] = "spawning"
    /\ \E k \in Runs :
           /\ run[k] = "none"
           /\ run' = [run EXCEPT ![k] = "queued"]
    /\ waker' = [waker EXCEPT ![w] = "idle"]
    /\ UNCHANGED <<count, old, due>>

(* A call begins, for everybody who has waked by now.                      *)
Look(k) ==
    /\ old' = [old EXCEPT ![k] = count]
    /\ due' = {}

Start(k) ==
    /\ run[k] = "queued"
    /\ run' = [run EXCEPT ![k] = "calling"]
    /\ Look(k)
    /\ UNCHANGED <<count, waker>>

Return(k) ==
    /\ run[k] = "calling"
    /\ run' = [run EXCEPT ![k] = "returned"]
    /\ UNCHANGED <<count, waker, old, due>>

(* Faulty: does not compare.                                               *)
FinishBlindly(k) ==
    /\ run[k] = "returned"
    /\ count' = 0
    /\ run' = [run EXCEPT ![k] = "none"]
    /\ UNCHANGED <<waker, old, due>>

(* The count is as it was: nobody has waked since.                         *)
Finish(k) ==
    /\ run[k] = "returned"
    /\ count = old[k]
    /\ count' = 0
    /\ run' = [run EXCEPT ![k] = "none"]
    /\ UNCHANGED <<waker, old, due>>

CallAgain(k) ==
    /\ run[k] = "returned"
    /\ count # old[k]
    /\ run' = [run EXCEPT ![k] = "calling"]
    /\ Look(k)
    /\ UNCHANGED <<count, waker>>

Next ==
    \/ \E w \in Wakers : Bump(w) \/ Spawn(w)
    \/ \E k \in Runs : Start(k) \/ Return(k) \/ Finish(k) \/ CallAgain(k)

Spec == Init /\ [][Next]_vars

(* Work_Dispatcher::Wait returns when the runs are over.                   *)
AllDone == \A k \in Runs : run[k] = "none"

----------------------------------------------------------------------------
(* Properties                                                              *)

(* "A singular task is one that will not run concurrently with itself."    *)
RunsAlone == \A j, k \in Runs : run[j] # "none" /\ run[k] # "none" => j = k

(* "Ensure that this task runs at least once after this call": a wake-up   *)
(* that no call has answered has a run before it that has yet to call, or  *)
(* will call again.                                                        *)
NoWakeLost ==
    due # {} =>
        \/ \E w \in Wakers : waker[w] = "spawning"
        \/ \E k \in Runs : run[k] = "queued"
        \/ \E k \in Runs : run[k] \in {"calling", "returned"} /\ old[k] # count

=============================================================================
