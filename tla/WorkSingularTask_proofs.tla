----------------------- MODULE WorkSingularTask_proofs -----------------------
(***************************************************************************)
(* Proofs about WorkSingularTask for any sets of wakers and runs: it runs  *)
(* alone, and no wake-up is lost.                                          *)
(***************************************************************************)
EXTENDS WorkSingularTask, TLAPS

(* Whoever makes the count positive spawns a run, and the run is there     *)
(* until it takes the count to zero: there is one of the two.              *)
Spawning == {w \in Wakers : waker[w] = "spawning"}
Live == {k \in Runs : run[k] # "none"}

OneAtWork ==
    /\ \A w1, w2 \in Spawning : w1 = w2
    /\ \A k1, k2 \in Live : k1 = k2
    /\ Spawning = {} \/ Live = {}
    /\ count = 0 <=> Spawning = {} /\ Live = {}

IInv ==
    /\ TypeOK /\ OneAtWork /\ NoWakeLost
    /\ \A k \in Runs : run[k] \in {"calling", "returned"} => old[k] <= count

LEMMA SingularInit == Init => IInv
BY DEF Init, IInv, TypeOK, OneAtWork, NoWakeLost, Spawning, Live

(* Waking makes the count positive or makes the run's look stale.          *)
LEMMA BumpPreserves ==
    ASSUME IInv, NEW w \in Wakers, Bump(w)
    PROVE  IInv'
<1>1. /\ count \in Nat /\ count' = count + 1 /\ UNCHANGED <<run, old>>
      /\ waker \in [Wakers -> {"idle", "spawning"}] /\ waker[w] = "idle"
      /\ waker' = [waker EXCEPT ![w] = IF count = 0 THEN "spawning" ELSE "idle"]
      /\ old \in [Runs -> Nat]
  BY DEF Bump, IInv, TypeOK
<1>2. TypeOK'
  BY <1>1 DEF Bump, IInv, TypeOK
<1>3. Live' = Live
  BY <1>1 DEF Live
<1>4. CASE count = 0
  <2>1. Spawning = {} /\ Live = {} /\ Spawning' = {w}
    BY <1>1, <1>4 DEF IInv, OneAtWork, Spawning
  <2>2. OneAtWork'
    BY <1>1, <1>3, <2>1 DEF OneAtWork
  <2>3. NoWakeLost'
    BY <2>1 DEF NoWakeLost, Spawning
  <2> QED
    BY <1>1, <1>2, <2>1, <2>2, <2>3 DEF IInv, Live
<1>5. CASE count # 0
  <2>1. waker' = waker /\ Spawning' = Spawning
    BY <1>1, <1>5 DEF Spawning
  <2>2. OneAtWork'
    BY <1>1, <1>3, <1>5, <2>1 DEF IInv, OneAtWork
  <2>3. \A k \in Runs : run[k] \in {"calling", "returned"}
            => old'[k] <= count' /\ old'[k] # count'
    BY <1>1 DEF IInv
  <2>4. NoWakeLost'
    <3>1. Spawning # {} \/ Live # {}
      BY <1>5 DEF IInv, OneAtWork
    <3>2. run \in [Runs -> {"none", "queued", "calling", "returned"}]
      BY DEF IInv, TypeOK
    <3> QED
      BY <1>1, <2>1, <2>3, <3>1, <3>2 DEF NoWakeLost, Spawning, Live
  <2> QED
    BY <1>1, <1>2, <2>2, <2>3, <2>4 DEF IInv
<1> QED
  BY <1>4, <1>5

(* The spawner becomes the run.                                            *)
LEMMA SpawnPreserves ==
    ASSUME IInv, NEW w \in Wakers, Spawn(w)
    PROVE  IInv'
<1>1. PICK k \in Runs : run[k] = "none" /\ run' = [run EXCEPT ![k] = "queued"]
  BY DEF Spawn
<1>2. /\ UNCHANGED <<count, old, due>> /\ waker[w] = "spawning"
      /\ waker' = [waker EXCEPT ![w] = "idle"]
      /\ waker \in [Wakers -> {"idle", "spawning"}]
      /\ run \in [Runs -> {"none", "queued", "calling", "returned"}]
  BY DEF Spawn, IInv, TypeOK
<1>3. TypeOK'
  BY <1>1, <1>2 DEF IInv, TypeOK
<1>4. Spawning = {w} /\ Live = {}
  BY <1>2 DEF IInv, OneAtWork, Spawning
<1>5. Spawning' = {} /\ Live' = {k}
  BY <1>1, <1>2, <1>4 DEF Spawning, Live
<1>6. OneAtWork'
  BY <1>2, <1>4, <1>5 DEF IInv, OneAtWork
<1>7. NoWakeLost'
  BY <1>1, <1>2 DEF NoWakeLost
<1> QED
  BY <1>1, <1>2, <1>3, <1>6, <1>7 DEF IInv

(* A run begins a call, ends it, or goes again: it stays the only one.     *)
LEMMA CallPreserves ==
    ASSUME IInv, NEW k \in Runs, Start(k) \/ Return(k) \/ CallAgain(k)
    PROVE  IInv'
<1>1. /\ UNCHANGED <<count, waker>> /\ run[k] # "none" /\ count \in Nat
      /\ run \in [Runs -> {"none", "queued", "calling", "returned"}]
      /\ run' \in [Runs -> {"none", "queued", "calling", "returned"}]
      /\ run'[k] \in {"calling", "returned"} /\ \A j \in Runs : j # k => run'[j] = run[j]
      /\ old \in [Runs -> Nat]
  BY DEF Start, Return, CallAgain, IInv, TypeOK
<1>2. /\ old' \in [Runs -> Nat]
      /\ \A j \in Runs : j # k => old'[j] = old[j]
      /\ old'[k] <= count
  BY <1>1 DEF Start, Return, CallAgain, Look, IInv
<1>3. \/ due' = {}
      \/ due' = due /\ old' = old /\ run[k] = "calling"
  BY DEF Start, Return, CallAgain, Look
<1>4. Spawning' = Spawning /\ Live' = Live
  BY <1>1 DEF Spawning, Live
<1>5. OneAtWork'
  BY <1>1, <1>4 DEF IInv, OneAtWork
<1>6. NoWakeLost'
  BY <1>1, <1>3 DEF IInv, NoWakeLost
<1>7. TypeOK'
  BY <1>1, <1>2, <1>3 DEF IInv, TypeOK
<1> QED
  BY <1>1, <1>2, <1>5, <1>6, <1>7 DEF IInv

(* A run that finds the count as it saw it leaves nobody waiting.          *)
LEMMA FinishPreserves ==
    ASSUME IInv, NEW k \in Runs, Finish(k)
    PROVE  IInv'
<1>1. /\ UNCHANGED <<waker, old, due>> /\ count' = 0 /\ run[k] = "returned"
      /\ run' = [run EXCEPT ![k] = "none"] /\ count = old[k]
      /\ run \in [Runs -> {"none", "queued", "calling", "returned"}]
  BY DEF Finish, IInv, TypeOK
<1>2. Live = {k} /\ Spawning = {}
  BY <1>1 DEF IInv, OneAtWork, Live
<1>3. Live' = {} /\ Spawning' = {}
  BY <1>1, <1>2 DEF Live, Spawning
<1>4. due = {}
  BY <1>1, <1>2 DEF IInv, NoWakeLost, Live, Spawning
<1>5. TypeOK' /\ OneAtWork' /\ NoWakeLost'
  BY <1>1, <1>3, <1>4 DEF IInv, TypeOK, OneAtWork, NoWakeLost
<1>6. \A j \in Runs : run'[j] \notin {"calling", "returned"}
  BY <1>3 DEF Live
<1> QED
  BY <1>5, <1>6 DEF IInv

(* IInv is an inductive invariant of the task.                             *)
THEOREM SingularInvariant == Spec => []IInv
<1>1. IInv /\ UNCHANGED vars => IInv'
  BY DEF IInv, vars, TypeOK, OneAtWork, NoWakeLost, Spawning, Live
<1>2. IInv /\ [Next]_vars => IInv'
  BY <1>1, BumpPreserves, SpawnPreserves, CallPreserves, FinishPreserves DEF Next
<1> QED
  BY SingularInit, <1>2, PTL DEF Spec

(* The count and the places stay in their types.                           *)
THEOREM SingularTypeOK == Spec => []TypeOK
BY SingularInvariant, PTL DEF IInv

(* However many threads wake it, the task never runs twice at once.        *)
THEOREM SingularRunsAlone == Spec => []RunsAlone
<1>1. IInv => RunsAlone
  BY DEF IInv, OneAtWork, Live, RunsAlone
<1> QED
  BY SingularInvariant, <1>1, PTL

(* However they race with its end, the task calls once more for each.      *)
THEOREM SingularNoWakeLost == Spec => []NoWakeLost
BY SingularInvariant, PTL DEF IInv

=============================================================================
