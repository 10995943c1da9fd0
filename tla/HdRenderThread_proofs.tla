------------------------ MODULE HdRenderThread_proofs ------------------------
(***************************************************************************)
(* Proofs about HdRenderThread for any number of Hydra threads, with or    *)
(* without spurious wake-ups.                                              *)
(***************************************************************************)
EXTENDS HdRenderThread, TLAPS

USE HydraAssumption DEF CallbackPCs, MainAlone

(* The invariant holds when the object has been constructed.               *)
LEMMA RenderInitHolds == Init => RenderInv
BY DEF Init, RenderInv, TypeOK, States, PCs, RtPCs, NobodyStopsOrEdits

(* Starting and stopping the thread keeps the invariant.                   *)
LEMMA ManageSteps ==
    ASSUME RenderInv, StartThread \/ StopThread \/ Terminate \/ Join
    PROVE  RenderInv'
<1> USE DEF RenderInv, TypeOK, NobodyStopsOrEdits, Goto, Notify, PCs, RtPCs,
            States, flagVars, pauseVars
<1>1. CASE StartThread
  BY <1>1 DEF StartThread
<1>2. CASE StopThread
  BY <1>2 DEF StopThread
<1>3. CASE Terminate
  BY <1>3 DEF Terminate
<1>4. CASE Join
  BY <1>4 DEF Join
<1> QED
  BY <1>1, <1>2, <1>3, <1>4

(* Starting a render, and pausing or resuming one, keeps the invariant.    *)
LEMMA StartSteps ==
    ASSUME RenderInv, StartRender \/ StartRenderLocked \/ PauseOrResume \/ StorePause
    PROVE  RenderInv'
<1> USE DEF RenderInv, TypeOK, NobodyStopsOrEdits, Goto, Notify, PCs, RtPCs,
            States, flagVars, pauseVars
<1>1. CASE StartRender
  BY <1>1 DEF StartRender
<1>2. CASE StartRenderLocked
  BY <1>2 DEF StartRenderLocked
<1>3. CASE PauseOrResume
  BY <1>3 DEF PauseOrResume
<1>4. CASE StorePause
  BY <1>4 DEF StorePause
<1> QED
  BY <1>1, <1>2, <1>3, <1>4

(* The render thread's own steps keep the invariant.                       *)
LEMMA LoopSteps ==
    ASSUME RenderInv,
           Lock \/ Test \/ WakeSpuriously \/ IsPauseRequested \/ IsPauseDirty
             \/ IsStopRequested \/ Work \/ CallbackReturned \/ SetIdle \/ Shutdown
    PROVE  RenderInv'
<1> USE DEF RenderInv, TypeOK, NobodyStopsOrEdits, Goto, Notify, PCs, RtPCs,
            States, flagVars, pauseVars
<1>1. CASE Lock
  BY <1>1 DEF Lock
<1>2. CASE Test
  BY <1>2 DEF Test
<1>3. CASE WakeSpuriously
  BY <1>3 DEF WakeSpuriously
<1>4. CASE IsPauseRequested
  BY <1>4 DEF IsPauseRequested
<1>5. CASE IsPauseDirty
  BY <1>5 DEF IsPauseDirty
<1>6. CASE IsStopRequested
  BY <1>6 DEF IsStopRequested
<1>7. CASE Work
  BY <1>7 DEF Work
<1>8. CASE CallbackReturned
  BY <1>8 DEF CallbackReturned
<1>9. CASE SetIdle
  BY <1>9 DEF SetIdle
<1>10. CASE Shutdown
  BY <1>10 DEF Shutdown
<1> QED
  BY <1>1, <1>2, <1>3, <1>4, <1>5, <1>6, <1>7, <1>8, <1>9, <1>10

(* Stopping a render, by any thread, keeps the invariant.                  *)
LEMMA StopSteps ==
    ASSUME RenderInv, NEW h \in Hydra,
           StopRender(h) \/ StopRenderClear(h) \/ StopRenderLocked(h) \/ EndEdit(h)
    PROVE  RenderInv'
<1> USE DEF RenderInv, TypeOK, NobodyStopsOrEdits, Goto, Notify, PCs, RtPCs,
            States, flagVars, pauseVars
<1>1. CASE StopRender(h)
  BY <1>1 DEF StopRender, MainAllowsStop
<1>2. CASE StopRenderClear(h)
  BY <1>2 DEF StopRenderClear, MainAllowsStop
<1>3. CASE StopRenderLocked(h)
  BY <1>3 DEF StopRenderLocked, MainAllowsStop
<1>4. CASE EndEdit(h)
  BY <1>4 DEF EndEdit, MainAllowsStop
<1> QED
  BY <1>1, <1>2, <1>3, <1>4

(* The strengthened invariant holds in every reachable state.              *)
THEOREM RenderInvariant == Spec => []RenderInv
<1>1. RenderInv /\ [Next]_vars => RenderInv'
  <2>1. RenderInv /\ UNCHANGED vars => RenderInv'
    BY DEF vars, RenderInv, TypeOK, NobodyStopsOrEdits, flagVars, pauseVars
  <2> QED
    BY <2>1, ManageSteps, StartSteps, LoopSteps, StopSteps DEF Next
<1> QED
  BY <1>1, RenderInitHolds, PTL DEF Spec

(* Types, and the render thread's hold on the mutex.                       *)
THEOREM RenderTypeOK == Spec => []TypeOK
<1>1. RenderInv => TypeOK
  BY DEF RenderInv
<1> QED
  BY <1>1, RenderInvariant, PTL

(* Nobody edits the scene while the callback runs.                         *)
THEOREM RenderEditsExcludeRendering == Spec => []EditsExcludeRendering
<1>1. RenderInv => EditsExcludeRendering
  BY DEF RenderInv, EditsExcludeRendering
<1> QED
  BY <1>1, RenderInvariant, PTL

(* A callback is told to stop only while somebody waits for it to stop.    *)
THEOREM RenderStopIsMeant == Spec => []StopIsMeantForThisRender
<1>1. RenderInv => StopIsMeantForThisRender
  BY DEF RenderInv, StopIsMeantForThisRender
<1> QED
  BY <1>1, RenderInvariant, PTL

(* IsRendering agrees with the requested state between calls.              *)
THEOREM RenderFlagIsRequested == Spec => []RenderingIsRequested
<1>1. RenderInv => RenderingIsRequested
  BY DEF RenderInv, TypeOK, RenderingIsRequested
<1> QED
  BY <1>1, RenderInvariant, PTL

=============================================================================
