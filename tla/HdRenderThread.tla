---------------------------- MODULE HdRenderThread ----------------------------
(***************************************************************************)
(* HdRenderThread (pxr/imaging/hd/renderThread.{h,cpp}): a background      *)
(* thread that renders while Hydra threads start, stop and pause it and    *)
(* edit the scene.  The render thread holds _requestedStateMutex for as    *)
(* long as the render callback runs; what Hydra wants meanwhile goes       *)
(* through atomics.                                                        *)
(*                                                                         *)
(* The clients keep to the header's contract: StartRender never runs at    *)
(* the same time as StopRender or as scene edits, and StartThread and      *)
(* StopThread never at the same time as anything else.                     *)
(***************************************************************************)
EXTENDS FiniteSets

CONSTANTS
    Hydra,      \* the Hydra threads
    Main,       \* the one of them that starts renders and the thread itself
    Rt,         \* the render thread, as the holder of the mutex
    Nobody,
    Calls,      \* the calls Main makes besides StartThread and StartRender
    SpuriousWakeups   \* whether the condition variable may wake by itself

AllCalls == {"StopThread", "PauseRender", "ResumeRender"}

ASSUME HydraAssumption == Main \in Hydra /\ {Rt, Nobody} \cap Hydra = {} /\ Rt # Nobody
ASSUME RenderCallsAssumption ==
    Calls \subseteq AllCalls /\ SpuriousWakeups \in BOOLEAN

VARIABLES
    requestedState,   \* _requestedState, protected by the mutex
    mutex,            \* who holds _requestedStateMutex between two steps
    enableRender,     \* _enableRender
    stopRequested,    \* _stopRequested, used by the render thread only
    rendering,        \* _rendering
    pauseRender,      \* _pauseRender
    pauseDirty,       \* _pauseDirty
    seenPause,        \* _pauseRender when IsPauseDirty was last called
    pc,               \* where each Hydra thread is
    rt                \* where the render thread is

pauseVars == <<pauseRender, pauseDirty, seenPause>>
flagVars == <<enableRender, stopRequested, rendering>>
vars == <<requestedState, mutex, flagVars, pauseVars, pc, rt>>

States == {"Initial", "Idle", "Rendering", "Terminated"}
CallbackPCs == {"callback", "paused", "poll", "work"}
RtPCs == {"none", "lock", "test", "wait", "returned", "setIdle", "shutdown",
          "done"} \cup CallbackPCs
PCs == {"idle", "editing", "stopClear", "stopLock", "startLock", "termLock",
        "join", "setPause", "clearPause"}

TypeOK ==
    /\ requestedState \in States
    /\ mutex \in {Rt, Nobody}
    /\ mutex = Rt <=> rt \in {"test", "returned", "setIdle"} \cup CallbackPCs
    /\ enableRender \in BOOLEAN /\ stopRequested \in BOOLEAN
    /\ rendering \in BOOLEAN
    /\ pauseRender \in BOOLEAN /\ pauseDirty \in BOOLEAN
    /\ seenPause \in BOOLEAN
    /\ pc \in [Hydra -> PCs]
    /\ rt \in RtPCs

(* _enableRender is not initialized: a default atomic_flag may be either.  *)
Init ==
    /\ requestedState = "Initial"
    /\ mutex = Nobody
    /\ enableRender \in BOOLEAN
    /\ stopRequested = FALSE /\ rendering = FALSE
    /\ pauseRender = FALSE /\ pauseDirty = FALSE /\ seenPause = FALSE
    /\ pc = [h \in Hydra |-> "idle"]
    /\ rt = "none"

Goto(h, label) == pc' = [pc EXCEPT ![h] = label]

(* notify_one, with the mutex held.                                        *)
Notify == rt' = IF rt = "wait" THEN "lock" ELSE rt

NobodyStopsOrEdits == \A h \in Hydra \ {Main} : pc[h] = "idle"

-----------------------------------------------------------------------------
(* Managing the thread.                                                    *)

StartThread ==
    /\ pc[Main] = "idle" /\ NobodyStopsOrEdits
    /\ rt = "none"
    /\ requestedState' = "Idle"
    /\ rt' = "lock"
    /\ UNCHANGED <<mutex, flagVars, pauseVars, pc>>

StopThread ==
    /\ "StopThread" \in Calls
    /\ pc[Main] = "idle" /\ NobodyStopsOrEdits
    /\ rt # "none"
    /\ enableRender' = FALSE
    /\ Goto(Main, "termLock")
    /\ UNCHANGED <<requestedState, mutex, stopRequested, rendering, pauseVars, rt>>

Terminate ==
    /\ pc[Main] = "termLock"
    /\ mutex = Nobody
    /\ requestedState' = "Terminated"
    /\ rendering' = FALSE
    /\ Notify
    /\ Goto(Main, "join")
    /\ UNCHANGED <<mutex, enableRender, stopRequested, pauseVars>>

Join ==
    /\ pc[Main] = "join"
    /\ rt = "done"
    /\ rt' = "none"
    /\ Goto(Main, "idle")
    /\ UNCHANGED <<requestedState, mutex, flagVars, pauseVars>>

-----------------------------------------------------------------------------
(* Starting and stopping a render.                                         *)

StartRender ==
    /\ pc[Main] = "idle" /\ NobodyStopsOrEdits
    /\ rt # "none"
    /\ ~rendering
    /\ Goto(Main, "startLock")
    /\ UNCHANGED <<requestedState, mutex, flagVars, pauseVars, rt>>

StartRenderNoNotify ==
    /\ pc[Main] = "startLock"
    /\ mutex = Nobody
    /\ enableRender' = TRUE
    /\ requestedState' = "Rendering"
    /\ rendering' = TRUE
    /\ Goto(Main, "idle")
    /\ UNCHANGED <<mutex, stopRequested, pauseVars, rt>>

StartRenderLocked ==
    /\ pc[Main] = "startLock"
    /\ mutex = Nobody
    /\ enableRender' = TRUE
    /\ requestedState' = "Rendering"
    /\ rendering' = TRUE
    /\ Notify
    /\ Goto(Main, "idle")
    /\ UNCHANGED <<mutex, stopRequested, pauseVars>>

MainAllowsStop == pc[Main] \in {"idle", "editing", "stopClear", "stopLock",
                                "setPause", "clearPause"}

(* StopRender, before a scene edit: the check, the flag, the state.        *)
StopRender(h) ==
    /\ pc[h] = "idle"
    /\ MainAllowsStop
    /\ Goto(h, IF rendering THEN "stopClear" ELSE "editing")
    /\ UNCHANGED <<requestedState, mutex, flagVars, pauseVars, rt>>

StopRenderNoClear(h) ==
    /\ pc[h] = "stopClear"
    /\ Goto(h, "stopLock")
    /\ UNCHANGED <<requestedState, mutex, flagVars, pauseVars, rt>>

StopRenderClear(h) ==
    /\ pc[h] = "stopClear"
    /\ enableRender' = FALSE
    /\ Goto(h, "stopLock")
    /\ UNCHANGED <<requestedState, mutex, stopRequested, rendering, pauseVars, rt>>

StopRenderUnlocked(h) ==
    /\ pc[h] = "stopLock"
    /\ requestedState' = "Idle"
    /\ rendering' = FALSE
    /\ Goto(h, "editing")
    /\ UNCHANGED <<mutex, enableRender, stopRequested, pauseVars, rt>>

StopRenderLocked(h) ==
    /\ pc[h] = "stopLock"
    /\ mutex = Nobody
    /\ requestedState' = "Idle"
    /\ rendering' = FALSE
    /\ Goto(h, "editing")
    /\ UNCHANGED <<mutex, enableRender, stopRequested, pauseVars, rt>>

EndEdit(h) ==
    /\ pc[h] = "editing"
    /\ Goto(h, "idle")
    /\ UNCHANGED <<requestedState, mutex, flagVars, pauseVars, rt>>

(* PauseRender and ResumeRender: the dirty flag, then the state.           *)
PauseOrResume ==
    /\ pc[Main] = "idle"
    /\ \/ "PauseRender" \in Calls /\ Goto(Main, "setPause")
       \/ "ResumeRender" \in Calls /\ Goto(Main, "clearPause")
    /\ pauseDirty' = TRUE
    /\ UNCHANGED <<requestedState, mutex, flagVars, pauseRender, seenPause, rt>>

StorePause ==
    /\ pc[Main] \in {"setPause", "clearPause"}
    /\ pauseRender' = (pc[Main] = "setPause")
    /\ Goto(Main, "idle")
    /\ UNCHANGED <<requestedState, mutex, flagVars, pauseDirty, seenPause, rt>>

-----------------------------------------------------------------------------
(* The render thread.                                                      *)

Lock ==
    /\ rt = "lock"
    /\ mutex = Nobody
    /\ mutex' = Rt
    /\ rt' = "test"
    /\ UNCHANGED <<requestedState, flagVars, pauseVars, pc>>

(* The wait's predicate, and the branches after it.  The thread runs only  *)
(* once StartThread has left the initial state.                            *)
Test ==
    /\ rt = "test"
    /\ rt' = CASE requestedState = "Idle" -> "wait"
               [] requestedState = "Rendering" -> "callback"
               [] requestedState = "Terminated" -> "shutdown"
    /\ mutex' = IF requestedState = "Rendering" THEN Rt ELSE Nobody
    /\ UNCHANGED <<requestedState, flagVars, pauseVars, pc>>

WakeSpuriously ==
    /\ SpuriousWakeups
    /\ rt = "wait"
    /\ rt' = "lock"
    /\ UNCHANGED <<requestedState, mutex, flagVars, pauseVars, pc>>

(* The render callback, as its documentation and the Embree delegate write *)
(* it: a pause point, a cancellation point, work, again until complete.    *)
IsPauseRequested ==
    /\ rt = "callback"
    /\ rt' = IF pauseRender THEN "paused" ELSE "poll"
    /\ UNCHANGED <<requestedState, mutex, flagVars, pauseVars, pc>>

IsPauseDirty ==
    /\ rt = "callback"
    /\ pauseDirty' = FALSE
    /\ seenPause' = pauseRender
    /\ UNCHANGED <<requestedState, mutex, flagVars, pauseRender, pc, rt>>

(* test_and_set on the flag, which is remembered: the flag is set again.   *)
IsStopRequested ==
    /\ rt \in {"paused", "poll"}
    /\ enableRender' = TRUE
    /\ stopRequested' = (stopRequested \/ ~enableRender)
    /\ rt' = CASE stopRequested' -> IF rt = "paused" THEN "poll" ELSE "returned"
               [] OTHER -> IF rt = "paused" THEN "callback" ELSE "work"
    /\ UNCHANGED <<requestedState, mutex, rendering, pauseVars, pc>>

Work ==
    /\ rt = "work"
    /\ rt' \in {"callback", "returned"}
    /\ UNCHANGED <<requestedState, mutex, flagVars, pauseVars, pc>>

(* After the callback: others see _rendering before the state is idle.     *)
CallbackReturnedKeepsStop ==
    /\ rt = "returned"
    /\ rendering' = FALSE
    /\ rt' = "setIdle"
    /\ UNCHANGED <<requestedState, mutex, enableRender, stopRequested, pauseVars, pc>>

CallbackReturned ==
    /\ rt = "returned"
    /\ stopRequested' = FALSE
    /\ rendering' = FALSE
    /\ rt' = "setIdle"
    /\ UNCHANGED <<requestedState, mutex, enableRender, pauseVars, pc>>

SetIdle ==
    /\ rt = "setIdle"
    /\ requestedState' = "Idle"
    /\ mutex' = Nobody
    /\ rt' = "lock"
    /\ UNCHANGED <<flagVars, pauseVars, pc>>

Shutdown ==
    /\ rt = "shutdown"
    /\ rt' = "done"
    /\ UNCHANGED <<requestedState, mutex, flagVars, pauseVars, pc>>

-----------------------------------------------------------------------------

RenderLoop ==
    \/ Lock \/ Test \/ IsPauseRequested \/ IsStopRequested \/ Work
    \/ CallbackReturned \/ SetIdle \/ Shutdown

MainCall == Terminate \/ Join \/ StartRenderLocked \/ StorePause

HydraCall(h) == StopRenderClear(h) \/ StopRenderLocked(h)

Next ==
    \/ StartThread \/ StopThread \/ Terminate \/ Join
    \/ StartRender \/ StartRenderLocked \/ PauseOrResume \/ StorePause
    \/ \E h \in Hydra : StopRender(h) \/ StopRenderClear(h)
                          \/ StopRenderLocked(h) \/ EndEdit(h)
    \/ Lock \/ Test \/ WakeSpuriously \/ IsPauseRequested \/ IsPauseDirty
    \/ IsStopRequested \/ Work \/ CallbackReturned \/ SetIdle \/ Shutdown

Spec == Init /\ [][Next]_vars

(* The render loop and every call under way take their steps, and the      *)
(* condition variable does not wake by itself for ever.  Nothing makes a   *)
(* callback complete, a client resume, or an edit begin.                   *)
Fairness ==
    /\ WF_vars(RenderLoop)
    /\ WF_vars(MainCall)
    /\ \A h \in Hydra : WF_vars(HydraCall(h))
    /\ <>[][~WakeSpuriously]_vars

FairSpec == Spec /\ Fairness

-----------------------------------------------------------------------------
(* Properties.                                                             *)

(* What StopRender is for (renderThread.h:87, AcquireSceneForEdit): while  *)
(* a thread edits the scene the callback does not run, whichever thread    *)
(* stopped it.                                                             *)
EditsExcludeRendering ==
    (\E h \in Hydra : pc[h] = "editing") => rt \notin CallbackPCs

(* A callback is told to stop only while a StopRender or StopThread waits  *)
(* for it: a stop meant for an earlier render never reaches a later one,   *)
(* although _enableRender may stay cleared in between.                     *)
StopIsMeantForThisRender ==
    (rt \in CallbackPCs \ {"work"} /\ (stopRequested \/ ~enableRender)) =>
        \E h \in Hydra : pc[h] \in {"stopLock", "termLock"}

(* IsRendering means what its comment says (renderThread.h:201): with no   *)
(* call under way it is true exactly when a callback is requested.         *)
RenderingIsRequested ==
    (mutex = Nobody /\ pc[Main] # "join" /\ rt # "none") =>
        (rendering <=> requestedState = "Rendering")

(* A started render runs or is stopped: the wake-up is not lost, and the   *)
(* end of the previous callback does not overwrite the request.            *)
StartedRenderRuns == rendering ~> (rt \in CallbackPCs \/ ~rendering)

(* StopRender and StopThread return, also from a callback that is paused   *)
(* or would never complete.                                                *)
StopReturns ==
    \A h \in Hydra :
        pc[h] \in {"stopClear", "stopLock", "termLock", "join"}
            ~> pc[h] \in {"idle", "editing"}

(* The inductive strengthening.  The render thread renders what it was     *)
(* asked to; a Main call that needs the others idle has them idle; a stop  *)
(* that nobody waits for is one nobody can see.                            *)
MainAlone == {"startLock", "termLock", "join"}

RenderInv ==
    /\ TypeOK
    /\ pc[Main] \in MainAlone => NobodyStopsOrEdits
    /\ rt \in CallbackPCs \cup {"returned"} =>
          rendering /\ requestedState = "Rendering"
    /\ rt = "setIdle" => ~rendering /\ requestedState = "Rendering"
    /\ rt \in {"shutdown", "done"} => pc[Main] = "join"
    /\ rt = "none" => ~rendering /\ pc[Main] \notin MainAlone
    /\ rt # "none" => requestedState # "Initial"
    /\ pc[Main] = "join" => ~rendering /\ requestedState = "Terminated"
    /\ rt # "none" /\ requestedState = "Terminated" => pc[Main] = "join"
    /\ rt \notin {"none", "setIdle"} /\ pc[Main] # "join" =>
          (rendering <=> requestedState = "Rendering")
    /\ \A h \in Hydra : pc[h] = "editing" => ~rendering
    /\ \A h \in Hydra \ {Main} :
          pc[h] \in {"idle", "editing", "stopClear", "stopLock"}
    /\ stopRequested => rt \in CallbackPCs \cup {"returned"}
    /\ rendering /\ (stopRequested \/ ~enableRender) =>
          \E h \in Hydra : pc[h] \in {"stopLock", "termLock"}

-----------------------------------------------------------------------------
(* What the header says, and the code does not do.                         *)

(* renderThread.h:166: after StopThread returns, "the rendering state      *)
(* machine will be back in its initial state".                             *)
StoppedThreadIsInitial ==
    (rt = "none" /\ pc[Main] = "idle") => requestedState = "Initial"

(* renderThread.h:241: IsPauseDirty tells "whether the pause/resume state  *)
(* has changed since the last time we called IsPauseDirty".  The dirty     *)
(* flag is raised before the state changes, so a query in between takes    *)
(* the flag and misses the change.                                         *)
PauseChangeIsDirty ==
    (pc[Main] \notin {"setPause", "clearPause"} /\ pauseRender # seenPause)
        => pauseDirty

=============================================================================
