---------------------------- MODULE RenderThread ----------------------------
(***************************************************************************)
(* src/core/public/app/avk-application.h and avk-application.cpp: the      *)
(* render thread (RTmain) and the update thread (UTmain), and the          *)
(* RenderCoordinator through which the platform's main thread talks to     *)
(* them.  A main thread is added by AndroidMain and by MacMain.            *)
(*                                                                         *)
(* A condition variable is modelled with its window: a waiter evaluates    *)
(* its predicate, dozes off, and only then hears notifications, because    *)
(* the setters notify without holding the mutex.  A frame is reduced to    *)
(* the outcomes of vkAcquireNextImageKHR and vkQueuePresentKHR that change *)
(* what the thread does next; GPU resources are not part of this module.   *)
(***************************************************************************)
EXTENDS Integers

CONSTANTS Threads,      \* a render and an update thread are created in pairs
          Desktop,      \* the derived class: desktop, or Android
          MaxVersion,   \* bound: stateVersion is not counted further
          FixedDelta,   \* TimeInfo::FixedDeltaTime
          MaxDelta,     \* TimeInfo::MaximumDeltaTime
          Elapsed       \* what may have passed between two updates, scaled

ASSUME RenderThreadAssumption ==
  /\ Desktop \in BOOLEAN /\ MaxVersion \in Nat
  /\ FixedDelta \in Nat \ {0} /\ MaxDelta \in Nat /\ FixedDelta < MaxDelta
  /\ Elapsed \subseteq Nat

VARIABLES alive,         \* the process has neither exited nor been killed
          windowInit,    \* m_windowInit
          surfaceLost,   \* RenderCoordinator::surfaceLost
          renderRunning, \* RenderCoordinator::renderRunning
          stateVersion, consumedVersion,
          shouldRender,  \* m_shouldRender
          stillResizing, \* Swapchain::m_stillResizing
          shouldUpdate,  \* UpdateCoordinator::updateShouldRun
          window,        \* the platform gives the application a window
          ahead,         \* TimeInfo: m_lastUpdate - m_lastFixedUpdate
          camera,        \* the state m_RTcamera.view belongs to, or the Placeholder
          rt,            \* thread -> [pc, last, latest] of RTmain
          ut             \* thread -> pc of UTmain

renderVars == <<windowInit, surfaceLost, renderRunning, stateVersion,
                consumedVersion, shouldRender, stillResizing>>
sharedVars == <<shouldUpdate, window, ahead, camera>>
coreVars == <<alive, renderVars, sharedVars, rt, ut>>

RenderPCs == {"none", "init", "initialized", "start", "test", "check", "lost",
              "lostWait", "lostDoze", "lostAsleep", "regain", "load", "compare",
              "claim", "acquire", "record", "resize", "present", "wait", "doze",
              "asleep", "ack", "leaving", "exited"}

UpdatePCs == {"none", "test", "fixed", "link", "signal", "clear", "exited"}

RenderAt(r, label) == alive /\ rt[r].pc = label
RenderGoto(r, label) == rt' = [rt EXCEPT ![r].pc = label]
UpdateAt(u, label) == alive /\ ut[u] = label
UpdateGoto(u, label) == ut' = [ut EXCEPT ![u] = label]

Running(r) == rt[r].pc \notin {"none", "exited"}

-----------------------------------------------------------------------------
(* Deliberate slips, used only to show that the properties notice them:    *)
(* each stands in for the definition of the same stem further down.        *)
TimesOut_Never == FALSE
Newer_ByMore(latest, last) == latest > last + 1
UTshouldRun_Always == TRUE
RTshouldRun_Always == TRUE
needsFixedUpdate_Strict == FixedDelta < ahead
ViewAtUpdate_Late == stateVersion

\* cv.wait_for: MaxWaitMillis, TimeoutWakeupMillis
TimesOut == TRUE

\* RTshouldUpdate: latestState > lastConsumed
Newer(latest, last) == latest > last

\* the predicate of RTwaitForNextRound
WakesUp == surfaceLost \/ ~renderRunning \/ stateVersion > consumedVersion

RTshouldRun == renderRunning

UTshouldRun == shouldUpdate

\* fetch_add(1); the bound leaves later updates uncounted
NextVersion == IF stateVersion < MaxVersion THEN stateVersion + 1 ELSE stateVersion

\* std::min(deltaScaled, MaximumDeltaTime)
Capped(delta) == IF delta < MaxDelta THEN delta ELSE MaxDelta

\* m_lastFixedUpdate + fixedDelta <= m_lastUpdate
needsFixedUpdate == FixedDelta <= ahead

\* createConstantVulkanResources: "useless, overridden by update thread
\* initialization", and written without m_swapState
Placeholder == 0

\* m_UTcamera, copied under m_swapState before the state it shows is signalled
ViewAtUpdate == NextVersion

Created == [pc |-> "init", last |-> 0, latest |-> 0]

\* cv.notify_all reaches the threads that are already asleep
Notified(threads) ==
  [r \in Threads |-> [threads[r] EXCEPT !.pc = CASE @ = "asleep" -> "wait"
                                                 [] @ = "lostAsleep" -> "lostWait"
                                                 [] OTHER -> @]]

-----------------------------------------------------------------------------
CoreInit ==
  /\ alive = TRUE
  /\ windowInit = FALSE
  /\ surfaceLost = FALSE
  /\ renderRunning = FALSE
  /\ stateVersion = 0 /\ consumedVersion = 0
  /\ shouldRender = FALSE
  /\ stillResizing = FALSE
  /\ shouldUpdate = TRUE
  /\ window = FALSE
  /\ ahead = 0 /\ camera = 0
  /\ rt = [r \in Threads |-> [Created EXCEPT !.pc = "none"]]
  /\ ut = [u \in Threads |-> "none"]

-----------------------------------------------------------------------------
(* RTwindowInit *)

\* Surface::Surface: without a window, showErrorScreenAndExit; and then the
\* resources, of which the other threads can only see the camera
CreateSurface(r) ==
  /\ RenderAt(r, "init")
  /\ IF window THEN RenderGoto(r, "initialized") /\ camera' = Placeholder /\ UNCHANGED alive
               ELSE alive' = FALSE /\ UNCHANGED <<rt, camera>>
  /\ UNCHANGED <<renderVars, shouldUpdate, window, ahead, ut>>

SetWindowInit(r) ==
  /\ RenderAt(r, "initialized")
  /\ windowInit' = TRUE
  /\ RenderGoto(r, "start")
  /\ UNCHANGED <<alive, surfaceLost, renderRunning, stateVersion, consumedVersion,
                 shouldRender, stillResizing, sharedVars, ut>>

StartRendering(r) ==
  /\ RenderAt(r, "start")
  /\ renderRunning' = TRUE
  /\ RenderGoto(r, "test")
  /\ UNCHANGED <<alive, windowInit, surfaceLost, stateVersion, consumedVersion,
                 shouldRender, stillResizing, sharedVars, ut>>

-----------------------------------------------------------------------------
(* RTmain *)

TestRunning(r) ==
  /\ RenderAt(r, "test")
  /\ RenderGoto(r, IF RTshouldRun THEN "check" ELSE "ack")
  /\ UNCHANGED <<alive, renderVars, sharedVars, ut>>

\* RTsurfaceWasLost
CheckSurface(r) ==
  /\ RenderAt(r, "check")
  /\ RenderGoto(r, IF surfaceLost THEN "lost" ELSE "load")
  /\ UNCHANGED <<alive, renderVars, sharedVars, ut>>

\* RTshouldUpdate reads the two versions one after the other ...
LoadConsumed(r) ==
  /\ RenderAt(r, "load")
  /\ rt' = [rt EXCEPT ![r].pc = "compare", ![r].last = consumedVersion]
  /\ UNCHANGED <<alive, renderVars, sharedVars, ut>>

CompareVersions(r) ==
  /\ RenderAt(r, "compare")
  /\ rt' = [rt EXCEPT ![r].pc = IF Newer(stateVersion, rt[r].last) THEN "claim" ELSE "wait",
                      ![r].latest = stateVersion]
  /\ UNCHANGED <<alive, renderVars, sharedVars, ut>>

\* ... and claims the state with a compare-and-swap
ClaimVersion(r) ==
  LET won == consumedVersion = rt[r].last IN
  /\ RenderAt(r, "claim")
  /\ consumedVersion' = IF won THEN rt[r].latest ELSE consumedVersion
  /\ rt' = [rt EXCEPT ![r] = [Created EXCEPT !.pc = IF won THEN "acquire" ELSE "wait"]]
  /\ UNCHANGED <<alive, windowInit, surfaceLost, renderRunning, stateVersion,
                 shouldRender, stillResizing, sharedVars, ut>>

(* RTwaitForNextRound.  What the wait returns is ignored: RTmain tests     *)
(* everything again after a notification as after a timeout.               *)
EvaluateWait(r) ==
  /\ RenderAt(r, "wait")
  /\ RenderGoto(r, IF WakesUp THEN "test" ELSE "doze")
  /\ UNCHANGED <<alive, renderVars, sharedVars, ut>>

DozeOff(r) ==
  /\ RenderAt(r, "doze")
  /\ RenderGoto(r, "asleep")
  /\ UNCHANGED <<alive, renderVars, sharedVars, ut>>

TimeOut(r) ==
  /\ RenderAt(r, "asleep") /\ TimesOut
  /\ RenderGoto(r, "test")
  /\ UNCHANGED <<alive, renderVars, sharedVars, ut>>

\* RTsignalExit; the application object is not used any more
SignalExit(r) ==
  /\ RenderAt(r, "ack")
  /\ renderRunning' = TRUE
  /\ RenderGoto(r, "leaving")
  /\ UNCHANGED <<alive, windowInit, surfaceLost, stateVersion, consumedVersion,
                 shouldRender, stillResizing, sharedVars, ut>>

ExitRender(r) ==
  /\ RenderAt(r, "leaving")
  /\ RenderGoto(r, "exited")
  /\ UNCHANGED <<alive, renderVars, sharedVars, ut>>

-----------------------------------------------------------------------------
(* RTsurfaceLost, called by RTmain and, on the desktop, by RTonRender.  A  *)
(* desktop class answers RTdoOnSurfaceLost by showErrorScreenAndExit.  No  *)
(* frame is ever rendered on Android, where nothing signals a new state.   *)

EnterSurfaceLost(r) ==
  /\ RenderAt(r, "lost")
  /\ IF Desktop THEN alive' = FALSE /\ UNCHANGED rt
                ELSE RenderGoto(r, "lostWait") /\ UNCHANGED alive
  /\ UNCHANGED <<renderVars, sharedVars, ut>>

\* the loop condition, then the predicate of the wait: the same test twice
EvaluateLost(r) ==
  /\ RenderAt(r, "lostWait")
  /\ RenderGoto(r, IF surfaceLost THEN "lostDoze" ELSE "regain")
  /\ UNCHANGED <<alive, renderVars, sharedVars, ut>>

DozeOffLost(r) ==
  /\ RenderAt(r, "lostDoze")
  /\ RenderGoto(r, "lostAsleep")
  /\ UNCHANGED <<alive, renderVars, sharedVars, ut>>

TimeOutLost(r) ==
  /\ RenderAt(r, "lostAsleep") /\ TimesOut
  /\ RenderGoto(r, "lostWait")
  /\ UNCHANGED <<alive, renderVars, sharedVars, ut>>

\* RThandleSurfaceLost: a new surface, and a new Swapchain object
HandleSurfaceLost(r) ==
  /\ RenderAt(r, "regain")
  /\ IF window THEN RenderGoto(r, "load") /\ stillResizing' = FALSE /\ UNCHANGED alive
               ELSE alive' = FALSE /\ UNCHANGED <<rt, stillResizing>>
  /\ UNCHANGED <<windowInit, surfaceLost, renderRunning, stateVersion, consumedVersion,
                 shouldRender, sharedVars, ut>>

-----------------------------------------------------------------------------
(* RTonRender *)

Outcomes == {"ok", "resize", "surfaceLost"}

Acquire(r) ==
  /\ RenderAt(r, "acquire")
  /\ IF shouldRender
     THEN \E res \in Outcomes :
            RenderGoto(r, CASE res = "ok" -> "record"
                            [] res = "resize" -> "resize"
                            [] res = "surfaceLost" -> "lost")
     ELSE RenderGoto(r, "test")
  /\ UNCHANGED <<alive, renderVars, sharedVars, ut>>

\* RTdoOnRender: pushConst = m_RTcamera, under m_swapState
ReadCamera(r) ==
  /\ RenderAt(r, "record")
  /\ RenderGoto(r, "present")
  /\ UNCHANGED <<alive, renderVars, sharedVars, ut>>

\* RTdoOnRender has submitted the frame, or finds the device lost: a desktop
\* class answers RTdoOnDeviceLost by showErrorScreenAndExit
LoseDevice(r) ==
  /\ RenderAt(r, "present")
  /\ alive' = FALSE
  /\ UNCHANGED <<renderVars, sharedVars, rt, ut>>

Present(r) ==
  /\ RenderAt(r, "present")
  /\ \E res \in Outcomes :
       RenderGoto(r, CASE res = "ok" -> "test"
                       [] res = "resize" -> "resize"
                       [] res = "surfaceLost" -> "lost")
  /\ UNCHANGED <<alive, renderVars, sharedVars, ut>>

\* onResize: recreateSwapchain waits for the end of the live resize
RecreateSwapchain(r) ==
  /\ RenderAt(r, "resize")
  /\ ~stillResizing
  /\ RenderGoto(r, "test")
  /\ UNCHANGED <<alive, renderVars, sharedVars, ut>>

RenderStep(r) ==
  \/ CreateSurface(r) \/ SetWindowInit(r) \/ StartRendering(r)
  \/ TestRunning(r) \/ CheckSurface(r)
  \/ LoadConsumed(r) \/ CompareVersions(r) \/ ClaimVersion(r)
  \/ EvaluateWait(r) \/ DozeOff(r) \/ TimeOut(r)
  \/ SignalExit(r) \/ ExitRender(r)
  \/ EnterSurfaceLost(r) \/ EvaluateLost(r) \/ DozeOffLost(r) \/ TimeOutLost(r)
  \/ HandleSurfaceLost(r)
  \/ Acquire(r) \/ ReadCamera(r) \/ LoseDevice(r) \/ Present(r) \/ RecreateSwapchain(r)

-----------------------------------------------------------------------------
(* UTmain; UTonUpdate, once the fixed updates have caught up, belongs to   *)
(* the derived class                                                       *)

\* UTshouldRun, and TimeInfo::UTupdate
TestUpdating(u) ==
  /\ UpdateAt(u, "test")
  /\ \/ /\ UTshouldRun
        /\ \E delta \in Elapsed : ahead' = ahead + Capped(delta)
        /\ UpdateGoto(u, "fixed")
     \/ /\ ~UTshouldRun
        /\ UpdateGoto(u, "exited")
        /\ UNCHANGED ahead
  /\ UNCHANGED <<alive, renderVars, shouldUpdate, window, camera, rt>>

\* UTfixedUpdate, and a UTdoOnFixedUpdate which is empty on all platforms
FixedUpdate(u) ==
  /\ UpdateAt(u, "fixed") /\ needsFixedUpdate
  /\ ahead' = ahead - FixedDelta
  /\ UNCHANGED <<alive, renderVars, shouldUpdate, window, camera, rt, ut>>

\* UTdoOnUpdate up to the camera it leaves to the render thread
UpdateCamera(u, label) ==
  /\ UpdateAt(u, "fixed") /\ ~needsFixedUpdate
  /\ camera' = ViewAtUpdate
  /\ UpdateGoto(u, label)
  /\ UNCHANGED <<alive, renderVars, shouldUpdate, window, ahead, rt>>

signalStateUpdated ==
  /\ stateVersion' = NextVersion
  /\ rt' = Notified(rt)
  /\ UNCHANGED <<alive, windowInit, surfaceLost, renderRunning, consumedVersion,
                 shouldRender, stillResizing, sharedVars>>

-----------------------------------------------------------------------------
(* What the main thread calls *)

signalStopRendering ==
  /\ renderRunning' = FALSE
  /\ rt' = Notified(rt)
  /\ UNCHANGED <<alive, windowInit, surfaceLost, stateVersion, consumedVersion,
                 shouldRender, stillResizing, sharedVars, ut>>

signalStopUpdating ==
  /\ shouldUpdate' = FALSE
  /\ UNCHANGED <<alive, renderVars, window, ahead, camera, rt, ut>>

\* pauseRendering, resumeRendering
setRendering(on) ==
  /\ shouldRender' = on
  /\ UNCHANGED <<alive, windowInit, surfaceLost, renderRunning, stateVersion,
                 consumedVersion, stillResizing, sharedVars, rt, ut>>

\* pthread_create, twice
CreateThreads(t) ==
  /\ rt[t].pc = "none"
  /\ rt' = [rt EXCEPT ![t] = Created]
  /\ UpdateGoto(t, "test")
  /\ UNCHANGED <<alive, renderVars, sharedVars>>

-----------------------------------------------------------------------------
(* The types of the variables declared here. *)
CoreTypeOK ==
  /\ {alive, windowInit, surfaceLost, renderRunning, shouldRender, stillResizing,
      shouldUpdate, window} \subseteq BOOLEAN
  /\ stateVersion \in 0 .. MaxVersion
  /\ consumedVersion \in 0 .. MaxVersion
  /\ ahead \in Nat
  /\ camera \in 0 .. MaxVersion
  /\ rt \in [Threads -> [pc : RenderPCs, last : 0 .. MaxVersion, latest : 0 .. MaxVersion]]
  /\ ut \in [Threads -> UpdatePCs]
=============================================================================
