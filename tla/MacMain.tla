------------------------------ MODULE MacMain ------------------------------
(***************************************************************************)
(* src/launcher/macos/avk-primary-window.mm and avk-macos-application.cpp: *)
(* the AppKit main thread, whose window outlives both application threads, *)
(* and the display link that paces the update thread.                      *)
(***************************************************************************)
EXTENDS RenderThread

ASSUME MacAssumption == Desktop

VARIABLES main,             \* [pc, live]: live is a live resize of the window
          displayLinkReady  \* m_displayLinkReady

vars == <<coreVars, main, displayLinkReady>>

MainPCs == {"loading", "loop", "pause", "stop", "join", "stopUpdate", "joinUpdate",
            "destroyed"}

MainAt(label) == alive /\ main.pc = label
MainGoto(label) == main' = [main EXCEPT !.pc = label]

Init ==
  /\ CoreInit
  /\ main = [pc |-> "loading", live |-> FALSE]
  /\ displayLinkReady = FALSE

-----------------------------------------------------------------------------
\* onEnterResize, onExitResize: no swapchain before windowInitializedOnce
LockedResize(on) == IF windowInit THEN on ELSE stillResizing

-----------------------------------------------------------------------------
(* AVKVulkanViewController and AVKVulkanAppBridge *)

\* viewDidLoad
ViewDidLoad ==
  /\ MainAt("loading")
  /\ window' = TRUE
  /\ \E t \in Threads : /\ rt' = [rt EXCEPT ![t] = Created]
                        /\ UpdateGoto(t, "test")
  /\ MainGoto("loop")
  /\ UNCHANGED <<alive, renderVars, shouldUpdate, ahead, camera, displayLinkReady>>

\* metalViewDrawRequest: signalDisplayLinkReady
DisplayLinkFires ==
  /\ MainAt("loop")
  /\ displayLinkReady' = TRUE
  /\ UNCHANGED <<coreVars, main>>

\* viewBecameFirstResponder, viewResignedFirstResponder
ChangeFocus ==
  /\ MainAt("loop")
  /\ setRendering(~shouldRender)
  /\ UNCHANGED <<main, displayLinkReady>>

\* metalViewWillStartLiveResize, metalViewDidEndLiveResize
LiveResize ==
  /\ MainAt("loop")
  /\ stillResizing' = LockedResize(~main.live)
  /\ main' = [main EXCEPT !.live = ~@]
  /\ UNCHANGED <<alive, windowInit, surfaceLost, renderRunning, stateVersion,
                 consumedVersion, shouldRender, sharedVars, rt, ut,
                 displayLinkReady>>

\* viewDidDisappear: stopDisplayLink, pauseRendering, then the two joins
Close ==
  /\ MainAt("loop") /\ ~main.live
  /\ MainGoto("pause")
  /\ UNCHANGED <<coreVars, displayLinkReady>>

Pause ==
  /\ MainAt("pause")
  /\ setRendering(FALSE)
  /\ MainGoto("stop")
  /\ UNCHANGED displayLinkReady

Stop ==
  /\ MainAt("stop")
  /\ signalStopRendering
  /\ MainGoto("join")
  /\ UNCHANGED displayLinkReady

Join ==
  /\ MainAt("join")
  /\ \A t \in Threads : rt[t].pc \in {"none", "exited"}
  /\ MainGoto("stopUpdate")
  /\ UNCHANGED <<coreVars, displayLinkReady>>

StopUpdate ==
  /\ MainAt("stopUpdate")
  /\ signalStopUpdating
  /\ MainGoto("joinUpdate")
  /\ UNCHANGED displayLinkReady

\* ... and applicationWillTerminate deletes the application
JoinUpdate ==
  /\ MainAt("joinUpdate")
  /\ \A t \in Threads : ut[t] \in {"none", "exited"}
  /\ MainGoto("destroyed")
  /\ UNCHANGED <<coreVars, displayLinkReady>>

CloseStep == Pause \/ Stop \/ Join \/ StopUpdate \/ JoinUpdate

MainStep == ViewDidLoad \/ DisplayLinkFires \/ ChangeFocus \/ LiveResize \/ Close \/ CloseStep

-----------------------------------------------------------------------------
(* UTdoOnUpdate: the wait for the display link, and what follows it *)

Update(u) ==
  /\ UpdateCamera(u, "link")
  /\ UNCHANGED displayLinkReady

SeeDisplayLink(u) ==
  /\ UpdateAt(u, "link") /\ displayLinkReady
  /\ UpdateGoto(u, "signal")
  /\ UNCHANGED <<alive, renderVars, sharedVars, rt, displayLinkReady>>

LeaveDisplayLink(u) ==
  /\ UpdateAt(u, "link") /\ ~displayLinkReady /\ ~UTshouldRun
  /\ UpdateGoto(u, "test")
  /\ UNCHANGED <<alive, renderVars, sharedVars, rt, displayLinkReady>>

Signal(u) ==
  /\ UpdateAt(u, "signal")
  /\ signalStateUpdated
  /\ UpdateGoto(u, "clear")
  /\ UNCHANGED displayLinkReady

\* a display link that fires between the test and this store is lost
ClearDisplayLink(u) ==
  /\ UpdateAt(u, "clear")
  /\ displayLinkReady' = FALSE
  /\ UpdateGoto(u, "test")
  /\ UNCHANGED <<alive, renderVars, sharedVars, rt>>

UpdateStep(u) ==
  \/ (TestUpdating(u) \/ FixedUpdate(u)) /\ UNCHANGED displayLinkReady
  \/ Update(u) \/ SeeDisplayLink(u) \/ LeaveDisplayLink(u)
  \/ Signal(u) \/ ClearDisplayLink(u)

ThreadStep(t) ==
  \/ RenderStep(t) /\ UNCHANGED <<main, displayLinkReady>>
  \/ UpdateStep(t) /\ UNCHANGED main

Terminated == (~alive \/ MainAt("destroyed")) /\ UNCHANGED vars

Next == MainStep \/ (\E t \in Threads : ThreadStep(t)) \/ Terminated

Spec == Init /\ [][Next]_vars

(* The system schedules every thread, and a close once begun goes on.      *)
FairSpec ==
  /\ Spec
  /\ \A t \in Threads : /\ WF_vars(RenderStep(t) /\ UNCHANGED <<main, displayLinkReady>>)
                        /\ WF_vars(UpdateStep(t) /\ UNCHANGED main)
  /\ WF_vars(CloseStep)

-----------------------------------------------------------------------------
(* Properties *)

(* Every variable keeps its type.  No run spends time on it. *)
TypeOK ==
  /\ CoreTypeOK
  /\ main \in [pc : MainPCs, live : BOOLEAN]
  /\ displayLinkReady \in BOOLEAN

(* needsFixedUpdate: a frame of the update thread begins with the fixed    *)
(* updates less than one step behind, never ahead, and however long the    *)
(* last one took it catches up in a bounded number of steps.               *)
FixedKeepsUp ==
  /\ ahead >= 0
  /\ ahead < FixedDelta + (IF \E u \in Threads : ut[u] = "fixed" THEN MaxDelta ELSE 0)

(* A frame shows the state that was claimed for it or a later one, though  *)
(* the version and the camera are not read together; or else the view set  *)
(* up by createConstantVulkanResources, which need not be overridden: it   *)
(* may come after the first view of the update thread.                     *)
FrameShowsClaimed ==
  \A r \in Threads : RenderAt(r, "record") => camera = Placeholder \/ camera >= consumedVersion

(* Every state the update thread signals is claimed by the render thread,  *)
(* itself or with a later one, although the notification may be missed and *)
(* the thread may wait for the end of a live resize.                       *)
LatestStateClaimed ==
  <>[](~main.live) =>
    \A v \in 1 .. MaxVersion :
      stateVersion = v /\ renderRunning ~> consumedVersion >= v \/ ~alive \/ main.pc # "loop"

(* Once rendering has begun viewDidDisappear returns: no thread sleeps     *)
(* through the request to stop, keeps waiting for a live resize, or for a  *)
(* display link that has stopped.  (A window closed earlier may never      *)
(* return: RTwindowInit then takes the request to stop back.)              *)
CloseReturns == MainAt("pause") /\ renderRunning ~> MainAt("destroyed") \/ ~alive
=============================================================================
