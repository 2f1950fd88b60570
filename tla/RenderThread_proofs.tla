------------------------- MODULE RenderThread_proofs -------------------------
(***************************************************************************)
(* What the steps of the render thread keep, whichever main thread is      *)
(* added to it: the facts that the proofs about AndroidMain, MacMain and   *)
(* WindowsMain share.                                                      *)
(***************************************************************************)
EXTENDS RenderThread, TLAPS

(* A counted version stays within its bound and never decreases. *)
LEMMA NextVersionType ==
  ASSUME stateVersion \in 0 .. MaxVersion
  PROVE  NextVersion \in 0 .. MaxVersion /\ NextVersion >= stateVersion
BY RenderThreadAssumption DEF NextVersion

(* std::min in TimeInfo::UTupdate. *)
LEMMA CappedType ==
  ASSUME NEW delta \in Elapsed
  PROVE  Capped(delta) \in 0 .. MaxDelta
BY RenderThreadAssumption DEF Capped

(* A notification moves the threads that sleep, to where they wake up, and *)
(* no others.                                                              *)
LEMMA NotifiedType ==
  ASSUME CoreTypeOK
  PROVE  /\ Notified(rt) \in [Threads -> [pc : RenderPCs, last : 0 .. MaxVersion,
                                          latest : 0 .. MaxVersion]]
         /\ \A r \in Threads :
              /\ Notified(rt)[r].latest = rt[r].latest
              /\ IF rt[r].pc \in {"asleep", "lostAsleep"}
                 THEN Notified(rt)[r].pc \in {"wait", "lostWait"}
                 ELSE Notified(rt)[r].pc = rt[r].pc
BY DEF CoreTypeOK, Notified, RenderPCs

(* Every step of the render thread keeps the types of what it changes. *)
LEMMA RenderStepType ==
  ASSUME CoreTypeOK, NEW r \in Threads, RenderStep(r)
  PROVE  CoreTypeOK'
<1> USE RenderThreadAssumption DEF CoreTypeOK, RenderPCs, RenderAt, RenderGoto, renderVars, sharedVars
<1>1. CASE CreateSurface(r)
  <2>1. CASE window  BY <1>1, <2>1 DEF CreateSurface, Placeholder
  <2>2. CASE ~window BY <1>1, <2>2 DEF CreateSurface
  <2> QED BY <2>1, <2>2
<1>2. CASE SetWindowInit(r)
  BY <1>2 DEF SetWindowInit
<1>3. CASE StartRendering(r)
  BY <1>3 DEF StartRendering
<1>4. CASE TestRunning(r)
  BY <1>4 DEF TestRunning
<1>5. CASE CheckSurface(r)
  BY <1>5 DEF CheckSurface
<1>6. CASE LoadConsumed(r)
  BY <1>6 DEF LoadConsumed
<1>7. CASE CompareVersions(r)
  <2> DEFINE label == IF Newer(stateVersion, rt[r].last) THEN "claim" ELSE "wait"
  <2>1. label \in RenderPCs
    OBVIOUS
  <2>2. rt' = [rt EXCEPT ![r] = [@ EXCEPT !.pc = label, !.latest = stateVersion]]
    BY <1>7 DEF CompareVersions
  <2> HIDE DEF label
  <2>3. UNCHANGED <<alive, renderVars, sharedVars, ut>>
    BY <1>7 DEF CompareVersions
  <2> QED BY <2>1, <2>2, <2>3
<1>8. CASE ClaimVersion(r)
  BY <1>8 DEF ClaimVersion, Created
<1>9. CASE EvaluateWait(r)
  BY <1>9 DEF EvaluateWait
<1>10. CASE DozeOff(r)
  BY <1>10 DEF DozeOff
<1>11. CASE TimeOut(r)
  BY <1>11 DEF TimeOut
<1>12. CASE SignalExit(r)
  BY <1>12 DEF SignalExit
<1>13. CASE ExitRender(r)
  BY <1>13 DEF ExitRender
<1>14. CASE EnterSurfaceLost(r)
  <2>1. CASE Desktop  BY <1>14, <2>1 DEF EnterSurfaceLost
  <2>2. CASE ~Desktop BY <1>14, <2>2 DEF EnterSurfaceLost
  <2> QED BY <2>1, <2>2
<1>15. CASE EvaluateLost(r)
  BY <1>15 DEF EvaluateLost
<1>16. CASE DozeOffLost(r)
  BY <1>16 DEF DozeOffLost
<1>17. CASE TimeOutLost(r)
  BY <1>17 DEF TimeOutLost
<1>18. CASE HandleSurfaceLost(r)
  <2>1. CASE window
    <3>1. rt' = [rt EXCEPT ![r].pc = "load"] /\ stillResizing' = FALSE
      BY <1>18, <2>1 DEF HandleSurfaceLost
    <3>2. UNCHANGED <<alive, windowInit, surfaceLost, renderRunning, stateVersion,
                      consumedVersion, shouldRender, sharedVars, ut>>
      BY <1>18, <2>1 DEF HandleSurfaceLost
    <3> QED BY <3>1, <3>2
  <2>2. CASE ~window BY <1>18, <2>2 DEF HandleSurfaceLost
  <2> QED BY <2>1, <2>2
<1>19. CASE Acquire(r)
  BY <1>19 DEF Acquire, Outcomes
<1>20. CASE ReadCamera(r)
  BY <1>20 DEF ReadCamera
<1>21. CASE LoseDevice(r)
  BY <1>21 DEF LoseDevice
<1>22. CASE Present(r)
  BY <1>22 DEF Present, Outcomes
<1>23. CASE RecreateSwapchain(r)
  BY <1>23 DEF RecreateSwapchain
<1> QED BY <1>1, <1>2, <1>3, <1>4, <1>5, <1>6, <1>7, <1>8, <1>9, <1>10, <1>11, <1>12, <1>13,
           <1>14, <1>15, <1>16, <1>17, <1>18, <1>19, <1>20, <1>21, <1>22, <1>23 DEF RenderStep

(* A step of a render thread moves that thread only, never back to where   *)
(* it had not been created nor on from its end; it leaves the update       *)
(* threads and their clock alone, the versions but for a claim, and the    *)
(* camera but for the placeholder; and nobody gets past the initialization *)
(* without m_windowInit.                                                   *)
LEMMA RenderStepKeeps ==
  ASSUME CoreTypeOK, NEW r \in Threads, RenderStep(r)
  PROVE  /\ UNCHANGED <<ut, ahead, stateVersion>>
         /\ camera' \in {camera, Placeholder}
         /\ consumedVersion' \in {consumedVersion, rt[r].latest}
         /\ \A t \in Threads : rt'[t].latest \in {rt[t].latest, stateVersion, 0}
         /\ rt[r].pc \notin {"none", "exited"} /\ rt'[r].pc # "none"
         /\ \A t \in Threads : t # r => rt'[t] = rt[t]
         /\ windowInit => windowInit'
         /\ rt[r].pc = "init" => rt'[r].pc \in {"init", "initialized"}
         /\ rt[r].pc = "initialized" => windowInit'
<1> USE DEF CoreTypeOK, RenderAt, RenderGoto, renderVars, sharedVars
<1>1. CASE CreateSurface(r)
  <2>1. CASE window  BY <1>1, <2>1 DEF CreateSurface
  <2>2. CASE ~window BY <1>1, <2>2 DEF CreateSurface
  <2> QED BY <2>1, <2>2
<1>2. CASE SetWindowInit(r)     BY <1>2 DEF SetWindowInit
<1>3. CASE StartRendering(r)    BY <1>3 DEF StartRendering
<1>4. CASE TestRunning(r)       BY <1>4 DEF TestRunning
<1>5. CASE CheckSurface(r)      BY <1>5 DEF CheckSurface
<1>6. CASE LoadConsumed(r)      BY <1>6 DEF LoadConsumed
<1>7. CASE CompareVersions(r)   BY <1>7 DEF CompareVersions
<1>8. CASE ClaimVersion(r)      BY <1>8 DEF ClaimVersion, Created
<1>9. CASE EvaluateWait(r)      BY <1>9 DEF EvaluateWait
<1>10. CASE DozeOff(r)          BY <1>10 DEF DozeOff
<1>11. CASE TimeOut(r)          BY <1>11 DEF TimeOut
<1>12. CASE SignalExit(r)       BY <1>12 DEF SignalExit
<1>13. CASE ExitRender(r)       BY <1>13 DEF ExitRender
<1>14. CASE EnterSurfaceLost(r)
  <2>1. CASE Desktop  BY <1>14, <2>1 DEF EnterSurfaceLost
  <2>2. CASE ~Desktop BY <1>14, <2>2 DEF EnterSurfaceLost
  <2> QED BY <2>1, <2>2
<1>15. CASE EvaluateLost(r)     BY <1>15 DEF EvaluateLost
<1>16. CASE DozeOffLost(r)      BY <1>16 DEF DozeOffLost
<1>17. CASE TimeOutLost(r)      BY <1>17 DEF TimeOutLost
<1>18. CASE HandleSurfaceLost(r)
  <2>1. CASE window  BY <1>18, <2>1 DEF HandleSurfaceLost
  <2>2. CASE ~window BY <1>18, <2>2 DEF HandleSurfaceLost
  <2> QED BY <2>1, <2>2
<1>19. CASE Acquire(r)
  <2>1. CASE shouldRender  BY <1>19, <2>1 DEF Acquire, Outcomes
  <2>2. CASE ~shouldRender BY <1>19, <2>2 DEF Acquire
  <2> QED BY <2>1, <2>2
<1>20. CASE ReadCamera(r)       BY <1>20 DEF ReadCamera
<1>21. CASE LoseDevice(r)       BY <1>21 DEF LoseDevice
<1>22. CASE Present(r)          BY <1>22 DEF Present, Outcomes
<1>23. CASE RecreateSwapchain(r) BY <1>23 DEF RecreateSwapchain
<1> QED BY <1>1, <1>2, <1>3, <1>4, <1>5, <1>6, <1>7, <1>8, <1>9, <1>10, <1>11, <1>12, <1>13,
           <1>14, <1>15, <1>16, <1>17, <1>18, <1>19, <1>20, <1>21, <1>22, <1>23 DEF RenderStep
=============================================================================
