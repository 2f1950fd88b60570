--------------------------- MODULE MacMain_proofs ---------------------------
(***************************************************************************)
(* What MacMain keeps for any set of threads, any bound on the versions    *)
(* and any lengths of a fixed and of a longest step: its variables keep    *)
(* their types, the fixed clock keeps up, and a frame shows the state that *)
(* was claimed for it.                                                     *)
(***************************************************************************)
EXTENDS MacMain, RenderThread_proofs

-----------------------------------------------------------------------------
(* Types *)

(* Every step of the update thread keeps the types of what it changes. *)
LEMMA UpdateStepType ==
  ASSUME TypeOK, NEW u \in Threads, UpdateStep(u)
  PROVE  CoreTypeOK' /\ displayLinkReady' \in BOOLEAN
<1> USE RenderThreadAssumption
        DEF TypeOK, CoreTypeOK, UpdatePCs, UpdateAt, UpdateGoto, renderVars, sharedVars
<1>1. CASE TestUpdating(u) /\ UNCHANGED displayLinkReady
  <2>1. ahead' \in Nat
    <3>1. CASE UNCHANGED ahead
      BY <3>1
    <3>2. CASE \E delta \in Elapsed : ahead' = ahead + Capped(delta)
      <4>1. PICK delta \in Elapsed : ahead' = ahead + Capped(delta)
        BY <3>2
      <4> QED BY <4>1, CappedType
    <3> QED BY <1>1, <3>1, <3>2 DEF TestUpdating
  <2>2. ut' = [ut EXCEPT ![u] = "fixed"] \/ ut' = [ut EXCEPT ![u] = "exited"]
    BY <1>1 DEF TestUpdating
  <2> QED BY <1>1, <2>1, <2>2 DEF TestUpdating
<1>2. CASE FixedUpdate(u) /\ UNCHANGED displayLinkReady
  BY <1>2 DEF FixedUpdate, needsFixedUpdate
<1>3. CASE Update(u)
  BY <1>3, NextVersionType DEF Update, UpdateCamera, ViewAtUpdate
<1>4. CASE SeeDisplayLink(u)
  BY <1>4 DEF SeeDisplayLink
<1>5. CASE LeaveDisplayLink(u)
  BY <1>5 DEF LeaveDisplayLink
<1>6. CASE Signal(u)
  BY <1>6, NextVersionType, NotifiedType DEF Signal, signalStateUpdated
<1>7. CASE ClearDisplayLink(u)
  BY <1>7 DEF ClearDisplayLink
<1> QED BY <1>1, <1>2, <1>3, <1>4, <1>5, <1>6, <1>7 DEF UpdateStep

(* Whatever the user does with the window. *)
LEMMA MainStepType ==
  ASSUME TypeOK, MainStep
  PROVE  TypeOK'
<1> USE RenderThreadAssumption
        DEF TypeOK, CoreTypeOK, MainPCs, MainAt, MainGoto, setRendering, renderVars,
            sharedVars, coreVars
<1>1. CASE ViewDidLoad
  BY <1>1 DEF ViewDidLoad, Created, RenderPCs, UpdateGoto, UpdatePCs
<1>2. CASE DisplayLinkFires  BY <1>2 DEF DisplayLinkFires
<1>3. CASE ChangeFocus       BY <1>3 DEF ChangeFocus
<1>4. CASE LiveResize        BY <1>4 DEF LiveResize, LockedResize
<1>5. CASE Close             BY <1>5 DEF Close
<1>6. CASE Pause             BY <1>6 DEF Pause
<1>7. CASE Stop              BY <1>7, NotifiedType DEF Stop, signalStopRendering
<1>8. CASE Join              BY <1>8 DEF Join
<1>9. CASE StopUpdate        BY <1>9 DEF StopUpdate, signalStopUpdating
<1>10. CASE JoinUpdate       BY <1>10 DEF JoinUpdate
<1> QED BY <1>1, <1>2, <1>3, <1>4, <1>5, <1>6, <1>7, <1>8, <1>9, <1>10
        DEF MainStep, CloseStep

(* The first state has the types, and every step keeps them. *)
LEMMA InitType == Init => TypeOK
<1> SUFFICES ASSUME Init PROVE TypeOK
  OBVIOUS
<1> DEFINE first == [Created EXCEPT !.pc = "none"]
<1>1. first \in [pc : RenderPCs, last : 0 .. MaxVersion, latest : 0 .. MaxVersion]
  BY RenderThreadAssumption DEF Created, RenderPCs
<1>2. rt = [r \in Threads |-> first]
  BY DEF Init, CoreInit
<1> HIDE DEF first
<1>3. rt \in [Threads -> [pc : RenderPCs, last : 0 .. MaxVersion, latest : 0 .. MaxVersion]]
  BY <1>1, <1>2
<1>4. CoreTypeOK
  <2>1. {alive, windowInit, surfaceLost, renderRunning, shouldRender, stillResizing,
         shouldUpdate, window} \subseteq BOOLEAN
    BY Zenon DEF Init, CoreInit
  <2>2. ut \in [Threads -> UpdatePCs]
    BY DEF Init, CoreInit, UpdatePCs
  <2>3. /\ stateVersion = 0 /\ consumedVersion = 0 /\ camera = 0 /\ ahead = 0
        /\ 0 \in 0 .. MaxVersion
    BY RenderThreadAssumption DEF Init, CoreInit
  <2> QED BY <1>3, <2>1, <2>2, <2>3 DEF CoreTypeOK
<1> QED BY <1>4 DEF Init, TypeOK, MainPCs

(* Whichever thread takes it. *)
LEMMA NextType == TypeOK /\ [Next]_vars => TypeOK'
<1> SUFFICES ASSUME TypeOK, [Next]_vars PROVE TypeOK'
  OBVIOUS
<1>1. CASE MainStep
  BY <1>1, MainStepType
<1>2. ASSUME NEW t \in Threads, ThreadStep(t) PROVE TypeOK'
  BY <1>2, RenderStepType, UpdateStepType DEF ThreadStep, TypeOK
<1>3. CASE UNCHANGED vars
  BY <1>3 DEF TypeOK, CoreTypeOK, vars, coreVars, renderVars, sharedVars
<1> QED BY <1>1, <1>2, <1>3 DEF Next, Terminated

(* No step of any thread takes a variable out of its type. *)
THEOREM Typing == Spec => []TypeOK
BY InitType, NextType, PTL DEF Spec

-----------------------------------------------------------------------------
(* The fixed clock *)

(* One update thread at most, and none before the view has been loaded.    *)
OneUpdate ==
  /\ main.pc = "loading" => \A u \in Threads : ut[u] = "none"
  /\ \A u, v \in Threads : ut[u] # "none" /\ ut[v] # "none" => u = v

(* FixedKeepsUp lets the clock lag while some thread is catching up; what  *)
(* makes it inductive is that no second thread can be adding to it.        *)
ClockInv == TypeOK /\ OneUpdate /\ FixedKeepsUp

(* A step of the main thread starts at most one update thread, and changes *)
(* nothing else of what the invariants are about.                          *)
LEMMA MainStepKeeps ==
  ASSUME CoreTypeOK, MainStep
  PROVE  /\ UNCHANGED <<ahead, stateVersion, consumedVersion, camera>>
         /\ \A t \in Threads : rt'[t].latest \in {rt[t].latest, 0}
         /\ \/ UNCHANGED ut /\ (main'.pc = "loading" => main.pc = "loading")
            \/ /\ main.pc = "loading" /\ main'.pc # "loading"
               /\ \E t \in Threads : ut' = [ut EXCEPT ![t] = "test"]
<1> USE DEF CoreTypeOK, MainAt, MainGoto, setRendering, renderVars, sharedVars, coreVars
<1>1. CASE ViewDidLoad
  <2>1. /\ main.pc = "loading" /\ main'.pc # "loading"
        /\ UNCHANGED <<ahead, stateVersion, consumedVersion, camera>>
    BY <1>1 DEF ViewDidLoad
  <2>2. PICK t \in Threads : rt' = [rt EXCEPT ![t] = Created] /\ UpdateGoto(t, "test")
    BY <1>1 DEF ViewDidLoad
  <2> QED BY <2>1, <2>2 DEF UpdateGoto, Created
<1>2. CASE DisplayLinkFires  BY <1>2 DEF DisplayLinkFires
<1>3. CASE ChangeFocus       BY <1>3 DEF ChangeFocus
<1>4. CASE LiveResize        BY <1>4 DEF LiveResize
<1>5. CASE Close             BY <1>5 DEF Close
<1>6. CASE Pause             BY <1>6 DEF Pause
<1>7. CASE Stop              BY <1>7, NotifiedType DEF Stop, signalStopRendering
<1>8. CASE Join              BY <1>8 DEF Join
<1>9. CASE StopUpdate        BY <1>9 DEF StopUpdate, signalStopUpdating
<1>10. CASE JoinUpdate       BY <1>10 DEF JoinUpdate
<1> QED BY <1>1, <1>2, <1>3, <1>4, <1>5, <1>6, <1>7, <1>8, <1>9, <1>10
        DEF MainStep, CloseStep

(* A step of the update thread moves that thread only, and never back to   *)
(* where no thread has been created.                                       *)
LEMMA UpdateStepMoves ==
  ASSUME CoreTypeOK, NEW u \in Threads, UpdateStep(u)
  PROVE  /\ ut[u] # "none" /\ ut'[u] # "none"
         /\ \A v \in Threads : v # u => ut'[v] = ut[v]
<1> USE DEF CoreTypeOK, UpdateAt, UpdateGoto
<1>1. CASE TestUpdating(u)     BY <1>1 DEF TestUpdating
<1>2. CASE FixedUpdate(u)      BY <1>2 DEF FixedUpdate
<1>3. CASE Update(u)           BY <1>3 DEF Update, UpdateCamera
<1>4. CASE SeeDisplayLink(u)   BY <1>4 DEF SeeDisplayLink
<1>5. CASE LeaveDisplayLink(u) BY <1>5 DEF LeaveDisplayLink
<1>6. CASE Signal(u)           BY <1>6 DEF Signal
<1>7. CASE ClearDisplayLink(u) BY <1>7 DEF ClearDisplayLink
<1> QED BY <1>1, <1>2, <1>3, <1>4, <1>5, <1>6, <1>7 DEF UpdateStep

(* There is one update thread because viewDidLoad happens once.            *)
LEMMA OneUpdateKept ==
  ASSUME TypeOK, OneUpdate, Next
  PROVE  OneUpdate'
<1> USE DEF OneUpdate, TypeOK
<1>1. CASE MainStep
  <2>1. CASE UNCHANGED ut /\ (main'.pc = "loading" => main.pc = "loading")
    BY <2>1
  <2>2. CASE /\ main.pc = "loading" /\ main'.pc # "loading"
             /\ \E t \in Threads : ut' = [ut EXCEPT ![t] = "test"]
    BY <2>2 DEF CoreTypeOK
  <2> QED BY <1>1, <2>1, <2>2, MainStepKeeps
<1>2. ASSUME NEW t \in Threads, RenderStep(t) /\ UNCHANGED <<main, displayLinkReady>>
      PROVE  OneUpdate'
  BY <1>2, RenderStepKeeps
<1>3. ASSUME NEW u \in Threads, UpdateStep(u) /\ UNCHANGED main
      PROVE  OneUpdate'
  BY <1>3, UpdateStepMoves
<1>4. CASE UNCHANGED vars
  BY <1>4 DEF vars, coreVars
<1> QED BY <1>1, <1>2, <1>3, <1>4 DEF Next, ThreadStep, Terminated

(* TimeInfo as its only writer uses it: the capped delta is added when the *)
(* fixed clock has caught up, and taken away step by step.                 *)
LEMMA UpdateStepClock ==
  ASSUME ClockInv, NEW u \in Threads, UpdateStep(u)
  PROVE  FixedKeepsUp'
<1> USE RenderThreadAssumption
        DEF ClockInv, TypeOK, CoreTypeOK, FixedKeepsUp, OneUpdate, UpdateAt, UpdateGoto
<1>1. CASE TestUpdating(u)
  <2>1. ahead < FixedDelta
    BY <1>1 DEF TestUpdating
  <2>2. CASE UNCHANGED ahead
    BY <2>1, <2>2
  <2>3. ASSUME NEW delta \in Elapsed, ahead' = ahead + Capped(delta),
               ut' = [ut EXCEPT ![u] = "fixed"]
        PROVE  FixedKeepsUp'
    BY <2>1, <2>3, CappedType
  <2> QED BY <1>1, <2>2, <2>3 DEF TestUpdating
<1>2. CASE FixedUpdate(u)
  BY <1>2 DEF FixedUpdate, needsFixedUpdate
<1>3. CASE Update(u)
  BY <1>3 DEF Update, UpdateCamera, needsFixedUpdate
<1>4. CASE SeeDisplayLink(u)
  BY <1>4 DEF SeeDisplayLink, sharedVars
<1>5. CASE LeaveDisplayLink(u)
  BY <1>5 DEF LeaveDisplayLink, sharedVars
<1>6. CASE Signal(u)
  BY <1>6 DEF Signal, signalStateUpdated, sharedVars
<1>7. CASE ClearDisplayLink(u)
  BY <1>7 DEF ClearDisplayLink, sharedVars
<1> QED BY <1>1, <1>2, <1>3, <1>4, <1>5, <1>6, <1>7 DEF UpdateStep

(* The fixed clock never gets ahead, and lags by at most one capped delta  *)
(* while the update thread is catching up: for any FixedDelta < MaxDelta   *)
(* and however much time passes between two updates.                       *)
THEOREM ClockKeepsUp == Spec => []FixedKeepsUp
<1>1. Init => ClockInv
  <2> SUFFICES ASSUME Init PROVE ClockInv
    OBVIOUS
  <2>1. OneUpdate /\ FixedKeepsUp
    BY RenderThreadAssumption DEF Init, CoreInit, OneUpdate, FixedKeepsUp
  <2> QED BY <2>1, InitType DEF ClockInv
<1>2. ClockInv /\ [Next]_vars => ClockInv'
  <2> SUFFICES ASSUME ClockInv, [Next]_vars PROVE ClockInv'
    OBVIOUS
  <2>1. TypeOK' /\ OneUpdate'
    BY NextType, OneUpdateKept DEF ClockInv, OneUpdate, vars, coreVars
  <2>2. FixedKeepsUp'
    <3> USE RenderThreadAssumption DEF ClockInv, FixedKeepsUp, TypeOK, CoreTypeOK
    <3>1. CASE MainStep
      <4>1. CASE UNCHANGED ut
        BY <3>1, <4>1, MainStepKeeps
      <4>2. ASSUME NEW t \in Threads, ut' = [ut EXCEPT ![t] = "test"], main.pc = "loading"
            PROVE  FixedKeepsUp'
        BY <3>1, <4>2, MainStepKeeps DEF OneUpdate
      <4> QED BY <3>1, <4>1, <4>2, MainStepKeeps
    <3>2. ASSUME NEW r \in Threads, RenderStep(r) PROVE FixedKeepsUp'
      BY <3>2, RenderStepKeeps
    <3>3. ASSUME NEW u \in Threads, UpdateStep(u) PROVE FixedKeepsUp'
      BY <3>3, UpdateStepClock
    <3>4. CASE UNCHANGED vars
      BY <3>4 DEF vars, coreVars, sharedVars
    <3> QED BY <3>1, <3>2, <3>3, <3>4 DEF Next, ThreadStep, Terminated
  <2> QED BY <2>1, <2>2 DEF ClockInv
<1>3. ClockInv => FixedKeepsUp
  BY DEF ClockInv
<1> QED BY <1>1, <1>2, <1>3, PTL DEF Spec

-----------------------------------------------------------------------------
(* The camera *)

(* No thread has claimed, or is about to claim, a state not yet signalled. *)
VersionsOrdered ==
  /\ consumedVersion <= stateVersion
  /\ \A r \in Threads : rt[r].latest <= stateVersion

(* The camera is as new as the signalled state, and ahead of it while the  *)
(* update thread has still to signal what it has just written.             *)
ViewFollows ==
  camera # Placeholder =>
    /\ camera >= stateVersion
    /\ \A u \in Threads : ut[u] \in {"link", "signal"} => camera >= NextVersion

ViewInv == TypeOK /\ OneUpdate /\ VersionsOrdered /\ ViewFollows

(* The view is written first, and signalled by the same thread. *)
LEMMA UpdateStepView ==
  ASSUME ViewInv, NEW u \in Threads, UpdateStep(u)
  PROVE  VersionsOrdered' /\ ViewFollows'
<1> USE RenderThreadAssumption, NextVersionType
        DEF ViewInv, TypeOK, CoreTypeOK, OneUpdate, VersionsOrdered, ViewFollows, Placeholder,
            UpdateAt, UpdateGoto, renderVars, sharedVars
<1>1. CASE TestUpdating(u)
  <2>1. UNCHANGED <<camera, stateVersion, consumedVersion, rt>>
    BY <1>1 DEF TestUpdating
  <2>2. ut'[u] \in {"fixed", "exited"}
    BY <1>1 DEF TestUpdating
  <2> QED BY <2>1, <2>2, UpdateStepMoves DEF NextVersion
<1>2. CASE FixedUpdate(u)
  BY <1>2 DEF FixedUpdate, NextVersion
<1>3. CASE Update(u)
  BY <1>3 DEF Update, UpdateCamera, ViewAtUpdate, NextVersion
<1>4. CASE SeeDisplayLink(u)
  BY <1>4 DEF SeeDisplayLink, NextVersion
<1>5. CASE LeaveDisplayLink(u)
  BY <1>5 DEF LeaveDisplayLink, NextVersion
<1>6. CASE Signal(u)
  <2>1. /\ stateVersion' = NextVersion /\ ut[u] = "signal" /\ ut'[u] = "clear"
        /\ UNCHANGED <<camera, consumedVersion>>
    BY <1>6 DEF Signal, signalStateUpdated
  <2>2. \A r \in Threads : rt'[r].latest = rt[r].latest
    BY <1>6, NotifiedType DEF Signal, signalStateUpdated
  <2>3. VersionsOrdered'
    BY <2>1, <2>2
  <2>4. \A v \in Threads : ut'[v] \notin {"link", "signal"}
    BY <2>1, UpdateStepMoves
  <2> QED BY <2>1, <2>3, <2>4
<1>7. CASE ClearDisplayLink(u)
  BY <1>7 DEF ClearDisplayLink, NextVersion
<1> QED BY <1>1, <1>2, <1>3, <1>4, <1>5, <1>6, <1>7 DEF UpdateStep

(* A frame shows the state claimed for it or a later one, or the           *)
(* placeholder, for any number of versions, though the claim, the camera   *)
(* and the signal are three separate steps of two threads.                 *)
THEOREM FramesCurrent == Spec => []FrameShowsClaimed
<1>1. Init => ViewInv
  <2> SUFFICES ASSUME Init PROVE ViewInv
    OBVIOUS
  <2>1. OneUpdate /\ VersionsOrdered /\ ViewFollows
    BY DEF Init, CoreInit, Created, OneUpdate, VersionsOrdered, ViewFollows, Placeholder
  <2> QED BY <2>1, InitType DEF ViewInv
<1>2. ViewInv /\ [Next]_vars => ViewInv'
  <2> SUFFICES ASSUME ViewInv, [Next]_vars PROVE ViewInv'
    OBVIOUS
  <2>1. TypeOK' /\ OneUpdate'
    BY NextType, OneUpdateKept DEF ViewInv, OneUpdate, vars, coreVars
  <2>2. VersionsOrdered' /\ ViewFollows'
    <3> USE DEF ViewInv, TypeOK, CoreTypeOK, VersionsOrdered, ViewFollows, NextVersion
    <3>1. CASE MainStep
      BY <3>1, MainStepKeeps
    <3>2. ASSUME NEW r \in Threads, RenderStep(r) PROVE VersionsOrdered' /\ ViewFollows'
      BY <3>2, RenderStepKeeps
    <3>3. ASSUME NEW u \in Threads, UpdateStep(u) PROVE VersionsOrdered' /\ ViewFollows'
      BY <3>3, UpdateStepView
    <3>4. CASE UNCHANGED vars
      BY <3>4 DEF vars, coreVars, renderVars, sharedVars
    <3> QED BY <3>1, <3>2, <3>3, <3>4 DEF Next, ThreadStep, Terminated
  <2> QED BY <2>1, <2>2 DEF ViewInv
<1>3. ViewInv => FrameShowsClaimed
  BY DEF ViewInv, TypeOK, CoreTypeOK, VersionsOrdered, ViewFollows, FrameShowsClaimed
<1> QED BY <1>1, <1>2, <1>3, PTL DEF Spec

=============================================================================
