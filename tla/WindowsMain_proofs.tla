------------------------- MODULE WindowsMain_proofs -------------------------
(***************************************************************************)
(* WindowsMain, for any set of threads and any number of requests,         *)
(* versions and lengths of a step: when it is destroyed nobody is left,    *)
(* whichever of the three waits timed out; and no request is forgotten.    *)
(*                                                                         *)
(* The second part is about SwapchainFrames, for any number of images and  *)
(* of swapchains: semaphores are free when Vulkan is given them, nobody    *)
(* waits for what will not come, and every handle has one owner.           *)
(***************************************************************************)
EXTENDS WindowsMain, RenderThread_proofs, SwapchainFrames, FiniteSetTheorems, SequenceTheorems

-----------------------------------------------------------------------------
(* Types *)

(* TypeOK becomes inductive with what the UI thread tested before it asks, *)
(* and the COM thread before it goes to work.                              *)
TypeInv ==
  /\ TypeOK
  /\ main.pc \in {"lock", "write"} => asked < MaxRequests
  /\ com.pc = "process" => com.msg # NoMessage

(* Taking the last message leaves a list of requests. *)
LEMMA PoppedType ==
  ASSUME messages \in Seq(Requests), messages # <<>>
  PROVE  Popped(messages) \in Seq(Requests) /\ messages[Len(messages)] \in Requests
<1>1. Len(messages) \in Nat /\ Len(messages) >= 1
  OBVIOUS
<1>2. \A i \in 1 .. Len(messages) : messages[i] \in Requests
  OBVIOUS
<1> QED BY <1>1, <1>2 DEF Popped

(* The update thread keeps the types of what it changes, moves no thread   *)
(* but itself, and creates or ends no render thread.                       *)
LEMMA UpdateStepKeeps ==
  ASSUME CoreTypeOK, NEW u \in Threads, UpdateStep(u)
  PROVE  /\ CoreTypeOK'
         /\ UNCHANGED <<main, comVars>>
         /\ \A r \in Threads : rt[r].pc \in Ended => rt'[r].pc = rt[r].pc
         /\ \A r \in Threads : rt[r].pc # "none" <=> rt'[r].pc # "none"
         /\ ut[u] \notin Ended /\ ut'[u] # "none"
         /\ \A v \in Threads : v # u => ut'[v] = ut[v]
<1> USE RenderThreadAssumption
        DEF CoreTypeOK, UpdatePCs, UpdateAt, UpdateGoto, renderVars, sharedVars, Ended
<1>1. CASE TestUpdating(u)
  <2>1. ahead' \in Nat
    <3>1. CASE UNCHANGED ahead
      BY <3>1
    <3>2. ASSUME NEW delta \in Elapsed, ahead' = ahead + Capped(delta)
          PROVE  ahead' \in Nat
      BY <3>2, CappedType
    <3> QED BY <1>1, <3>1, <3>2 DEF TestUpdating
  <2>2. ut' = [ut EXCEPT ![u] = "fixed"] \/ ut' = [ut EXCEPT ![u] = "exited"]
    BY <1>1 DEF TestUpdating
  <2> QED BY <1>1, <2>1, <2>2 DEF TestUpdating, UpdateStep
<1>2. CASE FixedUpdate(u)
  BY <1>2 DEF FixedUpdate, needsFixedUpdate, UpdateStep
<1>3. CASE Update(u)
  BY <1>3, NextVersionType DEF Update, UpdateCamera, ViewAtUpdate, UpdateStep
<1>4. CASE Signal(u)
  BY <1>4, NextVersionType, NotifiedType DEF Signal, signalStateUpdated, UpdateStep
<1> QED BY <1>1, <1>2, <1>3, <1>4 DEF UpdateStep

(* The UI thread keeps all types: messages of the window, requests ...    *)
LEMMA MainStepType ==
  ASSUME TypeInv, MainStep \/ EnqueueStep
  PROVE  TypeInv'
<1> USE RenderThreadAssumption, WindowsAssumption
        DEF TypeInv, TypeOK, CoreTypeOK, MainPCs, ComPCs, MainAt, MainGoto, ComAt, ComGoto, Requests,
            NoMessage, setRendering, renderVars, sharedVars, coreVars, comVars
<1>1. CASE StartCom BY <1>1 DEF StartCom
<1>2. CASE CreateWindow
  <2>1. CASE alive' = FALSE
    BY <1>2, <2>1 DEF CreateWindow
  <2>2. ASSUME NEW t \in Threads, rt' = [rt EXCEPT ![t] = Created], UpdateGoto(t, "test"),
               window' = TRUE, shouldRender' = TRUE, MainGoto("loop"), UNCHANGED alive
        PROVE  TypeInv'
    <3>1. Created \in [pc : RenderPCs, last : 0 .. MaxVersion, latest : 0 .. MaxVersion]
      BY DEF Created, RenderPCs
    <3>2. ut' \in [Threads -> UpdatePCs]
      BY <2>2 DEF UpdateGoto, UpdatePCs
    <3> HIDE DEF Created
    <3> QED BY <1>2, <2>2, <3>1, <3>2 DEF CreateWindow
  <2> QED BY <1>2, <2>1, <2>2 DEF CreateWindow
<1>3. CASE Activate BY <1>3 DEF Activate
<1>4. CASE SizeMove BY <1>4 DEF SizeMove
<1>5. CASE KeyDown BY <1>5 DEF KeyDown
<1>6. CASE Close BY <1>6 DEF Close
<1>7. CASE LockMessages BY <1>7 DEF LockMessages
<1>8. CASE PushMessage
  <2>1. asked' = asked + 1 /\ asked' \in Requests
    BY <1>8 DEF PushMessage
  <2>2. messages' \in Seq(Requests)
    BY <1>8, <2>1 DEF PushMessage
  <2>3. /\ main' = [main EXCEPT !.pc = "unlock"]
        /\ UNCHANGED <<coreVars, com, canWrite, hasWork, comShutdown, served>>
    BY <1>8 DEF PushMessage
  <2>4. asked' \in 0 .. MaxRequests
    BY <2>1
  <2>5. CoreTypeOK'
    BY <2>3
  <2>6. main' \in [pc : MainPCs, moving : BOOLEAN, prompt : BOOLEAN,
                  terminated : SUBSET {"render", "update", "com"}]
    BY <2>3
  <2> QED BY <2>2, <2>3, <2>4, <2>5, <2>6
<1>9. CASE UnlockMessages BY <1>9 DEF UnlockMessages
<1>10. CASE SignalWork BY <1>10 DEF SignalWork
<1> QED BY <1>1, <1>2, <1>3, <1>4, <1>5, <1>6, <1>7, <1>8, <1>9, <1>10
        DEF MainStep, EnqueueStep

(* ... and the end of its message loop.                                    *)
LEMMA CloseStepType ==
  ASSUME TypeInv, CloseStep
  PROVE  TypeInv'
<1> USE RenderThreadAssumption, WindowsAssumption
        DEF TypeInv, TypeOK, CoreTypeOK, MainPCs, ComPCs, MainAt, MainGoto, ComAt, ComGoto, Requests,
            NoMessage, setRendering, renderVars, sharedVars, coreVars, comVars
<1>1. CASE Stop BY <1>1, NotifiedType DEF Stop, signalStopRendering
<1>2. CASE Join BY <1>2 DEF Join
<1>3. CASE TerminateRender
  <2>1. PICK t \in Threads : RenderGoto(t, "exited")
    BY <1>3 DEF TerminateRender
  <2>2. rt' \in [Threads -> [pc : RenderPCs, last : 0 .. MaxVersion, latest : 0 .. MaxVersion]]
    <3>1. "exited" \in RenderPCs
      BY DEF RenderPCs
    <3> QED BY <2>1, <3>1 DEF RenderGoto
  <2> QED BY <1>3, <2>2 DEF TerminateRender, Terminate
<1>4. CASE StopUpdate BY <1>4 DEF StopUpdate, signalStopUpdating
<1>5. CASE JoinUpdate BY <1>5 DEF JoinUpdate
<1>6. CASE TerminateUpdate
  <2>1. PICK t \in Threads : UpdateGoto(t, "exited")
    BY <1>6 DEF TerminateUpdate
  <2>2. ut' \in [Threads -> UpdatePCs]
    BY <2>1 DEF UpdateGoto, UpdatePCs
  <2> QED BY <1>6, <2>2 DEF TerminateUpdate, Terminate
<1>7. CASE StopCom BY <1>7 DEF StopCom
<1>8. CASE WakeCom BY <1>8 DEF WakeCom
<1>9. CASE JoinCom BY <1>9 DEF JoinCom
<1>10. CASE TerminateCom BY <1>10 DEF TerminateCom, Terminate
<1>11. CASE CloseWindow BY <1>11 DEF CloseWindow
<1> QED BY <1>1, <1>2, <1>3, <1>4, <1>5, <1>6, <1>7, <1>8, <1>9, <1>10, <1>11
        DEF CloseStep

(* So does the COM thread. *)
LEMMA ComStepType ==
  ASSUME TypeInv, ComStep \/ Process
  PROVE  TypeInv'
<1> USE RenderThreadAssumption, WindowsAssumption
        DEF TypeInv, TypeOK, CoreTypeOK, MainPCs, ComPCs, MainAt, MainGoto, ComAt, ComGoto, Requests,
            NoMessage, setRendering, renderVars, sharedVars, coreVars, comVars
<1>1. CASE Register BY <1>1 DEF Register
<1>2. CASE WaitForWork BY <1>2 DEF WaitForWork
<1>3. CASE TestShutdown BY <1>3 DEF TestShutdown
<1>4. CASE ComLock BY <1>4 DEF ComLock
<1>5. CASE TakeNothing BY <1>5 DEF TakeNothing
<1>6. CASE TakeMessage BY <1>6, PoppedType DEF TakeMessage
<1>7. CASE ResetWork BY <1>7 DEF ResetWork
<1>8. CASE ReleaseMessages BY <1>8 DEF ReleaseMessages
<1>9. CASE Process BY <1>9 DEF Process
<1> QED BY <1>1, <1>2, <1>3, <1>4, <1>5, <1>6, <1>7, <1>8, <1>9
        DEF ComStep

(* The first state has the types. *)
LEMMA InitType == Init => TypeInv
<1> SUFFICES ASSUME Init PROVE TypeInv
  OBVIOUS
<1> USE RenderThreadAssumption, WindowsAssumption
<1> DEFINE first == [Created EXCEPT !.pc = "none"]
<1>1. first \in [pc : RenderPCs, last : 0 .. MaxVersion, latest : 0 .. MaxVersion]
  BY DEF Created, RenderPCs
<1>2. rt = [r \in Threads |-> first]
  BY DEF Init, CoreInit
<1> HIDE DEF first
<1>3. {alive, windowInit, surfaceLost, renderRunning, shouldRender, stillResizing,
       shouldUpdate, window} \subseteq BOOLEAN
  BY Zenon DEF Init, CoreInit
<1>4. ut \in [Threads -> UpdatePCs]
  BY DEF Init, CoreInit, UpdatePCs
<1>5. CoreTypeOK
  BY <1>1, <1>2, <1>3, <1>4 DEF Init, CoreInit, CoreTypeOK
<1>6. {canWrite, hasWork, comShutdown} \subseteq BOOLEAN
  BY Zenon DEF Init
<1>7. main \in [pc : MainPCs, moving : BOOLEAN, prompt : BOOLEAN,
                terminated : SUBSET {"render", "update", "com"}]
  BY DEF Init, MainPCs
<1>8. messages = <<>> /\ messages \in Seq(Requests)
  BY DEF Init
<1> QED BY <1>5, <1>6, <1>7, <1>8 DEF Init, TypeOK, TypeInv, ComPCs, NoMessage, Requests

(* Every step of every thread keeps them. *)
LEMMA NextType == TypeInv /\ [Next]_vars => TypeInv'
<1> SUFFICES ASSUME TypeInv, [Next]_vars PROVE TypeInv'
  OBVIOUS
<1>1. CASE MainStep \/ EnqueueStep
  BY <1>1, MainStepType
<1>2. CASE CloseStep
  BY <1>2, CloseStepType
<1>3. CASE ComStep \/ Process
  BY <1>3, ComStepType
<1>4. ASSUME NEW r \in Threads, RenderSteps(r) PROVE TypeInv'
  BY <1>4, RenderStepType DEF RenderSteps, TypeOK, TypeInv, comVars
<1>5. ASSUME NEW u \in Threads, UpdateStep(u) PROVE TypeInv'
  BY <1>5, UpdateStepKeeps DEF TypeOK, TypeInv, comVars
<1>6. CASE UNCHANGED vars
  BY <1>6 DEF TypeInv, TypeOK, CoreTypeOK, vars, coreVars, renderVars, sharedVars, comVars
<1> QED BY <1>1, <1>2, <1>3, <1>4, <1>5, <1>6 DEF Next, Terminated

-----------------------------------------------------------------------------
(* Who is left *)

(* createPrimaryWindow creates the only pair of threads. *)
OnePair ==
  /\ main.pc \in {"creating", "window"} => \A t \in Threads : rt[t].pc = "none" /\ ut[t] = "none"
  /\ \A t, u \in Threads : rt[t].pc # "none" /\ rt[u].pc # "none" => t = u
  /\ \A t, u \in Threads : ut[t] # "none" /\ ut[u] # "none" => t = u

(* What each wait at the end of the message loop leaves behind, whether it *)
(* was heard or timed out.                                                 *)
WaitsDone ==
  /\ main.pc \in {"stopUpdate", "joinUpdate", "stopCom", "wakeCom", "joinCom", "close",
                  "destroyed"} => \A t \in Threads : rt[t].pc \in Ended
  /\ main.pc \in {"stopCom", "wakeCom", "joinCom", "close", "destroyed"} =>
       \A t \in Threads : ut[t] \in Ended
  /\ main.pc \in {"close", "destroyed"} => com.pc \in Ended

LeavingInv == TypeInv /\ OnePair /\ WaitsDone

(* A wait for requests, for the window or for the mouse ends nothing ...   *)
LEMMA MainStepLeaves ==
  ASSUME LeavingInv, MainStep \/ EnqueueStep
  PROVE  OnePair' /\ WaitsDone'
<1> USE DEF LeavingInv, TypeInv, TypeOK, CoreTypeOK, OnePair, WaitsDone, Ended, MainAt, MainGoto,
            ComAt, ComGoto, RenderGoto, UpdateGoto, setRendering, renderVars, sharedVars,
            coreVars, comVars
<1>1. CASE StartCom BY <1>1 DEF StartCom
<1>2. CASE CreateWindow
  <2>1. CASE UNCHANGED <<main, rt, ut>>
    BY <1>2, <2>1 DEF CreateWindow
  <2>2. ASSUME NEW t \in Threads, rt' = [rt EXCEPT ![t] = Created], UpdateGoto(t, "test"),
               MainGoto("loop")
        PROVE  OnePair' /\ WaitsDone'
    BY <1>2, <2>2 DEF CreateWindow
  <2> QED BY <1>2, <2>1, <2>2 DEF CreateWindow
<1>3. CASE Activate BY <1>3 DEF Activate
<1>4. CASE SizeMove BY <1>4 DEF SizeMove
<1>5. CASE KeyDown BY <1>5 DEF KeyDown
<1>6. CASE Close BY <1>6 DEF Close
<1>7. CASE LockMessages BY <1>7 DEF LockMessages
<1>8. CASE PushMessage BY <1>8 DEF PushMessage
<1>9. CASE UnlockMessages BY <1>9 DEF UnlockMessages
<1>10. CASE SignalWork BY <1>10 DEF SignalWork
<1> QED BY <1>1, <1>2, <1>3, <1>4, <1>5, <1>6, <1>7, <1>8, <1>9, <1>10
        DEF MainStep, EnqueueStep

(* ... and at the end one thread after the other is gone, by itself or by  *)
(* TerminateThread; the last two waits leave the render thread alone.      *)
LEMMA CloseStepLeaves ==
  ASSUME LeavingInv, CloseStep
  PROVE  OnePair' /\ WaitsDone'
<1> USE DEF LeavingInv, TypeInv, TypeOK, CoreTypeOK, OnePair, WaitsDone, Ended, MainAt, MainGoto,
            ComAt, ComGoto, RenderGoto, UpdateGoto, setRendering, renderVars, sharedVars,
            coreVars, comVars
<1>1. CASE Stop
  <2>1. UNCHANGED <<ut, com>> /\ main.pc = "stop" /\ main'.pc = "join"
    BY <1>1 DEF Stop, signalStopRendering
  <2>2. rt' = Notified(rt)
    BY <1>1 DEF Stop, signalStopRendering
  <2>3. \A r \in Threads : rt'[r].pc = "none" <=> rt[r].pc = "none"
    BY <2>2, NotifiedType
  <2> QED BY <2>1, <2>3
<1>2. CASE Join BY <1>2 DEF Join
<1>3. CASE TerminateRender
  <2>1. PICK t \in Threads : Running(t) /\ RenderGoto(t, "exited")
    BY <1>3 DEF TerminateRender
  <2>2. \A r \in Threads : rt'[r].pc \in Ended /\ (rt'[r].pc = "none" <=> rt[r].pc = "none")
    BY <2>1 DEF Running
  <2>3. main.pc = "join" /\ main'.pc = "stopUpdate" /\ UNCHANGED ut
    BY <1>3 DEF TerminateRender, Terminate
  <2> QED BY <2>2, <2>3
<1>4. CASE StopUpdate BY <1>4 DEF StopUpdate, signalStopUpdating
<1>5. CASE JoinUpdate BY <1>5 DEF JoinUpdate
<1>6. CASE TerminateUpdate
  <2>1. PICK t \in Threads : ut[t] \notin Ended /\ UpdateGoto(t, "exited")
    BY <1>6 DEF TerminateUpdate
  <2>2. \A u \in Threads : ut'[u] \in Ended /\ (ut'[u] = "none" <=> ut[u] = "none")
    BY <2>1
  <2>3. main.pc = "joinUpdate" /\ main'.pc = "stopCom" /\ UNCHANGED rt
    BY <1>6 DEF TerminateUpdate, Terminate
  <2> QED BY <2>2, <2>3
<1>7. CASE StopCom BY <1>7 DEF StopCom
<1>8. CASE WakeCom BY <1>8 DEF WakeCom
<1>9. CASE JoinCom BY <1>9 DEF JoinCom, ComJoined
<1>10. CASE TerminateCom BY <1>10 DEF TerminateCom, Terminate
<1>11. CASE CloseWindow BY <1>11 DEF CloseWindow
<1> QED BY <1>1, <1>2, <1>3, <1>4, <1>5, <1>6, <1>7, <1>8, <1>9, <1>10, <1>11
        DEF CloseStep

(* The COM thread does not come back. *)
LEMMA ComStepLeaves ==
  ASSUME LeavingInv, ComStep \/ Process
  PROVE  OnePair' /\ WaitsDone'
<1> USE DEF LeavingInv, TypeInv, TypeOK, CoreTypeOK, OnePair, WaitsDone, Ended, MainAt, MainGoto,
            ComAt, ComGoto, RenderGoto, UpdateGoto, setRendering, renderVars, sharedVars,
            coreVars, comVars
<1>1. CASE Register BY <1>1 DEF Register
<1>2. CASE WaitForWork BY <1>2 DEF WaitForWork
<1>3. CASE TestShutdown BY <1>3 DEF TestShutdown
<1>4. CASE ComLock BY <1>4 DEF ComLock
<1>5. CASE TakeNothing BY <1>5 DEF TakeNothing
<1>6. CASE TakeMessage BY <1>6 DEF TakeMessage
<1>7. CASE ResetWork BY <1>7 DEF ResetWork
<1>8. CASE ReleaseMessages BY <1>8 DEF ReleaseMessages
<1>9. CASE Process BY <1>9 DEF Process
<1> QED BY <1>1, <1>2, <1>3, <1>4, <1>5, <1>6, <1>7, <1>8, <1>9
        DEF ComStep

(* A thread that has ended stays so, and nobody is created, while the UI    *)
(* thread and the COM thread stand still.                                  *)
LEMMA OthersLeave ==
  ASSUME LeavingInv, UNCHANGED <<main, com>>,
         \A t \in Threads :
           /\ rt[t].pc \in Ended => rt'[t].pc = rt[t].pc
           /\ rt[t].pc # "none" <=> rt'[t].pc # "none"
           /\ ut[t] \in Ended => ut'[t] = ut[t]
           /\ ut[t] # "none" <=> ut'[t] # "none"
  PROVE  OnePair' /\ WaitsDone'
<1>1. OnePair'
  <2>1. main.pc \in {"creating", "window"} => \A t \in Threads : rt'[t].pc = "none" /\ ut'[t] = "none"
    BY DEF LeavingInv, OnePair
  <2>2. \A t, u \in Threads : rt'[t].pc # "none" /\ rt'[u].pc # "none" => t = u
    BY DEF LeavingInv, OnePair
  <2>3. \A t, u \in Threads : ut'[t] # "none" /\ ut'[u] # "none" => t = u
    BY DEF LeavingInv, OnePair
  <2> QED BY <2>1, <2>2, <2>3 DEF OnePair
<1>2. WaitsDone'
  BY DEF LeavingInv, WaitsDone
<1> QED BY <1>1, <1>2

(* A step of the render or the update thread is such a step. *)
LEMMA ThreadStepLeaves ==
  ASSUME LeavingInv, NEW t \in Threads, RenderSteps(t) \/ UpdateStep(t)
  PROVE  OnePair' /\ WaitsDone'
<1>1. CoreTypeOK
  BY DEF LeavingInv, TypeInv, TypeOK
<1>2. CASE RenderSteps(t)
  <2>1. RenderStep(t) /\ UNCHANGED <<main, com>>
    BY <1>2 DEF RenderSteps, comVars
  <2>2. UNCHANGED ut
    BY <1>1, <2>1, RenderStepKeeps
  <2>3. rt[t].pc \notin {"none", "exited"} /\ rt'[t].pc # "none"
    BY <1>1, <2>1, RenderStepKeeps
  <2>4. \A r \in Threads : r # t => rt'[r] = rt[r]
    BY <1>1, <2>1, RenderStepKeeps
  <2>5. \A r \in Threads : /\ rt[r].pc \in Ended => rt'[r].pc = rt[r].pc
                           /\ rt[r].pc # "none" <=> rt'[r].pc # "none"
    BY <2>3, <2>4 DEF Ended
  <2> QED BY <2>1, <2>2, <2>5, OthersLeave
<1>3. CASE UpdateStep(t)
  <2>1. UNCHANGED <<main, com>>
    BY <1>1, <1>3, UpdateStepKeeps DEF comVars
  <2>2. \A r \in Threads : /\ rt[r].pc \in Ended => rt'[r].pc = rt[r].pc
                           /\ rt[r].pc # "none" <=> rt'[r].pc # "none"
    BY <1>1, <1>3, UpdateStepKeeps
  <2>3. ut[t] \notin Ended /\ ut'[t] # "none"
    BY <1>1, <1>3, UpdateStepKeeps
  <2>4. \A v \in Threads : v # t => ut'[v] = ut[v]
    BY <1>1, <1>3, UpdateStepKeeps
  <2>5. \A v \in Threads : /\ ut[v] \in Ended => ut'[v] = ut[v]
                           /\ ut[v] # "none" <=> ut'[v] # "none"
    BY <2>3, <2>4 DEF Ended
  <2> QED BY <2>1, <2>2, <2>5, OthersLeave
<1> QED BY <1>2, <1>3

(* Windows closes the handles, the window and the application when no      *)
(* thread is left that could use them, whichever waits timed out and       *)
(* whatever the threads that were terminated were doing.                   *)
THEOREM NobodyLeftBehind == Spec => []NobodyLeft
<1>1. Init => LeavingInv
  <2> SUFFICES ASSUME Init PROVE LeavingInv
    OBVIOUS
  <2>1. OnePair /\ WaitsDone
    BY DEF Init, CoreInit, Created, OnePair, WaitsDone
  <2> QED BY <2>1, InitType DEF LeavingInv
<1>2. LeavingInv /\ [Next]_vars => LeavingInv'
  <2> SUFFICES ASSUME LeavingInv, [Next]_vars PROVE LeavingInv'
    OBVIOUS
  <2>1. TypeInv'
    BY NextType DEF LeavingInv
  <2>2. OnePair' /\ WaitsDone'
    <3>1. CASE MainStep \/ EnqueueStep
      BY <3>1, MainStepLeaves
    <3>2. CASE CloseStep
      BY <3>2, CloseStepLeaves
    <3>3. CASE ComStep \/ Process
      BY <3>3, ComStepLeaves
    <3>4. ASSUME NEW t \in Threads, RenderSteps(t) \/ UpdateStep(t)
          PROVE  OnePair' /\ WaitsDone'
      BY <3>4, ThreadStepLeaves
    <3>5. CASE UNCHANGED vars
      <4>1. UNCHANGED <<main, com, rt, ut>>
        BY <3>5 DEF vars, coreVars, comVars
      <4> QED BY <4>1, OthersLeave
    <3> QED BY <3>1, <3>2, <3>3, <3>4, <3>5 DEF Next, Terminated
  <2> QED BY <2>1, <2>2 DEF LeavingInv
<1>3. LeavingInv => NobodyLeft
  BY DEF LeavingInv, WaitsDone, NobodyLeft
<1> QED BY <1>1, <1>2, <1>3, PTL DEF Spec

-----------------------------------------------------------------------------
(* Requests *)

(* hCanWrite is a lock: whoever is at the list of messages has reset it.   *)
ListLocked ==
  /\ main.pc \in {"write", "unlock"} \/ com.pc \in {"take", "reset", "release"} => ~canWrite
  /\ ~(main.pc \in {"write", "unlock"} /\ com.pc \in {"take", "reset", "release"})

(* A message is announced, or the UI thread is about to announce it; the   *)
(* COM thread takes the announcement back only when the list is empty.     *)
Announced ==
  /\ messages # <<>> => hasWork \/ main.pc \in {"unlock", "signal"}
  /\ com.pc = "reset" => messages = <<>>

WorkInv == ListLocked /\ Announced

(* A step of the UI thread: only PushMessage adds to the list, and only    *)
(* SignalWork leaves the two places from which it is still to announce.    *)
LEMMA MainStepAnnounces ==
  ASSUME TypeInv, WorkInv, MainStep \/ EnqueueStep \/ CloseStep
  PROVE  WorkInv'
<1> USE DEF WorkInv, ListLocked, Announced, TypeInv, TypeOK, MainAt, MainGoto, ComAt, ComGoto,
            comVars
<1>1. CASE StartCom        BY <1>1 DEF StartCom
<1>2. CASE CreateWindow
  <2>1. UNCHANGED comVars /\ main.pc = "window"
    BY <1>2 DEF CreateWindow
  <2>2. main'.pc \in {"window", "loop"}
    BY <1>2 DEF CreateWindow
  <2> QED BY <2>1, <2>2
<1>3. CASE Activate        BY <1>3 DEF Activate
<1>4. CASE SizeMove
  <2>1. main'.pc = main.pc /\ UNCHANGED comVars
    BY <1>4 DEF SizeMove
  <2> QED BY <2>1
<1>5. CASE KeyDown         BY <1>5 DEF KeyDown
<1>6. CASE Close
  <2>1. main'.pc = "stop" /\ main.pc = "loop" /\ UNCHANGED comVars
    BY <1>6 DEF Close
  <2> QED BY <2>1
<1>7. CASE LockMessages    BY <1>7 DEF LockMessages
<1>8. CASE PushMessage     BY <1>8 DEF PushMessage
<1>9. CASE UnlockMessages  BY <1>9 DEF UnlockMessages
<1>10. CASE SignalWork     BY <1>10 DEF SignalWork
<1>11. CASE Stop           BY <1>11 DEF Stop
<1>12. CASE Join           BY <1>12 DEF Join
<1>13. CASE TerminateRender BY <1>13 DEF TerminateRender, Terminate
<1>14. CASE StopUpdate     BY <1>14 DEF StopUpdate
<1>15. CASE JoinUpdate     BY <1>15 DEF JoinUpdate
<1>16. CASE TerminateUpdate BY <1>16 DEF TerminateUpdate, Terminate
<1>17. CASE StopCom        BY <1>17 DEF StopCom
<1>18. CASE WakeCom        BY <1>18 DEF WakeCom
<1>19. CASE JoinCom        BY <1>19 DEF JoinCom
<1>20. CASE TerminateCom   BY <1>20 DEF TerminateCom, Terminate
<1>21. CASE CloseWindow    BY <1>21 DEF CloseWindow
<1> QED BY <1>1, <1>2, <1>3, <1>4, <1>5, <1>6, <1>7, <1>8, <1>9, <1>10, <1>11, <1>12, <1>13,
           <1>14, <1>15, <1>16, <1>17, <1>18, <1>19, <1>20, <1>21
        DEF MainStep, EnqueueStep, CloseStep

(* A step of the COM thread: it resets the event with the lock held, after *)
(* it has found or made the list empty.                                    *)
LEMMA ComStepAnnounces ==
  ASSUME TypeInv, WorkInv, ComStep \/ Process
  PROVE  WorkInv'
<1> USE DEF WorkInv, ListLocked, Announced, TypeInv, TypeOK, MainAt, MainGoto, ComAt, ComGoto,
            comVars
<1>1. CASE Register
  <2>1. com'.pc \in {"wait", "exited"}
    BY <1>1 DEF Register
  <2>2. UNCHANGED <<main, messages, canWrite, hasWork>>
    BY <1>1 DEF Register
  <2> QED BY <2>1, <2>2
<1>2. CASE WaitForWork     BY <1>2 DEF WaitForWork
<1>3. CASE TestShutdown    BY <1>3 DEF TestShutdown
<1>4. CASE ComLock         BY <1>4 DEF ComLock, LockFree
<1>5. CASE TakeNothing     BY <1>5 DEF TakeNothing
<1>6. CASE TakeMessage     BY <1>6 DEF TakeMessage, Drained
<1>7. CASE ResetWork       BY <1>7 DEF ResetWork
<1>8. CASE ReleaseMessages BY <1>8 DEF ReleaseMessages
<1>9. CASE Process         BY <1>9 DEF Process
<1> QED BY <1>1, <1>2, <1>3, <1>4, <1>5, <1>6, <1>7, <1>8, <1>9 DEF ComStep

(* No request is forgotten, for any number of them: the COM thread does    *)
(* not sleep on a cleared event while there are messages, unless the UI    *)
(* thread is on its way to setting it.                                     *)
THEOREM NoRequestForgotten == Spec => []WorkSignalled
<1>1. Init => WorkInv
  BY DEF Init, WorkInv, ListLocked, Announced
<1>2. TypeInv /\ WorkInv /\ [Next]_vars => WorkInv'
  <2> SUFFICES ASSUME TypeInv, WorkInv, [Next]_vars PROVE WorkInv'
    OBVIOUS
  <2>1. CASE MainStep \/ EnqueueStep \/ CloseStep
    BY <2>1, MainStepAnnounces
  <2>2. CASE ComStep \/ Process
    BY <2>2, ComStepAnnounces
  <2>3. CASE UNCHANGED <<main, comVars>>
    BY <2>3 DEF WorkInv, ListLocked, Announced, comVars
  <2>4. ASSUME NEW t \in Threads, RenderSteps(t) \/ UpdateStep(t)
        PROVE  UNCHANGED <<main, comVars>>
    BY <2>4 DEF RenderSteps, UpdateStep
  <2>5. UNCHANGED vars => UNCHANGED <<main, comVars>>
    BY DEF vars
  <2> QED BY <2>1, <2>2, <2>3, <2>4, <2>5 DEF Next, Terminated
<1>3. WorkInv => WorkSignalled
  BY DEF WorkInv, Announced, WorkSignalled
<1> QED BY <1>1, <1>2, <1>3, InitType, NextType, PTL DEF Spec

-----------------------------------------------------------------------------
(* The swapchain and the frames in flight: the invariant *)

AnyHandle == [kind : Kinds, generation : Nat, index : Nat]
AnyFrame == [acquire : AnyHandle, fence : AnyHandle, state : {"signalled", "reset"},
             discard : SUBSET AnyHandle]
AnySubmission == [wait : AnyHandle, signal : AnyHandle, frame : Nat]
AnyPresentation == [swapchain : AnyHandle, image : Nat, wait : AnyHandle]

\* The entries of a queue.
EntriesOf(s) == {s[i] : i \in DOMAIN s}
Single(s) == \A i, j \in DOMAIN s : s[i] = s[j] => i = j

\* From the birth of a swapchain to the end of its images, of itself, of its frames.
HasImages == pc \notin {"create", "swapchain", "frames", "surface", "destroyed"}
HasSwapchain == HasImages \/ pc = "swapchain"
HasFrames == HasSwapchain \/ pc = "frames"

\* An image was acquired and is not yet to be presented, or never will be.
Holding == pc \in {"reset", "submit", "tick", "present", "resize", "exited"}

(* The swapchains are numbered in the order of their creation.             *)
Swapchains == {h \in created : h.kind = "swapchain"}

GenerationInv ==
  /\ IsFiniteSet(Swapchains)
  /\ Generation \in Nat
  /\ Swapchains = {Handle("swapchain", g, 0) : g \in 1 .. Generation}
  /\ pc # "create" => Generation > 0

(* What belongs to the swapchain is named after it.                        *)
ImagesInv ==
  /\ IF HasImages
     THEN \E n \in ImageCounts : images = [i \in Indices(n) |-> NewImage(i, Generation)]
     ELSE images = <<>>
  /\ swapchain = IF HasSwapchain THEN Handle("swapchain", Generation, 0) ELSE NoHandle

FramesInv ==
  /\ \E k \in Nat : frames \in [Indices(k) -> AnyFrame] /\ (k = 0 <=> ~HasFrames)
  /\ \A f \in DOMAIN frames : /\ frames[f].acquire = Handle("acquire", Generation, f)
                              /\ frames[f].fence.kind = "fence"
  /\ frameIndex \in Nat /\ (HasFrames => frameIndex \in DOMAIN frames)
  /\ pc = "create" => frameIndex = 0

NameInv == GenerationInv /\ ImagesInv /\ FramesInv

-----------------------------------------------------------------------------
(* What waits in the two queues, and in what order things come to it.      *)

Pending(s) == s \in promised \cup signalled
Coming(s) == s \in signalled \cup Signals

\* an Android application never gets as far as a frame
AndroidInv ==
  ~desktop => /\ pc \in {"create", "round", "idle", "images", "swapchain", "frames", "surface",
                         "destroyed"}
              /\ queue = <<>> /\ presents = <<>> /\ promised = {} /\ signalled = {}

QuietInv == pc \in {"images", "swapchain", "frames", "surface", "destroyed"} => Idle

SemaphoresInv ==
  /\ promised \subseteq [kind : {"acquire"}, generation : 1 .. Generation, index : Nat]
  /\ signalled \subseteq [kind : {"acquire", "present"}, generation : 1 .. Generation, index : Nat]
  /\ promised \intersect signalled = {}

QueueInv ==
  /\ queue \in Seq(AnySubmission) /\ Single(queue)
  /\ \A e \in EntriesOf(queue) :
       /\ e.frame \in DOMAIN frames /\ e.wait.index = e.frame
       /\ e.wait.kind = "acquire" /\ e.wait.generation \in 1 .. Generation
       /\ e.signal.kind = "present" /\ e.signal.generation \in 1 .. Generation
       /\ Pending(e.wait) /\ e.signal \notin signalled
  /\ \A e, d \in EntriesOf(queue) : e.frame = d.frame \/ e.signal = d.signal => e = d

PresentsInv ==
  /\ presents \in Seq(AnyPresentation) /\ Single(presents)
  /\ \A p \in EntriesOf(presents) :
       /\ p.swapchain.generation \in 1 .. Generation
       /\ p.swapchain = Handle("swapchain", p.swapchain.generation, 0)
       /\ p.wait = Handle("present", p.swapchain.generation, p.image)
       /\ p.swapchain = swapchain => p.image \in DOMAIN images
       /\ Coming(p.wait)
  /\ \A p, q \in EntriesOf(presents) : p.wait = q.wait => p = q

(* A frame whose fence is signalled has nothing in the queue, one whose    *)
(* fence is not has, and its semaphore is free unless it does, save for    *)
(* the frame that is at it.                                                *)
FenceInv ==
  \A f \in DOMAIN frames :
    LET submitted == \E e \in EntriesOf(queue) : e.frame = f IN
    /\ frames[f].state = "signalled" => ~submitted
    /\ frames[f].state = "reset" => submitted \/ (f = frameIndex /\ pc \in {"submit", "exited"})
    /\ Pending(frames[f].acquire) =>
         \/ \E e \in EntriesOf(queue) : e.wait = frames[f].acquire
         \/ f = frameIndex /\ pc \in {"reset", "submit", "resize", "exited"}

FrameInv ==
  /\ pc \in {"acquire", "reset"} => Frame.state = "signalled"
  /\ pc \in {"reset", "submit"} => Pending(Frame.acquire)
  /\ pc = "submit" => /\ Frame.state = "reset"
                      /\ \A e \in EntriesOf(queue) : e.frame # frameIndex

(* An image may be acquired, or is on the screen, or in the queue of       *)
(* presentations, or is the one at hand; as long as it is one of the first *)
(* two nothing signals its semaphore.                                      *)
ImageInv ==
  HasImages =>
    /\ free \intersect shown = {}
    /\ \A i \in free \cup shown : i \in DOMAIN images /\ ~Coming(images[i].sem)
    /\ \A i \in DOMAIN images :
         \/ i \in free \cup shown
         \/ \E p \in EntriesOf(presents) : p.swapchain = swapchain /\ p.image = i
         \/ i = imageIndex /\ Holding

HeldInv ==
  /\ pc \in {"reset", "submit", "tick", "present"} =>
       imageIndex \in DOMAIN images /\ imageIndex \notin free \cup shown
  /\ pc \in {"reset", "submit"} => ~Coming(PresentSemaphore)
  /\ pc \in {"submit", "tick", "present"} => data = PresentSemaphore
  /\ pc \in {"tick", "present"} =>
       Coming(data) /\ \A p \in EntriesOf(presents) : p.wait # data

SemInv ==
  /\ AndroidInv /\ QuietInv /\ SemaphoresInv /\ QueueInv /\ PresentsInv
  /\ FenceInv /\ FrameInv /\ ImageInv /\ HeldInv

-----------------------------------------------------------------------------
(* Who owns a handle.                                                      *)

Discards == UNION {frames[f].discard : f \in DOMAIN frames}
Fences == {frames[f].fence : f \in DOMAIN frames}
InUse == ImageHandles \cup AcquireHandles \cup ({swapchain, surface} \ {NoHandle})
FirstSurface == Handle("surface", 1, 0)

DiscardsInv ==
  /\ \A f \in DOMAIN frames : \A h \in frames[f].discard :
       h.kind \in {"present", "view", "acquire", "swapchain"} /\ h.generation < Generation
  /\ \A f, k \in DOMAIN frames : f # k => frames[f].discard \intersect frames[k].discard = {}

GoneInv ==
  /\ HasImages => gone = {}
  /\ pc = "create" => gone = {}
  /\ pc \in {"swapchain", "frames"} =>
       \A h \in gone : /\ h.generation = Generation
                       /\ h.kind \in IF pc = "swapchain" THEN {"present", "view"}
                                                         ELSE {"present", "view", "swapchain"}
  /\ pc = "surface" => \A h \in gone : h.kind # "surface"

(* Handles are in use or discarded or destroyed, as long as the surface is *)
(* the first one.                                                          *)
AccountInv ==
  /\ IF pc = "destroyed" THEN surface = NoHandle
     ELSE surface = Handle("surface", surface.generation, 0) /\ surface.generation \in Nat \ {0}
  /\ surface = FirstSurface \/ FirstSurface \in gone =>
       created = InUse \cup Fences \cup Discards \cup gone

OwnInv == DiscardsInv /\ GoneInv /\ AccountInv

-----------------------------------------------------------------------------
(* Lemmas about sequences, indices and names                               *)

(* A submission or a presentation joins its queue at the end.              *)
LEMMA AppendEntries ==
  ASSUME NEW S, NEW s \in Seq(S), NEW e \in S
  PROVE  /\ Append(s, e) \in Seq(S)
         /\ EntriesOf(Append(s, e)) = EntriesOf(s) \cup {e}
         /\ Single(s) /\ e \notin EntriesOf(s) => Single(Append(s, e))
<1>1. /\ Append(s, e) \in Seq(S) /\ Len(Append(s, e)) = Len(s) + 1 /\ Len(s) \in Nat
      /\ \A i \in 1 .. Len(s) + 1 :
           Append(s, e)[i] = IF i = Len(s) + 1 THEN e ELSE s[i]
  OBVIOUS
<1>2. DOMAIN s = 1 .. Len(s) /\ DOMAIN Append(s, e) = 1 .. Len(s) + 1
  BY <1>1
<1>3. EntriesOf(Append(s, e)) = EntriesOf(s) \cup {e}
  BY <1>1, <1>2 DEF EntriesOf
<1>4. ASSUME Single(s), e \notin EntriesOf(s)
      PROVE  Single(Append(s, e))
  BY <1>1, <1>2, <1>4 DEF Single, EntriesOf
<1> QED BY <1>1, <1>3, <1>4

(* The first of a queue leaves it, and no other.                           *)
LEMMA TailEntries ==
  ASSUME NEW S, NEW s \in Seq(S), s # <<>>, Single(s)
  PROVE  /\ Tail(s) \in Seq(S) /\ Single(Tail(s))
         /\ Head(s) \in EntriesOf(s) /\ Head(s) \in S
         /\ EntriesOf(Tail(s)) = EntriesOf(s) \ {Head(s)}
<1>1. /\ Tail(s) \in Seq(S) /\ Len(Tail(s)) = Len(s) - 1 /\ Len(s) \in Nat \ {0}
      /\ \A i \in 1 .. Len(s) - 1 : Tail(s)[i] = s[i + 1]
      /\ Head(s) = s[1]
  OBVIOUS
<1>2. DOMAIN s = 1 .. Len(s) /\ DOMAIN Tail(s) = 1 .. Len(s) - 1
  BY <1>1
<1>3. Head(s) \in EntriesOf(s) /\ Head(s) \in S
  BY <1>1, <1>2 DEF EntriesOf
<1>4. Single(Tail(s))
  BY <1>1, <1>2 DEF Single
<1>5. ASSUME NEW e \in EntriesOf(s), e # Head(s)
      PROVE  e \in EntriesOf(Tail(s))
  <2>1. PICK i \in 1 .. Len(s) : e = s[i]
    BY <1>2 DEF EntriesOf
  <2>2. i # 1
    BY <1>1, <1>5, <2>1
  <2>3. i - 1 \in 1 .. Len(s) - 1 /\ Tail(s)[i - 1] = e
    BY <1>1, <2>1, <2>2
  <2> QED BY <1>2, <2>3 DEF EntriesOf
<1>6. ASSUME NEW e \in EntriesOf(Tail(s))
      PROVE  e \in EntriesOf(s) /\ e # Head(s)
  <2>1. PICK i \in 1 .. Len(s) - 1 : e = Tail(s)[i]
    BY <1>2 DEF EntriesOf
  <2>2. i + 1 \in DOMAIN s /\ 1 \in DOMAIN s /\ i + 1 # 1 /\ e = s[i + 1]
    BY <1>1, <1>2, <2>1
  <2> QED BY <1>1, <2>2 DEF EntriesOf, Single
<1> QED BY <1>1, <1>3, <1>4, <1>5, <1>6

(* An empty queue.                                                         *)
LEMMA EmptyEntries ==
  /\ EntriesOf(<<>>) = {} /\ Single(<<>>)
  /\ \A S : <<>> \in Seq(S)
BY DEF EntriesOf, Single

(* std::max of two numbers.                                                *)
LEMMA MaxOfTwo ==
  ASSUME NEW a \in Nat, NEW b \in Nat
  PROVE  Max({a, b}) \in {a, b} /\ Max({a, b}) >= a /\ Max({a, b}) >= b
<1>1. \E x \in {a, b} : \A y \in {a, b} : x >= y
  OBVIOUS
<1> QED BY <1>1 DEF Max

(* The indices of a vector, and how many there are.                        *)
LEMMA IndicesCount ==
  ASSUME NEW k \in Nat
  PROVE  Cardinality(Indices(k)) = k
BY FS_Interval DEF Indices

(* A handle is what its three fields are.                                  *)
LEMMA HandleFields ==
  ASSUME NEW kind \in Kinds, NEW g \in Nat, NEW i \in Nat
  PROVE  /\ Handle(kind, g, i) \in AnyHandle /\ Handle(kind, g, i) # NoHandle
         /\ Handle(kind, g, i).kind = kind
         /\ Handle(kind, g, i).generation = g
         /\ Handle(kind, g, i).index = i
BY DEF Handle, AnyHandle, NoHandle, Kinds

(* The images of a swapchain.                                              *)
LEMMA ImageNames ==
  ASSUME GenerationInv, ImagesInv, HasImages
  PROVE  /\ \E n \in ImageCounts : DOMAIN images = Indices(n)
         /\ 0 \in DOMAIN images /\ DOMAIN images \subseteq Nat /\ images # <<>>
         /\ \A i \in DOMAIN images :
              /\ images[i].sem = Handle("present", Generation, i)
              /\ images[i].view = Handle("view", Generation, i)
<1>1. PICK n \in ImageCounts : images = [i \in Indices(n) |-> NewImage(i, Generation)]
  BY DEF ImagesInv
<1>2. n \in Nat \ {0} /\ DOMAIN images = Indices(n)
  BY <1>1, SwapchainAssumption
<1>3. 0 \in DOMAIN images /\ DOMAIN images \subseteq Nat
  BY <1>2 DEF Indices
<1>4. images # <<>>
  <2>1. DOMAIN <<>> = {}
    OBVIOUS
  <2> QED BY <1>3, <2>1
<1>5. \A i \in DOMAIN images : /\ images[i].sem = Handle("present", Generation, i)
                              /\ images[i].view = Handle("view", Generation, i)
  BY <1>1 DEF NewImage
<1> QED BY <1>2, <1>3, <1>4, <1>5

(* The frames in flight.                                                   *)
LEMMA FrameNames ==
  ASSUME FramesInv
  PROVE  /\ DOMAIN frames \subseteq Nat
         /\ \A f \in DOMAIN frames : /\ frames[f] \in AnyFrame
                                     /\ frames[f].acquire.kind = "acquire"
                                     /\ frames[f].acquire.generation = Generation
                                     /\ frames[f].acquire.index = f
                                     /\ frames[f].fence.kind = "fence"
<1>1. /\ DOMAIN frames \subseteq Nat
      /\ \A f \in DOMAIN frames : frames[f] \in AnyFrame
  BY DEF FramesInv, Indices
<1>2. \A f \in DOMAIN frames : /\ frames[f].acquire = Handle("acquire", Generation, f)
                              /\ frames[f].fence.kind = "fence"
  BY DEF FramesInv
<1>3. ASSUME NEW f \in DOMAIN frames
      PROVE  /\ frames[f].acquire.kind = "acquire"
             /\ frames[f].acquire.generation = Generation
             /\ frames[f].acquire.index = f
  <2>1. frames[f].acquire = Handle("acquire", Generation, f)
    BY <1>2
  <2> QED BY <2>1 DEF Handle
<1> QED BY <1>1, <1>2, <1>3

(* What recreateSwapchain puts on the discard list.                        *)
LEMMA DiscardedNames ==
  ASSUME NameInv, HasImages
  PROVE  \A h \in Discarded : /\ h \in AnyHandle /\ h.generation = Generation
                              /\ h.kind \in {"present", "view", "acquire", "swapchain"}
<1> USE DEF NameInv
<1>1. Generation \in Nat
  BY DEF GenerationInv
<1>2. \A h \in ImageHandles : /\ h \in AnyHandle /\ h.generation = Generation
                              /\ h.kind \in {"present", "view"}
  BY <1>1, ImageNames DEF ImageHandles, Handle, AnyHandle, Kinds
<1>3. \A h \in AcquireHandles : /\ h \in AnyHandle /\ h.generation = Generation
                                /\ h.kind = "acquire"
  <2>1. ASSUME NEW f \in DOMAIN frames
        PROVE  /\ frames[f].acquire \in AnyHandle /\ frames[f].acquire.generation = Generation
               /\ frames[f].acquire.kind = "acquire"
    <3>1. f \in Nat /\ frames[f].acquire = Handle("acquire", Generation, f)
      BY FrameNames DEF FramesInv
    <3> QED BY <1>1, <3>1, HandleFields DEF Kinds
  <2> QED BY <2>1 DEF AcquireHandles
<1>4. swapchain \in AnyHandle /\ swapchain.generation = Generation /\ swapchain.kind = "swapchain"
  BY <1>1 DEF ImagesInv, HasSwapchain, Handle, AnyHandle, Kinds
<1> QED BY <1>2, <1>3, <1>4 DEF Discarded

(* What recreateSwapchain makes of the frames: all get new semaphores, the *)
(* old ones keep their fences, and the current one gets what there was.    *)
LEMMA ReplacedFrames ==
  ASSUME NameInv, pc \in {"create", "resize"}, NEW n \in ImageCounts, Replace(n)
  PROVE  /\ \E m \in Nat \ {0} : frames' \in [Indices(m) -> AnyFrame]
         /\ DOMAIN frames \subseteq DOMAIN frames' /\ frameIndex \in DOMAIN frames'
         /\ \A f \in DOMAIN frames' :
              /\ f \in Nat
              /\ frames'[f].acquire = Handle("acquire", Generation + 1, f)
              /\ f \in DOMAIN frames =>
                   /\ frames'[f].fence = frames[f].fence
                   /\ frames'[f].state = frames[f].state
                   /\ frames'[f].discard = frames[f].discard
                                             \cup (IF f = frameIndex THEN Discarded ELSE {})
              /\ f \notin DOMAIN frames =>
                   /\ frames'[f].fence = Handle("fence", Generation + 1, f)
                   /\ frames'[f].state = "signalled" /\ frames'[f].discard = {}
         /\ pc = "create" => DOMAIN frames = {}
<1> DEFINE g == Generation + 1
           all == Indices(FrameCount(n))
           refreshed == [f \in all |-> IF f \in DOMAIN frames THEN Refreshed(f, g)
                                                              ELSE NewFrame(f, g)]
<1>1. g \in Nat
  BY DEF NameInv, GenerationInv
<1>2. PICK k \in Nat : frames \in [Indices(k) -> AnyFrame] /\ (k = 0 <=> ~HasFrames)
  BY DEF NameInv, FramesInv
<1>3. n \in Nat \ {0}
  BY SwapchainAssumption
<1>4. FrameCount(n) \in Nat \ {0} /\ FrameCount(n) >= k
  BY <1>2, <1>3, IndicesCount, MaxOfTwo DEF FrameCount
<1>5. DOMAIN frames = Indices(k) /\ DOMAIN frames \subseteq all /\ all \subseteq Nat
  BY <1>2, <1>4 DEF Indices
<1>6. refreshed \in [all -> AnyFrame]
  <2>1. ASSUME NEW f \in all
        PROVE  /\ Handle("acquire", g, f) \in AnyHandle
               /\ NewFrame(f, g) \in AnyFrame
    BY <1>1, <1>5, <2>1, HandleFields DEF NewFrame, AnyFrame, Kinds
  <2>2. ASSUME NEW f \in DOMAIN frames
        PROVE  Refreshed(f, g) \in AnyFrame
    BY <1>2, <1>5, <2>1, <2>2 DEF Refreshed, AnyFrame
  <2> QED BY <2>1, <2>2
<1>7. \A f \in all : /\ refreshed[f].acquire = Handle("acquire", g, f)
                     /\ f \in DOMAIN frames => /\ refreshed[f].fence = frames[f].fence
                                               /\ refreshed[f].state = frames[f].state
                                               /\ refreshed[f].discard = frames[f].discard
                     /\ f \notin DOMAIN frames => refreshed[f] = NewFrame(f, g)
  <2>1. ASSUME NEW f \in DOMAIN frames
        PROVE  /\ Refreshed(f, g).acquire = Handle("acquire", g, f)
               /\ Refreshed(f, g).fence = frames[f].fence
               /\ Refreshed(f, g).state = frames[f].state
               /\ Refreshed(f, g).discard = frames[f].discard
    BY <1>2, <1>5 DEF Refreshed, AnyFrame
  <2> QED BY <1>5, <2>1 DEF NewFrame
<1>8. CASE pc = "create"
  <2>1. k = 0 /\ frameIndex = 0 /\ images = <<>>
    BY <1>2, <1>8 DEF NameInv, FramesInv, ImagesInv, HasFrames, HasSwapchain, HasImages
  <2>2. frames' = refreshed /\ DOMAIN frames = {} /\ 0 \in all
    BY <1>4, <1>5, <2>1 DEF Replace, Indices
  <2> QED BY <1>4, <1>5, <1>6, <1>7, <2>1, <2>2 DEF NewFrame
<1>9. CASE pc = "resize"
  <2>1. HasImages /\ HasFrames
    BY <1>9 DEF HasFrames, HasSwapchain, HasImages
  <2>2. images # <<>> /\ frameIndex \in DOMAIN frames
    BY <2>1, ImageNames DEF NameInv, FramesInv
  <2>3. frames' = [refreshed EXCEPT ![frameIndex].discard = @ \cup Discarded]
    BY <2>2 DEF Replace
  <2>4. Discarded \subseteq AnyHandle
    BY <2>1, DiscardedNames
  <2>5. frames' \in [all -> AnyFrame]
    <3>1. ASSUME NEW r \in AnyFrame
          PROVE  [r EXCEPT !.discard = @ \cup Discarded] \in AnyFrame
      BY <2>4, <3>1 DEF AnyFrame
    <3> QED BY <1>5, <1>6, <2>2, <2>3, <3>1
  <2>6. \A f \in all :
          /\ frames'[f].acquire = refreshed[f].acquire
          /\ frames'[f].fence = refreshed[f].fence
          /\ frames'[f].state = refreshed[f].state
          /\ frames'[f].discard = refreshed[f].discard
                                    \cup (IF f = frameIndex THEN Discarded ELSE {})
    BY <1>5, <1>6, <2>2, <2>3 DEF AnyFrame
  <2>7. \A f \in all : f \notin DOMAIN frames => /\ frames'[f].fence = Handle("fence", g, f)
                                                 /\ frames'[f].state = "signalled"
                                                 /\ frames'[f].discard = {}
    BY <1>7, <2>2, <2>6 DEF NewFrame
  <2> QED BY <1>4, <1>5, <1>7, <1>9, <2>2, <2>5, <2>6, <2>7
<1> QED BY <1>8, <1>9

(* vkCreateSwapchainKHR gives the next swapchain.                          *)
LEMMA NextGeneration ==
  ASSUME NameInv, pc \in {"create", "resize"}, NEW n \in ImageCounts, Replace(n)
  PROVE  /\ Generation' = Generation + 1
         /\ IsFiniteSet(Swapchains')
         /\ Swapchains' = {Handle("swapchain", g, 0) : g \in 1 .. Generation'}
<1> DEFINE new == Handle("swapchain", Generation + 1, 0)
<1>1. Generation \in Nat
  BY DEF NameInv, GenerationInv
<1>2. new.kind = "swapchain" /\ new \notin Swapchains
  <2>1. \A g \in 1 .. Generation : Handle("swapchain", g, 0) # new
    BY <1>1 DEF Handle
  <2> QED BY <2>1 DEF Handle, NameInv, GenerationInv
<1>3. Swapchains' = Swapchains \cup {new}
  <2>1. \A i \in Indices(n) : /\ images'[i].sem.kind # "swapchain"
                               /\ images'[i].view.kind # "swapchain"
    BY DEF Replace, NewImage, Handle
  <2>2. \A f \in DOMAIN frames' :
          frames'[f].acquire.kind # "swapchain" /\ frames'[f].fence.kind # "swapchain"
    <3>1. ASSUME NEW f \in DOMAIN frames'
          PROVE  frames'[f].acquire.kind = "acquire" /\ frames'[f].fence.kind = "fence"
      <4>1. frames'[f].acquire = Handle("acquire", Generation + 1, f)
        BY ReplacedFrames
      <4>2. CASE f \in DOMAIN frames
        <5>1. frames'[f].fence = frames[f].fence
          BY <4>2, ReplacedFrames
        <5>2. frames[f].fence.kind = "fence"
          BY <4>2 DEF NameInv, FramesInv
        <5> QED BY <4>1, <5>1, <5>2 DEF Handle
      <4>3. CASE f \notin DOMAIN frames
        <5>1. frames'[f].fence = Handle("fence", Generation + 1, f)
          BY <4>3, ReplacedFrames
        <5> QED BY <4>1, <5>1 DEF Handle
      <4> QED BY <4>2, <4>3
    <3> QED BY <3>1
  <2>3. swapchain' = new
    BY DEF Replace
  <2>4. created' = created \cup {new}
                  \cup (UNION {{images'[i].sem, images'[i].view} : i \in Indices(n)})
                  \cup (UNION {{frames'[f].acquire, frames'[f].fence} : f \in DOMAIN frames'})
    BY <2>3 DEF Replace
  <2> QED BY <1>2, <2>1, <2>2, <2>4 DEF Swapchains
<1>4. IsFiniteSet(Swapchains') /\ Cardinality(Swapchains') = Cardinality(Swapchains) + 1
  BY <1>2, <1>3, FS_AddElement DEF NameInv, GenerationInv
<1>5. Generation' = Generation + 1
  BY <1>4 DEF Generation, Swapchains
<1>6. Swapchains' = {Handle("swapchain", g, 0) : g \in 1 .. Generation'}
  BY <1>1, <1>3, <1>5 DEF NameInv, GenerationInv
<1> QED BY <1>4, <1>5, <1>6

-----------------------------------------------------------------------------
(* Every step keeps the names                                              *)

(* At the start nothing has a name.                                        *)
LEMMA InitName ==
  ASSUME SwapchainInit
  PROVE  NameInv
<1>1. Swapchains = {}
  BY DEF SwapchainInit, Swapchains, Handle
<1>2. GenerationInv
  <2>1. IsFiniteSet({}) /\ Cardinality({}) = 0 /\ 1 .. 0 = {}
    BY FS_EmptySet
  <2>2. Generation = 0
    BY <1>1, <2>1 DEF Generation, Swapchains
  <2> QED BY <1>1, <2>1, <2>2 DEF GenerationInv, SwapchainInit
<1>3. ImagesInv
  BY DEF SwapchainInit, ImagesInv, HasImages, HasSwapchain
<1>4. FramesInv
  <2>1. DOMAIN frames = {} /\ Indices(0) = {}
    BY DEF SwapchainInit, Indices
  <2>2. frames \in [Indices(0) -> AnyFrame]
    BY <2>1 DEF SwapchainInit
  <2> QED BY <2>1, <2>2 DEF SwapchainInit, FramesInv, HasFrames, HasSwapchain, HasImages
<1> QED BY <1>2, <1>3, <1>4 DEF NameInv

(* A replacement gives names of the next generation.                       *)
LEMMA ReplaceName ==
  ASSUME NameInv, pc \in {"create", "resize"}, NEW n \in ImageCounts, Replace(n),
         pc' = "round", UNCHANGED frameIndex
  PROVE  NameInv'
<1>1. Generation \in Nat /\ Generation' = Generation + 1
  BY NextGeneration DEF NameInv, GenerationInv
<1>2. GenerationInv'
  BY <1>1, NextGeneration DEF GenerationInv
<1>3. ImagesInv'
  BY <1>1 DEF Replace, ImagesInv, HasImages, HasSwapchain
<1>4. FramesInv'
  <2>1. HasFrames'
    BY DEF HasFrames, HasSwapchain, HasImages
  <2>2. \E k \in Nat : frames' \in [Indices(k) -> AnyFrame] /\ (k = 0 <=> ~HasFrames')
    BY <2>1, ReplacedFrames
  <2>3. ASSUME NEW f \in DOMAIN frames'
        PROVE  /\ frames'[f].acquire = Handle("acquire", Generation', f)
               /\ frames'[f].fence.kind = "fence"
    <3>1. CASE f \in DOMAIN frames
      BY <1>1, <3>1, ReplacedFrames DEF NameInv, FramesInv
    <3>2. CASE f \notin DOMAIN frames
      <4>1. /\ frames'[f].acquire = Handle("acquire", Generation + 1, f)
            /\ frames'[f].fence = Handle("fence", Generation + 1, f)
        BY <3>2, ReplacedFrames
      <4> QED BY <1>1, <4>1 DEF Handle
    <3> QED BY <3>1, <3>2
  <2>4. frameIndex' \in Nat /\ frameIndex' \in DOMAIN frames'
    BY ReplacedFrames DEF NameInv, FramesInv
  <2> QED BY <2>2, <2>3, <2>4 DEF FramesInv
<1> QED BY <1>2, <1>3, <1>4 DEF NameInv

(* The state of one fence changes.                                         *)
LEMMA FenceChanged ==
  ASSUME NEW k \in Nat, frames \in [Indices(k) -> AnyFrame],
         NEW x \in Nat, NEW y \in {"signalled", "reset"},
         frames' = [frames EXCEPT ![x].state = y]
  PROVE  /\ frames' \in [Indices(k) -> AnyFrame]
         /\ \A f \in Indices(k) : /\ frames'[f].acquire = frames[f].acquire
                                 /\ frames'[f].fence = frames[f].fence
                                 /\ frames'[f].discard = frames[f].discard
                                 /\ frames'[f].state = IF f = x THEN y ELSE frames[f].state
<1>1. ASSUME NEW r \in AnyFrame
      PROVE  /\ [r EXCEPT !.state = y] \in AnyFrame
             /\ [r EXCEPT !.state = y].acquire = r.acquire
             /\ [r EXCEPT !.state = y].fence = r.fence
             /\ [r EXCEPT !.state = y].discard = r.discard
             /\ [r EXCEPT !.state = y].state = y
  BY <1>1 DEF AnyFrame
<1>2. \A f \in Indices(k) : frames'[f] = IF f = x THEN [frames[f] EXCEPT !.state = y] ELSE frames[f]
  OBVIOUS
<1>3. frames' \in [Indices(k) -> AnyFrame]
  BY <1>1, <1>2
<1> QED BY <1>1, <1>2, <1>3

(* A step of the render thread between two recreations, or of the device:  *)
(* all it may change of a frame is the state of a fence.                   *)
LEMMA NamesKept ==
  ASSUME NameInv, UNCHANGED <<images, swapchain, created>>,
         frameIndex' = frameIndex \/ (frameIndex' \in DOMAIN frames /\ pc # "create"),
         \/ UNCHANGED frames
         \/ \E x \in Nat : \E y \in {"signalled", "reset"} :
              frames' = [frames EXCEPT ![x].state = y],
         pc' = pc \/ (HasImages /\ HasImages')
  PROVE  NameInv'
<1>1. HasImages' = HasImages /\ HasSwapchain' = HasSwapchain /\ HasFrames' = HasFrames
      /\ (pc' = "create" <=> pc = "create")
  BY DEF HasImages, HasSwapchain, HasFrames
<1>2. Generation' = Generation /\ GenerationInv'
  BY <1>1 DEF NameInv, GenerationInv, Generation, Swapchains
<1>3. ImagesInv'
  BY <1>1, <1>2 DEF NameInv, ImagesInv, NewImage
<1>4. FramesInv'
  <2>1. PICK k \in Nat : frames \in [Indices(k) -> AnyFrame] /\ (k = 0 <=> ~HasFrames)
    BY DEF NameInv, FramesInv
  <2>2. CASE UNCHANGED frames
    BY <1>1, <1>2, <2>1, <2>2 DEF NameInv, FramesInv, Indices
  <2>3. ASSUME NEW x \in Nat, NEW y \in {"signalled", "reset"},
               frames' = [frames EXCEPT ![x].state = y]
        PROVE  FramesInv'
    <3>1. /\ frames' \in [Indices(k) -> AnyFrame]
          /\ \A f \in Indices(k) : /\ frames'[f].acquire = frames[f].acquire
                                  /\ frames'[f].fence = frames[f].fence
      BY <2>1, <2>3, FenceChanged
    <3>2. DOMAIN frames' = DOMAIN frames /\ DOMAIN frames = Indices(k) /\ Indices(k) \subseteq Nat
      BY <2>1, <3>1 DEF Indices
    <3> QED BY <1>1, <1>2, <2>1, <3>1, <3>2 DEF NameInv, FramesInv
  <2> QED BY <2>2, <2>3
<1> QED BY <1>2, <1>3, <1>4 DEF NameInv

(* Every step keeps what is known of the names.                            *)
LEMMA NameStep ==
  ASSUME NameInv, [SwapchainNext]_swapchainVars
  PROVE  NameInv'
<1> USE DEF object, device, At, Goto
<1>0. Generation \in Nat /\ DOMAIN frames \subseteq Nat
  BY FrameNames DEF NameInv, GenerationInv
<1>1. CASE BeginFrame \/ OutOfDate \/ Fail \/ Submit \/ PresentImage \/ Destroy \/ WaitIdle
           \/ AcquireImage
  BY <1>1, NamesKept DEF BeginFrame, OutOfDate, Fail, Submit, PresentImage, Destroy, WaitIdle,
                         AcquireImage, RequestResize, HasImages
<1>2. CASE WaitForFence \/ ResetFence
  <2>1. frameIndex \in Nat
    BY DEF NameInv, FramesInv
  <2> QED BY <1>2, <2>1, NamesKept DEF WaitForFence, ResetFence, StateWaited, HasImages
<1>3. CASE SignalNextFrame
  <2>1. PICK k \in Nat : frames \in [Indices(k) -> AnyFrame] /\ (k = 0 <=> ~HasFrames)
    BY DEF NameInv, FramesInv
  <2>2. k > 0 /\ Cardinality(DOMAIN frames) = k /\ DOMAIN frames = Indices(k)
    BY <1>3, <2>1, IndicesCount DEF SignalNextFrame, HasFrames, HasSwapchain, HasImages
  <2>3. frameIndex \in Nat
    BY DEF NameInv, FramesInv
  <2>4. NextFrame \in DOMAIN frames
    BY <2>2, <2>3 DEF NextFrame, Indices
  <2> QED BY <1>3, <2>4, NamesKept DEF SignalNextFrame, HasImages
<1>4. CASE Create \/ Resize
  BY <1>4, ReplaceName DEF Create, Resize
<1>5. CASE LoseSurface
  <2>1. Swapchains' = Swapchains
    BY <1>5 DEF LoseSurface, Swapchains, Handle
  <2>2. Generation' = Generation
    BY <2>1 DEF Generation, Swapchains
  <2>3. GenerationInv'
    BY <1>5, <2>1, <2>2 DEF NameInv, GenerationInv, LoseSurface
  <2>4. ImagesInv'
    BY <1>5 DEF LoseSurface, ImagesInv, HasImages, HasSwapchain
  <2>5. DOMAIN frames' = {} /\ Indices(0) = {}
    BY <1>5 DEF LoseSurface, Indices
  <2>6. frames' \in [Indices(0) -> AnyFrame]
    BY <1>5, <2>5 DEF LoseSurface
  <2>7. FramesInv'
    BY <1>5, <2>5, <2>6 DEF FramesInv, LoseSurface, HasFrames, HasSwapchain, HasImages
  <2> QED BY <2>3, <2>4, <2>7 DEF NameInv
<1>6. CASE DestroyImages \/ DestroySwapchain \/ DestroyFrames \/ DestroySurface
  <2>1. Generation' = Generation /\ GenerationInv'
    BY <1>6 DEF NameInv, GenerationInv, Generation, Swapchains, DestroyImages, DestroySwapchain,
                DestroyFrames, DestroySurface
  <2>2. ImagesInv'
    BY <1>6, <2>1 DEF NameInv, ImagesInv, HasImages, HasSwapchain, DestroyImages, DestroySwapchain,
                      DestroyFrames, DestroySurface
  <2>3. FramesInv'
    <3>1. CASE DestroyImages \/ DestroySwapchain \/ DestroySurface
      <4>1. HasFrames' = HasFrames /\ UNCHANGED <<frames, frameIndex>> /\ pc' # "create"
        BY <3>1 DEF HasFrames, HasSwapchain, HasImages, DestroyImages, DestroySwapchain,
                      DestroySurface
      <4> QED BY <2>1, <4>1 DEF NameInv, FramesInv
    <3>2. CASE DestroyFrames
      <4>1. DOMAIN frames' = {} /\ Indices(0) = {}
        BY <3>2 DEF DestroyFrames, Indices
      <4>2. frames' \in [Indices(0) -> AnyFrame]
        BY <3>2, <4>1 DEF DestroyFrames
      <4> QED BY <3>2, <4>1, <4>2 DEF NameInv, FramesInv, DestroyFrames, HasFrames, HasSwapchain,
                                      HasImages
    <3> QED BY <1>6, <3>1, <3>2
  <2> QED BY <2>1, <2>2, <2>3 DEF NameInv
<1>7. CASE SignalAcquired \/ ExecutePresent \/ Release \/ SwapchainTerminated
           \/ UNCHANGED swapchainVars
  BY <1>7, NamesKept DEF SignalAcquired, ExecutePresent, Release, SwapchainTerminated, swapchainVars
<1>8. CASE Execute
  <2>1. CASE Head(queue).frame \in DOMAIN frames
    BY <1>0, <1>8, <2>1, NamesKept DEF Execute
  <2>2. CASE Head(queue).frame \notin DOMAIN frames
    <3>1. frames' = frames
      BY <1>8, <2>2 DEF Execute, NameInv, FramesInv
    <3> QED BY <1>8, <3>1, NamesKept DEF Execute
  <2> QED BY <2>1, <2>2
<1> QED BY <1>1, <1>2, <1>3, <1>4, <1>5, <1>6, <1>7, <1>8
        DEF SwapchainNext, FrameStep, DestroyStep, DeviceStep

-----------------------------------------------------------------------------
(* Every handle has one owner                                              *)

(* At the start there is only the surface.                                 *)
LEMMA InitOwn ==
  ASSUME SwapchainInit
  PROVE  OwnInv
<1>1. DOMAIN frames = {} /\ DOMAIN images = {}
  BY DEF SwapchainInit
<1>2. DiscardsInv /\ GoneInv
  BY <1>1 DEF SwapchainInit, DiscardsInv, GoneInv
<1>3. surface = Handle("surface", 1, 0) /\ surface.generation = 1 /\ surface # NoHandle
  BY DEF SwapchainInit, Handle, NoHandle
<1>4. InUse = {surface} /\ Fences = {} /\ Discards = {}
  BY <1>1, <1>3 DEF SwapchainInit, InUse, ImageHandles, AcquireHandles, Fences, Discards
<1>5. AccountInv
  BY <1>3, <1>4 DEF SwapchainInit, AccountInv
<1> QED BY <1>2, <1>5 DEF OwnInv

(* A step that leaves the handles where they are.                          *)
LEMMA OwnKept ==
  ASSUME NameInv, OwnInv, UNCHANGED <<images, swapchain, surface, created, gone>>,
         DOMAIN frames' = DOMAIN frames,
         \A f \in DOMAIN frames : /\ frames'[f].acquire = frames[f].acquire
                                  /\ frames'[f].fence = frames[f].fence
                                  /\ frames'[f].discard = frames[f].discard,
         pc' = pc \/ (HasImages /\ HasImages')
  PROVE  OwnInv'
<1>1. Generation' = Generation
  BY DEF Generation
<1>2. HasImages' = HasImages
  BY DEF HasImages
<1>3. /\ ImageHandles' = ImageHandles /\ AcquireHandles' = AcquireHandles
      /\ Fences' = Fences /\ Discards' = Discards
  BY DEF ImageHandles, AcquireHandles, Fences, Discards
<1>4. DiscardsInv'
  BY <1>1 DEF OwnInv, DiscardsInv
<1>5. GoneInv'
  BY <1>1, <1>2 DEF OwnInv, GoneInv, HasImages
<1>6. AccountInv'
  BY <1>3 DEF OwnInv, AccountInv, InUse, HasImages
<1> QED BY <1>4, <1>5, <1>6 DEF OwnInv

(* recreateSwapchain discards what was in use and uses what it creates.    *)
LEMMA ReplaceOwn ==
  ASSUME NameInv, OwnInv, pc \in {"create", "resize"}, NEW n \in ImageCounts, Replace(n),
         pc' = "round", UNCHANGED <<frameIndex, surface, gone>>
  PROVE  OwnInv'
<1>1. Generation \in Nat /\ Generation' = Generation + 1
  BY NextGeneration DEF NameInv, GenerationInv
<1>2. gone = {} /\ gone' = {}
  BY DEF OwnInv, GoneInv, HasImages
<1>3. GoneInv'
  BY <1>2 DEF GoneInv
<1>4. HasImages \/ DOMAIN frames = {}
  BY ReplacedFrames DEF HasImages
<1>5. \A h \in Discarded : HasImages => /\ h.generation = Generation
                                        /\ h.kind \in {"present", "view", "acquire", "swapchain"}
  BY DiscardedNames
<1>6. DiscardsInv'
  <2>1. ASSUME NEW f \in DOMAIN frames', NEW h \in frames'[f].discard
        PROVE  /\ f \in DOMAIN frames
               /\ h.kind \in {"present", "view", "acquire", "swapchain"}
               /\ \/ h \in frames[f].discard /\ h.generation < Generation
                  \/ f = frameIndex /\ h.generation = Generation
    <3>1. f \in DOMAIN frames
      BY <2>1, ReplacedFrames
    <3>2. frames'[f].discard = frames[f].discard \cup (IF f = frameIndex THEN Discarded ELSE {})
      BY <3>1, ReplacedFrames
    <3>3. h \in frames[f].discard \/ (f = frameIndex /\ h \in Discarded)
      BY <2>1, <3>2
    <3> QED BY <1>4, <1>5, <3>1, <3>3 DEF OwnInv, DiscardsInv
  <2>2. ASSUME NEW f \in DOMAIN frames', NEW k \in DOMAIN frames', f # k,
               NEW h \in frames'[f].discard, h \in frames'[k].discard
        PROVE  FALSE
    <3>1. f \in DOMAIN frames /\ k \in DOMAIN frames
      BY <2>1, <2>2
    <3>2. h \in frames[f].discard /\ h \in frames[k].discard
      <4>1. \/ h \in frames[f].discard /\ h.generation < Generation
            \/ f = frameIndex /\ h.generation = Generation
        BY <2>1, <2>2
      <4>2. \/ h \in frames[k].discard /\ h.generation < Generation
            \/ k = frameIndex /\ h.generation = Generation
        BY <2>1, <2>2
      <4> QED BY <1>1, <2>2, <4>1, <4>2
    <3> QED BY <2>2, <3>1, <3>2 DEF OwnInv, DiscardsInv
  <2>3. ASSUME NEW f \in DOMAIN frames', NEW h \in frames'[f].discard
        PROVE  /\ h.kind \in {"present", "view", "acquire", "swapchain"}
               /\ h.generation < Generation'
    <3>1. /\ h.kind \in {"present", "view", "acquire", "swapchain"}
          /\ h.generation < Generation \/ h.generation = Generation
      BY <2>1, <2>3
    <3>2. frames'[f] \in AnyFrame
      BY ReplacedFrames
    <3>3. h \in AnyHandle
      BY <2>3, <3>2 DEF AnyFrame
    <3>4. h.generation \in Nat
      BY <3>3 DEF AnyHandle
    <3> QED BY <1>1, <3>1, <3>4
  <2> QED BY <2>2, <2>3 DEF DiscardsInv
<1>7. AccountInv'
  <2>1. surface = Handle("surface", surface.generation, 0) /\ surface.generation \in Nat \ {0}
    BY DEF OwnInv, AccountInv
  <2> SUFFICES ASSUME surface = FirstSurface
               PROVE  created' = InUse' \cup Fences' \cup Discards' \cup gone'
    BY <1>2, <2>1 DEF AccountInv, FirstSurface
  <2>2. created = InUse \cup Fences \cup Discards
    BY <1>2 DEF OwnInv, AccountInv
  <2>3. created' = created \cup {swapchain'} \cup ImageHandles' \cup AcquireHandles' \cup Fences'
    <3>1. UNION {{images'[i].sem, images'[i].view} : i \in Indices(n)} = ImageHandles'
      BY DEF Replace, ImageHandles
    <3>2. UNION {{frames'[f].acquire, frames'[f].fence} : f \in DOMAIN frames'}
            = AcquireHandles' \cup Fences'
      BY DEF AcquireHandles, Fences
    <3>3. created' = created \cup {swapchain'}
                  \cup (UNION {{images'[i].sem, images'[i].view} : i \in Indices(n)})
                  \cup (UNION {{frames'[f].acquire, frames'[f].fence} : f \in DOMAIN frames'})
      BY DEF Replace
    <3> QED BY <3>1, <3>2, <3>3
  <2>4. swapchain' # NoHandle /\ surface # NoHandle /\ surface' = surface
    BY <2>1 DEF Replace, Handle, NoHandle
  <2>5. InUse' = {swapchain', surface} \cup ImageHandles' \cup AcquireHandles'
    BY <2>4 DEF InUse
  <2>6. Fences \subseteq Fences'
    <3>1. \A f \in DOMAIN frames : f \in DOMAIN frames' /\ frames'[f].fence = frames[f].fence
      BY ReplacedFrames
    <3> QED BY <3>1 DEF Fences
  <2>7. Discards' = Discards \cup (IF HasImages THEN Discarded ELSE {})
    <3>1. ASSUME NEW h \in Discards'
          PROVE  h \in Discards \cup (IF HasImages THEN Discarded ELSE {})
      <4>1. PICK f \in DOMAIN frames' : h \in frames'[f].discard
        BY <3>1 DEF Discards
      <4>2. f \in DOMAIN frames
        BY <4>1, ReplacedFrames
      <4>3. frames'[f].discard = frames[f].discard \cup (IF f = frameIndex THEN Discarded ELSE {})
        BY <4>2, ReplacedFrames
      <4> QED BY <1>4, <4>1, <4>2, <4>3 DEF Discards
    <3>2. ASSUME NEW h \in Discards
          PROVE  h \in Discards'
      <4>1. PICK f \in DOMAIN frames : h \in frames[f].discard
        BY <3>2 DEF Discards
      <4>2. f \in DOMAIN frames' /\ frames[f].discard \subseteq frames'[f].discard
        BY ReplacedFrames
      <4> QED BY <4>1, <4>2 DEF Discards
    <3>3. ASSUME HasImages, NEW h \in Discarded
          PROVE  h \in Discards'
      <4>1. frameIndex \in DOMAIN frames
        BY <3>3 DEF NameInv, FramesInv, HasFrames, HasSwapchain
      <4>2. frameIndex \in DOMAIN frames' /\ Discarded \subseteq frames'[frameIndex].discard
        BY <4>1, ReplacedFrames
      <4> QED BY <3>3, <4>2 DEF Discards
    <3> QED BY <3>1, <3>2, <3>3
  <2>8. InUse = {surface} \cup (IF HasImages THEN Discarded ELSE {})
    <3>1. CASE HasImages
      <4>1. swapchain # NoHandle
        BY <3>1 DEF NameInv, ImagesInv, HasSwapchain, Handle, NoHandle
      <4> QED BY <2>4, <3>1, <4>1 DEF InUse, Discarded
    <3>2. CASE ~HasImages
      <4>1. pc = "create"
        BY <3>2 DEF HasImages
      <4>2. DOMAIN frames = {} /\ DOMAIN images = {} /\ swapchain = NoHandle
        BY <1>4, <3>2, <4>1 DEF NameInv, ImagesInv, HasSwapchain
      <4> QED BY <2>4, <3>2, <4>2 DEF InUse, ImageHandles, AcquireHandles
    <3> QED BY <3>1, <3>2
  <2> QED BY <1>2, <2>2, <2>3, <2>5, <2>6, <2>7, <2>8
<1> QED BY <1>3, <1>6, <1>7 DEF OwnInv

(* Every step keeps the account of who owns what.                          *)
LEMMA OwnStep ==
  ASSUME NameInv, OwnInv, [SwapchainNext]_swapchainVars
  PROVE  OwnInv'
<1> USE DEF object, device, At, Goto
<1>0. PICK k \in Nat : frames \in [Indices(k) -> AnyFrame] /\ (k = 0 <=> ~HasFrames)
  BY DEF NameInv, FramesInv
<1>1. CASE BeginFrame \/ OutOfDate \/ Fail \/ Submit \/ PresentImage \/ Destroy \/ WaitIdle
           \/ AcquireImage \/ SignalNextFrame
  BY <1>1, OwnKept DEF BeginFrame, OutOfDate, Fail, Submit, PresentImage, Destroy, WaitIdle,
                       AcquireImage, SignalNextFrame, RequestResize, HasImages
<1>2. ASSUME NEW x \in Nat, NEW y \in {"signalled", "reset"},
             frames' = [frames EXCEPT ![x].state = y],
             UNCHANGED <<images, swapchain, surface, created, gone>>,
             pc' = pc \/ (HasImages /\ HasImages')
      PROVE  OwnInv'
  <2>1. /\ DOMAIN frames' = DOMAIN frames
        /\ \A f \in DOMAIN frames : /\ frames'[f].acquire = frames[f].acquire
                                    /\ frames'[f].fence = frames[f].fence
                                    /\ frames'[f].discard = frames[f].discard
    BY <1>0, <1>2, FenceChanged
  <2> QED BY <1>2, <2>1, OwnKept
<1>3. CASE WaitForFence \/ ResetFence
  <2>1. frameIndex \in Nat
    BY DEF NameInv, FramesInv
  <2> QED BY <1>2, <1>3, <2>1 DEF WaitForFence, ResetFence, StateWaited, HasImages
<1>4. CASE Create \/ Resize
  BY <1>4, ReplaceOwn DEF Create, Resize
<1>5. CASE LoseSurface
  <2>1. DOMAIN frames' = {} /\ gone' = {}
    BY <1>5 DEF LoseSurface, OwnInv, GoneInv, HasImages
  <2>2. DiscardsInv' /\ GoneInv'
    BY <2>1 DEF DiscardsInv, GoneInv
  <2>3. Generation \in Nat \ {0}
    BY <1>5 DEF LoseSurface, NameInv, GenerationInv
  <2>4. /\ surface' = Handle("surface", surface'.generation, 0)
        /\ surface'.generation \in Nat \ {0} /\ surface' # FirstSurface
    BY <1>5, <2>3 DEF LoseSurface, Handle, FirstSurface
  <2>5. AccountInv'
    BY <1>5, <2>1, <2>4 DEF AccountInv, FirstSurface, LoseSurface
  <2> QED BY <2>2, <2>5 DEF OwnInv
<1>6. CASE DestroyImages \/ DestroySwapchain \/ DestroyFrames \/ DestroySurface
  <2>1. Generation' = Generation /\ Generation \in Nat
    BY <1>6 DEF NameInv, GenerationInv, Generation, DestroyImages, DestroySwapchain,
                DestroyFrames, DestroySurface
  <2>2. surface = Handle("surface", surface.generation, 0) /\ surface.generation \in Nat \ {0}
        /\ surface # NoHandle
    BY <1>6 DEF OwnInv, AccountInv, DestroyImages, DestroySwapchain, DestroyFrames,
                DestroySurface, Handle, NoHandle
  <2>3. CASE DestroyImages
    <3>1. HasImages /\ gone = {} /\ gone' = ImageHandles /\ DOMAIN images' = {}
      BY <2>3 DEF DestroyImages, HasImages, OwnInv, GoneInv
    <3>2. \A h \in ImageHandles : h.generation = Generation /\ h.kind \in {"present", "view"}
      BY <3>1, ImageNames DEF NameInv, ImageHandles, Handle
    <3>3. DiscardsInv' /\ GoneInv'
      BY <2>1, <2>3, <3>1, <3>2 DEF OwnInv, DiscardsInv, GoneInv, DestroyImages, HasImages
    <3>4. AccountInv'
      <4>1. FirstSurface \notin gone'
        BY <3>1, <3>2 DEF FirstSurface, Handle
      <4>2. ImageHandles' = {}
        BY <3>1 DEF ImageHandles
      <4>3. AcquireHandles' = AcquireHandles /\ Fences' = Fences /\ Discards' = Discards
            /\ UNCHANGED <<swapchain, surface, created>>
        BY <2>3 DEF DestroyImages, AcquireHandles, Fences, Discards
      <4> QED BY <2>2, <2>3, <3>1, <4>1, <4>2, <4>3 DEF OwnInv, AccountInv, InUse, DestroyImages
    <3> QED BY <3>3, <3>4 DEF OwnInv
  <2>4. CASE DestroySwapchain
    <3>1. swapchain = Handle("swapchain", Generation, 0) /\ images = <<>>
          /\ swapchain.kind = "swapchain" /\ swapchain.generation = Generation
          /\ swapchain # NoHandle
      BY <2>4 DEF DestroySwapchain, NameInv, ImagesInv, HasSwapchain, HasImages, Handle, NoHandle
    <3>2. DiscardsInv' /\ GoneInv'
      BY <2>1, <2>4, <3>1 DEF OwnInv, DiscardsInv, GoneInv, DestroySwapchain, HasImages
    <3>3. AccountInv'
      <4>1. FirstSurface \in gone' => FirstSurface \in gone
        BY <2>4, <3>1 DEF FirstSurface, Handle, DestroySwapchain
      <4>2. AcquireHandles' = AcquireHandles /\ Fences' = Fences /\ Discards' = Discards
            /\ ImageHandles' = ImageHandles /\ UNCHANGED <<surface, created>>
            /\ gone' = gone \cup {swapchain} /\ swapchain' = NoHandle
        BY <2>4 DEF DestroySwapchain, AcquireHandles, Fences, Discards, ImageHandles
      <4> QED BY <2>2, <2>4, <3>1, <4>1, <4>2 DEF OwnInv, AccountInv, InUse, DestroySwapchain
    <3> QED BY <3>2, <3>3 DEF OwnInv
  <2>5. CASE DestroyFrames
    <3>1. DOMAIN frames' = {} /\ DiscardsInv'
      BY <2>5 DEF DestroyFrames, DiscardsInv
    <3>2. gone' = gone \cup Fences \cup AcquireHandles \cup Discards
      BY <2>5 DEF DestroyFrames, Fences, AcquireHandles, Discards
    <3>3. \A h \in gone' : h.kind # "surface"
      <4>1. \A h \in gone : h.kind # "surface"
        BY <2>5 DEF DestroyFrames, OwnInv, GoneInv
      <4>2. \A h \in Fences \cup AcquireHandles \cup Discards : h.kind # "surface"
        <5>1. \A f \in DOMAIN frames : /\ frames[f].fence.kind = "fence"
                                       /\ frames[f].acquire.kind = "acquire"
          BY FrameNames DEF NameInv
        <5>2. \A h \in Discards : h.kind # "surface"
          BY DEF Discards, OwnInv, DiscardsInv
        <5> QED BY <5>1, <5>2 DEF Fences, AcquireHandles
      <4> QED BY <3>2, <4>1, <4>2
    <3>4. GoneInv'
      BY <2>5, <3>3 DEF GoneInv, HasImages, DestroyFrames
    <3>5. AccountInv'
      <4>1. FirstSurface \notin gone'
        BY <3>3 DEF FirstSurface, Handle
      <4>2. AcquireHandles' = {} /\ Fences' = {} /\ Discards' = {}
            /\ ImageHandles' = ImageHandles /\ UNCHANGED <<surface, created, swapchain>>
        BY <2>5, <3>1 DEF DestroyFrames, AcquireHandles, Fences, Discards, ImageHandles
      <4> QED BY <2>2, <2>5, <3>2, <4>1, <4>2 DEF OwnInv, AccountInv, InUse, DestroyFrames
    <3> QED BY <3>1, <3>4, <3>5 DEF OwnInv
  <2>6. CASE DestroySurface
    <3>1. DOMAIN frames = {} /\ images = <<>> /\ swapchain = NoHandle
      BY <2>6 DEF DestroySurface, NameInv, FramesInv, ImagesInv, HasFrames, HasSwapchain,
                  HasImages, Indices
    <3>2. DiscardsInv' /\ GoneInv'
      BY <2>6, <3>1 DEF DestroySurface, DiscardsInv, GoneInv, HasImages
    <3>3. FirstSurface \notin gone
      BY <2>6 DEF DestroySurface, OwnInv, GoneInv, FirstSurface, Handle
    <3>4. AccountInv'
      <4>1. /\ AcquireHandles = {} /\ AcquireHandles' = {} /\ Fences' = {} /\ Fences = {}
            /\ Discards = {} /\ Discards' = {} /\ ImageHandles = {} /\ ImageHandles' = {}
            /\ swapchain' = NoHandle /\ surface' = NoHandle /\ created' = created
            /\ gone' = gone \cup {surface} /\ pc' = "destroyed"
        BY <2>6, <3>1 DEF DestroySurface, AcquireHandles, Fences, Discards, ImageHandles
      <4>2. FirstSurface # NoHandle
        BY DEF FirstSurface, Handle, NoHandle
      <4> QED BY <2>2, <2>6, <3>1, <3>3, <4>1, <4>2 DEF OwnInv, AccountInv, InUse, DestroySurface
    <3> QED BY <3>2, <3>4 DEF OwnInv
  <2> QED BY <1>6, <2>3, <2>4, <2>5, <2>6
<1>7. CASE SignalAcquired \/ ExecutePresent \/ Release \/ SwapchainTerminated
           \/ UNCHANGED swapchainVars
  BY <1>7, OwnKept DEF SignalAcquired, ExecutePresent, Release, SwapchainTerminated, swapchainVars
<1>8. CASE Execute
  <2>1. CASE Head(queue).frame \in DOMAIN frames
    <3>1. Head(queue).frame \in Nat
      BY <2>1, FrameNames DEF NameInv
    <3> QED BY <1>2, <1>8, <3>1 DEF Execute
  <2>2. CASE Head(queue).frame \notin DOMAIN frames
    <3>1. frames' = frames
      BY <1>0, <1>8, <2>2 DEF Execute
    <3> QED BY <1>8, <3>1, OwnKept DEF Execute
  <2> QED BY <2>1, <2>2
<1> QED BY <1>1, <1>3, <1>4, <1>5, <1>6, <1>7, <1>8
        DEF SwapchainNext, FrameStep, DestroyStep, DeviceStep

(* What the invariant says of the owners.                                  *)
LEMMA OwnedByInv ==
  ASSUME NameInv, OwnInv
  PROVE  OwnedOnce
<1>1. OwnedOnce <=> /\ InUse \intersect (Discards \cup gone) = {}
                    /\ Discards \intersect gone = {}
                    /\ \A f, k \in DOMAIN frames :
                         f # k => frames[f].discard \intersect frames[k].discard = {}
                    /\ At("destroyed") /\ FirstSurface \in gone => created = gone
  BY DEF OwnedOnce, InUse, Discards, FirstSurface
<1>2. Generation \in Nat
  BY DEF NameInv, GenerationInv
<1>3. \A h \in Discards : /\ h.kind \in {"present", "view", "acquire", "swapchain"}
                          /\ h.generation < Generation
  BY DEF OwnInv, DiscardsInv, Discards
<1>4. \A h \in ImageHandles : /\ HasImages /\ h.generation = Generation
                              /\ h.kind \in {"present", "view"}
  <2>1. CASE HasImages
    BY <2>1, ImageNames DEF NameInv, ImageHandles, Handle
  <2>2. CASE ~HasImages
    <3>1. DOMAIN images = {}
      BY <2>2 DEF NameInv, ImagesInv
    <3> QED BY <3>1 DEF ImageHandles
  <2> QED BY <2>1, <2>2
<1>5. \A h \in AcquireHandles : HasFrames /\ h.generation = Generation /\ h.kind = "acquire"
  <2>1. ASSUME NEW f \in DOMAIN frames
        PROVE  HasFrames
    BY <2>1 DEF NameInv, FramesInv, Indices
  <2> QED BY <2>1, FrameNames DEF AcquireHandles, NameInv
<1>6. swapchain # NoHandle => /\ HasSwapchain /\ swapchain.generation = Generation
                              /\ swapchain.kind = "swapchain"
  BY DEF NameInv, ImagesInv, Handle
<1>7. surface # NoHandle => pc # "destroyed" /\ surface.kind = "surface"
  BY DEF OwnInv, AccountInv, Handle
<1>8. InUse \intersect Discards = {}
  BY <1>2, <1>3, <1>4, <1>5, <1>6, <1>7 DEF InUse
<1>9. InUse \intersect gone = {}
  BY <1>4, <1>5, <1>6, <1>7 DEF InUse, OwnInv, GoneInv, HasFrames, HasSwapchain, HasImages
<1>10. Discards \intersect gone = {}
  <2>1. \A h \in Discards : HasFrames
    BY DEF Discards, NameInv, FramesInv, Indices
  <2> QED BY <1>2, <1>3, <2>1 DEF OwnInv, GoneInv, HasFrames, HasSwapchain
<1>11. ASSUME pc = "destroyed", FirstSurface \in gone
       PROVE  created = gone
  <2>1. InUse = {} /\ Fences = {} /\ Discards = {}
    <3>1. DOMAIN frames = {} /\ surface = NoHandle /\ swapchain = NoHandle /\ DOMAIN images = {}
      BY <1>11 DEF NameInv, ImagesInv, FramesInv, Indices, HasFrames, HasSwapchain, HasImages,
                   OwnInv, AccountInv
    <3> QED BY <3>1 DEF InUse, ImageHandles, AcquireHandles, Fences, Discards
  <2> QED BY <1>11, <2>1 DEF OwnInv, AccountInv
<1> QED BY <1>1, <1>8, <1>9, <1>10, <1>11 DEF OwnInv, DiscardsInv, At

-----------------------------------------------------------------------------
(* Every step keeps the order of semaphores and fences                     *)

(* The semaphores to be signalled are those of the queue's entries.        *)
LEMMA SignalsOf == Signals = {e.signal : e \in EntriesOf(queue)}
BY DEF Signals, EntriesOf

(* At the start no semaphore is in use.                                    *)
LEMMA InitSem ==
  ASSUME SwapchainInit
  PROVE  SemInv
<1>1. /\ EntriesOf(queue) = {} /\ Single(queue) /\ queue \in Seq(AnySubmission)
      /\ EntriesOf(presents) = {} /\ Single(presents) /\ presents \in Seq(AnyPresentation)
      /\ DOMAIN frames = {}
  BY EmptyEntries DEF SwapchainInit
<1>2. SemaphoresInv /\ AndroidInv /\ QuietInv
  BY DEF SwapchainInit, SemaphoresInv, AndroidInv, QuietInv
<1>3. QueueInv /\ PresentsInv /\ FenceInv
  BY <1>1 DEF QueueInv, PresentsInv, FenceInv
<1>4. FrameInv /\ HeldInv /\ ImageInv
  BY DEF SwapchainInit, FrameInv, HeldInv, ImageInv, HasImages
<1> QED BY <1>2, <1>3, <1>4 DEF SemInv

(* A step that only moves on.                                              *)
LEMMA SemMoved ==
  ASSUME NameInv, SemInv, UNCHANGED <<desktop, object, device, created>>,
         \/ pc' = pc
         \/ pc = "round" /\ pc' = "wait" /\ desktop
         \/ pc = "wait" /\ pc' = "acquire" /\ Frame.state = "signalled"
         \/ pc = "acquire" /\ pc' = "resize"
         \/ pc \in {"acquire", "submit", "present", "resize"} /\ pc' = "exited" /\ desktop
         \/ pc = "round" /\ pc' = "idle"
         \/ pc = "idle" /\ pc' = "images" /\ Idle
  PROVE  SemInv'
<1> USE DEF object, device
<1>1. Generation' = Generation /\ Signals' = Signals /\ HasImages' = HasImages
  BY DEF Generation, Signals, HasImages
<1>2. AndroidInv' /\ QuietInv' /\ SemaphoresInv'
  BY <1>1 DEF SemInv, AndroidInv, QuietInv, SemaphoresInv, Idle
<1>3. QueueInv'
  BY <1>1 DEF SemInv, QueueInv, Pending
<1>4. PresentsInv'
  BY <1>1 DEF SemInv, PresentsInv, Coming
<1>5. FenceInv'
  <2>1. ASSUME NEW f \in DOMAIN frames
        PROVE  LET submitted == \E e \in EntriesOf(queue) : e.frame = f IN
               /\ frames[f].state = "signalled" => ~submitted
               /\ frames[f].state = "reset" =>
                    \/ submitted
                    \/ f = frameIndex /\ pc' \in {"submit", "exited"}
               /\ Pending(frames[f].acquire) =>
                    \/ \E e \in EntriesOf(queue) : e.wait = frames[f].acquire
                    \/ f = frameIndex /\ pc' \in {"reset", "submit", "resize", "exited"}
    BY DEF SemInv, FenceInv
  <2> QED BY <2>1 DEF FenceInv, Pending
<1>6. FrameInv'
  BY DEF SemInv, FrameInv, Frame, Pending
<1>7. ImageInv'
  BY <1>1 DEF SemInv, ImageInv, Holding, Coming
<1>8. HeldInv'
  BY <1>1 DEF SemInv, HeldInv, PresentSemaphore, Coming
<1> QED BY <1>2, <1>3, <1>4, <1>5, <1>6, <1>7, <1>8 DEF SemInv

(* Waiting for the fence of the frame uses no semaphore.                   *)
LEMMA WaitForFenceSem ==
  ASSUME NameInv, SemInv, WaitForFence
  PROVE  SemInv'
<1>1. PICK k \in Nat : frames \in [Indices(k) -> AnyFrame] /\ (k = 0 <=> ~HasFrames)
  BY DEF NameInv, FramesInv
<1>2. frames[frameIndex].state = "signalled"
  BY DEF WaitForFence, Frame
<1>3. \A r \in AnyFrame : r.state = "signalled" => [r EXCEPT !.state = "signalled"] = r
  BY DEF AnyFrame
<1>4. frames' = frames
  BY <1>1, <1>2, <1>3 DEF WaitForFence, StateWaited
<1> QED BY <1>2, <1>4, SemMoved DEF WaitForFence, At, Goto, Frame, object, device

(* The frame left behind is one that was submitted.                        *)
LEMMA SignalNextFrameSem ==
  ASSUME NameInv, SemInv, SignalNextFrame
  PROVE  SemInv'
<1> USE DEF object, device, SignalNextFrame, At, Goto
<1>1. Generation' = Generation /\ Signals' = Signals /\ HasImages /\ HasImages'
  BY DEF Generation, Signals, HasImages
<1>2. AndroidInv' /\ QuietInv' /\ SemaphoresInv'
  BY <1>1 DEF SemInv, AndroidInv, QuietInv, SemaphoresInv
<1>3. QueueInv'
  BY <1>1 DEF SemInv, QueueInv, Pending
<1>4. PresentsInv'
  BY <1>1 DEF SemInv, PresentsInv, Coming
<1>5. FenceInv'
  BY DEF SemInv, FenceInv, Pending
<1>6. FrameInv'
  BY DEF FrameInv
<1>7. ImageInv'
  BY <1>1 DEF SemInv, ImageInv, Holding, Coming
<1>8. HeldInv'
  BY <1>1 DEF SemInv, HeldInv, PresentSemaphore, Coming
<1> QED BY <1>2, <1>3, <1>4, <1>5, <1>6, <1>7, <1>8 DEF SemInv

(* What the names and the queues say of the frame at hand.                 *)
LEMMA CurrentFrame ==
  ASSUME NameInv, SemInv, pc \in {"acquire", "reset", "submit"}
  PROVE  /\ frameIndex \in DOMAIN frames /\ frameIndex \in Nat
         /\ Frame.acquire \in AnyHandle /\ Frame.acquire.kind = "acquire"
         /\ Frame.acquire.generation = Generation /\ Generation \in 1 .. Generation
         /\ Frame.acquire.index = frameIndex
         /\ \A e \in EntriesOf(queue) : e.frame # frameIndex /\ e.wait # Frame.acquire
         /\ pc = "acquire" => ~Pending(Frame.acquire)
<1>1. frameIndex \in DOMAIN frames /\ frameIndex \in Nat
  BY DEF NameInv, FramesInv, HasFrames, HasSwapchain, HasImages
<1>2. frames[frameIndex] \in AnyFrame /\ frames[frameIndex].acquire.kind = "acquire"
      /\ frames[frameIndex].acquire.generation = Generation
      /\ frames[frameIndex].acquire.index = frameIndex
  BY <1>1, FrameNames DEF NameInv
<1>3. Frame.acquire \in AnyHandle
  BY <1>2 DEF Frame, AnyFrame
<1>4. Generation \in Nat \ {0}
  BY DEF NameInv, GenerationInv
<1>5. \A e \in EntriesOf(queue) : e.frame # frameIndex
  <2>1. CASE pc = "submit"
    BY <2>1 DEF SemInv, FrameInv
  <2>2. CASE pc \in {"acquire", "reset"}
    <3>1. frames[frameIndex].state = "signalled"
      BY <2>2 DEF SemInv, FrameInv, Frame
    <3> QED BY <1>1, <3>1 DEF SemInv, FenceInv
  <2> QED BY <2>1, <2>2
<1>6. \A e \in EntriesOf(queue) : e.wait # Frame.acquire
  BY <1>2, <1>5 DEF SemInv, QueueInv, Frame
<1>7. pc = "acquire" => ~Pending(Frame.acquire)
  BY <1>1, <1>6 DEF SemInv, FenceInv, Frame
<1> QED BY <1>1, <1>2, <1>3, <1>4, <1>5, <1>6, <1>7 DEF Frame

(* Acquiring promises the semaphore of the frame, which nothing uses.      *)
LEMMA AcquireImageSem ==
  ASSUME NameInv, SemInv, AcquireImage
  PROVE  SemInv'
<1> USE DEF object, device, At, Goto
<1>0. /\ pc = "acquire" /\ pc' \in {"reset", "resize"} /\ imageIndex' \in free
      /\ free' = free \ {imageIndex'} /\ promised' = promised \cup {Frame.acquire}
      /\ UNCHANGED <<desktop, surface, swapchain, images, frames, frameIndex, data, queue,
                     presents, signalled, shown, created, gone>>
  BY DEF AcquireImage, RequestResize
<1>1. Generation' = Generation /\ Signals' = Signals /\ HasImages /\ HasImages'
      /\ Frame' = Frame
  BY <1>0 DEF Generation, Signals, HasImages, Frame
<1>2. \A s : Pending(s)' <=> Pending(s) \/ s = Frame.acquire
  BY <1>0 DEF Pending
<1>3. AndroidInv' /\ QuietInv'
  BY <1>0 DEF SemInv, AndroidInv, QuietInv
<1>4. SemaphoresInv'
  <2>1. Frame.acquire \in [kind : {"acquire"}, generation : 1 .. Generation, index : Nat]
        /\ Frame.acquire \notin signalled
    BY <1>0, CurrentFrame DEF AnyHandle, Pending
  <2> QED BY <1>0, <1>1, <2>1 DEF SemInv, SemaphoresInv
<1>5. QueueInv'
  BY <1>0, <1>1, <1>2 DEF SemInv, QueueInv
<1>6. PresentsInv'
  BY <1>0, <1>1 DEF SemInv, PresentsInv, Coming
<1>7. FenceInv'
  <2>1. ASSUME NEW f \in DOMAIN frames, f # frameIndex
        PROVE  frames[f].acquire # Frame.acquire
    BY <1>0, <2>1, FrameNames, CurrentFrame DEF NameInv
  <2> QED BY <1>0, <1>2, <2>1 DEF SemInv, FenceInv
<1>8. FrameInv'
  BY <1>0, <1>1, <1>2 DEF SemInv, FrameInv
<1>9. ImageInv'
  BY <1>0, <1>1 DEF SemInv, ImageInv, Holding, Coming
<1>10. HeldInv'
  <2>1. imageIndex' \in DOMAIN images /\ imageIndex' \notin free' \cup shown'
        /\ ~Coming(images[imageIndex'].sem)
    BY <1>0, <1>1 DEF SemInv, ImageInv
  <2> QED BY <1>0, <1>1, <2>1 DEF HeldInv, PresentSemaphore, Coming
<1> QED BY <1>3, <1>4, <1>5, <1>6, <1>7, <1>8, <1>9, <1>10 DEF SemInv

(* Resetting the fence leaves a submission due.                            *)
LEMMA ResetFenceSem ==
  ASSUME NameInv, SemInv, ResetFence
  PROVE  SemInv'
<1> USE DEF object, device, At, Goto
<1>0. /\ pc = "reset" /\ pc' = "submit" /\ data' = PresentSemaphore
      /\ frames' = [frames EXCEPT ![frameIndex].state = "reset"]
      /\ UNCHANGED <<desktop, surface, swapchain, images, imageIndex, frameIndex, queue, presents,
                     promised, signalled, free, shown, created, gone>>
  BY DEF ResetFence
<1>1. Generation' = Generation /\ Signals' = Signals /\ HasImages /\ HasImages'
  BY <1>0 DEF Generation, Signals, HasImages
<1>2. PICK k \in Nat : frames \in [Indices(k) -> AnyFrame] /\ (k = 0 <=> ~HasFrames)
  BY DEF NameInv, FramesInv
<1>3. /\ DOMAIN frames' = DOMAIN frames
      /\ \A f \in DOMAIN frames :
           /\ frames'[f].acquire = frames[f].acquire
           /\ frames'[f].state = IF f = frameIndex THEN "reset" ELSE frames[f].state
  BY <1>0, <1>2, CurrentFrame, FenceChanged
<1>4. AndroidInv' /\ QuietInv' /\ SemaphoresInv'
  BY <1>0, <1>1 DEF SemInv, AndroidInv, QuietInv, SemaphoresInv
<1>5. QueueInv'
  BY <1>0, <1>1, <1>3 DEF SemInv, QueueInv, Pending
<1>6. PresentsInv'
  BY <1>0, <1>1 DEF SemInv, PresentsInv, Coming
<1>7. FenceInv'
  BY <1>0, <1>3 DEF SemInv, FenceInv, Pending
<1>8. FrameInv'
  <2>1. Frame'.acquire = Frame.acquire /\ Frame'.state = "reset"
    BY <1>0, <1>3, CurrentFrame DEF Frame
  <2> QED BY <1>0, <2>1, CurrentFrame DEF SemInv, FrameInv, Pending
<1>9. ImageInv'
  BY <1>0, <1>1 DEF SemInv, ImageInv, Holding, Coming
<1>10. HeldInv'
  BY <1>0, <1>1 DEF SemInv, HeldInv, PresentSemaphore, Coming
<1> QED BY <1>4, <1>5, <1>6, <1>7, <1>8, <1>9, <1>10 DEF SemInv

(* The image at hand and its semaphore.                                    *)
LEMMA CurrentImage ==
  ASSUME NameInv, SemInv, pc \in {"reset", "submit", "tick", "present"}
  PROVE  /\ imageIndex \in DOMAIN images /\ imageIndex \in Nat
         /\ PresentSemaphore \in AnyHandle
         /\ PresentSemaphore = Handle("present", Generation, imageIndex)
         /\ PresentSemaphore.kind = "present"
         /\ PresentSemaphore.generation \in 1 .. Generation
         /\ \A i \in DOMAIN images : images[i].sem = PresentSemaphore => i = imageIndex
<1>1. HasImages /\ Generation \in Nat \ {0}
  BY DEF HasImages, NameInv, GenerationInv
<1>2. imageIndex \in DOMAIN images /\ imageIndex \in Nat
  BY <1>1, ImageNames DEF NameInv, SemInv, HeldInv
<1>3. PresentSemaphore = Handle("present", Generation, imageIndex)
  BY <1>1, <1>2, ImageNames DEF NameInv, PresentSemaphore
<1>4. \A i \in DOMAIN images : images[i].sem = PresentSemaphore => i = imageIndex
  <2>1. \A i \in DOMAIN images : images[i].sem = Handle("present", Generation, i)
    BY <1>1, ImageNames DEF NameInv
  <2>2. ASSUME NEW i \in DOMAIN images, images[i].sem = PresentSemaphore
        PROVE  i = imageIndex
    <3>1. Handle("present", Generation, i) = Handle("present", Generation, imageIndex)
      BY <1>3, <2>1, <2>2
    <3> QED BY <3>1 DEF Handle
  <2> QED BY <2>2
<1> QED BY <1>1, <1>2, <1>3, <1>4, HandleFields DEF Kinds

(* The submission waits for the semaphore its frame acquired with.         *)
LEMMA SubmitSem ==
  ASSUME NameInv, SemInv, Submit
  PROVE  SemInv'
<1> USE DEF object, device, At, Goto
<1> DEFINE e == [wait |-> Frame.acquire, signal |-> data, frame |-> frameIndex]
<1>0. /\ pc = "submit" /\ pc' = "tick" /\ queue' = Append(queue, e)
      /\ UNCHANGED <<desktop, surface, swapchain, images, frames, imageIndex, frameIndex, data,
                     presents, promised, signalled, free, shown, created, gone>>
  BY DEF Submit
<1>1. Generation' = Generation /\ HasImages /\ HasImages'
  BY <1>0 DEF Generation, HasImages
<1>2. data = PresentSemaphore /\ ~Coming(data)
  BY <1>0 DEF SemInv, HeldInv
<1>3. e \in AnySubmission /\ e \notin EntriesOf(queue)
  BY <1>0, <1>2, CurrentFrame, CurrentImage DEF AnySubmission
<1>4. queue' \in Seq(AnySubmission) /\ EntriesOf(queue') = EntriesOf(queue) \cup {e}
      /\ Single(queue')
  BY <1>0, <1>3, AppendEntries DEF SemInv, QueueInv
<1>5. Signals' = Signals \cup {data}
  <2>1. Signals' = {d.signal : d \in EntriesOf(queue')}
    BY DEF Signals, EntriesOf
  <2>2. {d.signal : d \in EntriesOf(queue) \cup {e}}
          = {d.signal : d \in EntriesOf(queue)} \cup {data}
    <3>1. e.signal = data
      OBVIOUS
    <3> HIDE DEF e
    <3> QED BY <3>1
  <2> QED BY <1>4, <2>1, <2>2, SignalsOf
<1>6. \A s : Coming(s)' <=> Coming(s) \/ s = data
  BY <1>0, <1>5 DEF Coming
<1>7. AndroidInv' /\ QuietInv' /\ SemaphoresInv'
  BY <1>0, <1>1 DEF SemInv, AndroidInv, QuietInv, SemaphoresInv
<1>8. QueueInv'
  <2>1. ASSUME NEW d \in EntriesOf(queue)
        PROVE  d.frame # frameIndex /\ d.signal # data
    <3>1. d.signal \in Signals
      BY SignalsOf
    <3> QED BY <1>0, <1>2, <3>1, CurrentFrame DEF Coming
  <2>2. \A d \in EntriesOf(queue') :
          /\ d.frame \in DOMAIN frames /\ d.wait.index = d.frame
          /\ d.wait.kind = "acquire" /\ d.wait.generation \in 1 .. Generation
          /\ d.signal.kind = "present" /\ d.signal.generation \in 1 .. Generation
          /\ Pending(d.wait) /\ d.signal \notin signalled
    <3>1. e.frame \in DOMAIN frames /\ e.wait.index = e.frame
          /\ e.wait.kind = "acquire" /\ e.wait.generation \in 1 .. Generation
      BY <1>0, CurrentFrame
    <3>2. e.signal.kind = "present" /\ e.signal.generation \in 1 .. Generation
          /\ e.signal \notin signalled
      BY <1>0, <1>2, CurrentImage DEF Coming
    <3>3. Pending(e.wait)
      BY <1>0 DEF SemInv, FrameInv
    <3> QED BY <1>4, <3>1, <3>2, <3>3 DEF SemInv, QueueInv
  <2>3. \A c, d \in EntriesOf(queue') : c.frame = d.frame \/ c.signal = d.signal => c = d
    BY <1>4, <2>1 DEF SemInv, QueueInv
  <2> QED BY <1>0, <1>1, <1>4, <2>2, <2>3 DEF QueueInv, Pending
<1>9. PresentsInv'
  BY <1>0, <1>1, <1>6 DEF SemInv, PresentsInv
<1>10. FenceInv'
  <2>1. ASSUME NEW f \in DOMAIN frames
        PROVE  LET submitted == \E d \in EntriesOf(queue') : d.frame = f IN
               /\ frames[f].state = "signalled" => ~submitted
               /\ frames[f].state = "reset" => submitted
               /\ Pending(frames[f].acquire) =>
                    \E d \in EntriesOf(queue') : d.wait = frames[f].acquire
    <3>1. CASE f = frameIndex
      <4>1. e \in EntriesOf(queue') /\ e.frame = f /\ e.wait = frames[f].acquire
        BY <1>4, <3>1 DEF Frame
      <4>2. frames[f].state # "signalled"
        BY <1>0, <3>1 DEF SemInv, FrameInv, Frame
      <4> QED BY <4>1, <4>2
    <3>2. CASE f # frameIndex
      BY <1>0, <1>4, <3>2 DEF SemInv, FenceInv
    <3> QED BY <3>1, <3>2
  <2> QED BY <1>0, <2>1 DEF FenceInv, Pending
<1>11. FrameInv'
  BY <1>0 DEF FrameInv
<1>12. ImageInv'
  <2>1. \A i \in free \cup shown : i \in DOMAIN images /\ ~Coming(images[i].sem)
                                   /\ images[i].sem # data
    BY <1>0, <1>1, <1>2, CurrentImage DEF SemInv, ImageInv, HeldInv
  <2> QED BY <1>0, <1>1, <1>6, <2>1 DEF SemInv, ImageInv, Holding
<1>13. HeldInv'
  <2>1. \A p \in EntriesOf(presents) : p.wait # data
    BY <1>2 DEF SemInv, PresentsInv
  <2> QED BY <1>0, <1>2, <1>6, <2>1 DEF SemInv, HeldInv, PresentSemaphore
<1> QED BY <1>7, <1>8, <1>9, <1>10, <1>11, <1>12, <1>13 DEF SemInv

(* A presentation waits for what the submission before it signals.         *)
LEMMA PresentSem ==
  ASSUME NameInv, SemInv, PresentImage
  PROVE  SemInv'
<1> USE DEF object, device, At, Goto
<1> DEFINE e == [swapchain |-> swapchain, image |-> imageIndex, wait |-> data]
<1>0. /\ pc = "present" /\ pc' \in {"round", "resize"} /\ presents' = Append(presents, e)
      /\ UNCHANGED <<desktop, surface, swapchain, images, frames, imageIndex, frameIndex, data,
                     queue, promised, signalled, free, shown, created, gone>>
  BY DEF PresentImage, RequestResize
<1>1. Generation' = Generation /\ HasImages /\ HasImages' /\ Signals' = Signals
  BY <1>0 DEF Generation, HasImages, Signals
<1>2. data = PresentSemaphore /\ Coming(data) /\ \A p \in EntriesOf(presents) : p.wait # data
  BY <1>0 DEF SemInv, HeldInv
<1>3. Generation \in Nat \ {0} /\ swapchain = Handle("swapchain", Generation, 0)
  BY <1>0, <1>1 DEF NameInv, GenerationInv, ImagesInv, HasSwapchain
<1>4. swapchain \in AnyHandle /\ swapchain.generation = Generation
  BY <1>3, HandleFields DEF Kinds
<1>5. e \in AnyPresentation /\ e \notin EntriesOf(presents)
  BY <1>0, <1>2, <1>4, CurrentImage DEF AnyPresentation
<1>6. presents' \in Seq(AnyPresentation) /\ EntriesOf(presents') = EntriesOf(presents) \cup {e}
      /\ Single(presents')
  BY <1>0, <1>5, AppendEntries DEF SemInv, PresentsInv
<1>7. AndroidInv' /\ QuietInv' /\ SemaphoresInv'
  BY <1>0, <1>1 DEF SemInv, AndroidInv, QuietInv, SemaphoresInv
<1>8. QueueInv'
  BY <1>0, <1>1 DEF SemInv, QueueInv, Pending
<1>9. PresentsInv'
  <2>1. /\ e.swapchain.generation \in 1 .. Generation
        /\ e.swapchain = Handle("swapchain", e.swapchain.generation, 0)
        /\ e.wait = Handle("present", e.swapchain.generation, e.image)
        /\ e.image \in DOMAIN images
        /\ Coming(e.wait)
    BY <1>0, <1>2, <1>3, <1>4, CurrentImage
  <2>2. \A p \in EntriesOf(presents') :
          /\ p.swapchain.generation \in 1 .. Generation
          /\ p.swapchain = Handle("swapchain", p.swapchain.generation, 0)
          /\ p.wait = Handle("present", p.swapchain.generation, p.image)
          /\ p.swapchain = swapchain => p.image \in DOMAIN images
          /\ Coming(p.wait)
    BY <1>6, <2>1 DEF SemInv, PresentsInv
  <2>3. \A p, q \in EntriesOf(presents') : p.wait = q.wait => p = q
    BY <1>2, <1>6 DEF SemInv, PresentsInv
  <2> QED BY <1>0, <1>1, <1>6, <2>2, <2>3 DEF PresentsInv, Coming
<1>10. FenceInv'
  BY <1>0 DEF SemInv, FenceInv, Pending
<1>11. FrameInv'
  BY <1>0 DEF FrameInv
<1>12. ImageInv'
  <2>1. ASSUME NEW i \in DOMAIN images
        PROVE  \/ i \in free \cup shown
               \/ \E p \in EntriesOf(presents') : p.swapchain = swapchain /\ p.image = i
    <3>1. CASE i = imageIndex
      <4>1. e \in EntriesOf(presents') /\ e.swapchain = swapchain /\ e.image = i
        BY <1>6, <3>1
      <4> HIDE DEF e
      <4> QED BY <4>1
    <3>2. CASE i # imageIndex
      <4>1. \/ i \in free \cup shown
            \/ \E p \in EntriesOf(presents) : p.swapchain = swapchain /\ p.image = i
        BY <1>1, <3>2 DEF SemInv, ImageInv
      <4> QED BY <1>6, <4>1
    <3> QED BY <3>1, <3>2
  <2> QED BY <1>0, <1>1, <2>1 DEF SemInv, ImageInv, Coming
<1>13. HeldInv'
  BY <1>0 DEF HeldInv
<1> QED BY <1>7, <1>8, <1>9, <1>10, <1>11, <1>12, <1>13 DEF SemInv

(* The presentation engine signals only what it promised.                  *)
LEMMA SignalAcquiredSem ==
  ASSUME NameInv, SemInv, SignalAcquired
  PROVE  SemInv'
<1> USE DEF object
<1>1. PICK s \in promised : /\ promised' = promised \ {s}
                            /\ signalled' = signalled \cup {s}
  BY DEF SignalAcquired
<1>2. UNCHANGED <<desktop, pc, surface, swapchain, images, frames, imageIndex, frameIndex, data,
                  queue, presents, free, shown, created, gone>>
  BY DEF SignalAcquired
<1>3. Generation' = Generation /\ HasImages' = HasImages /\ Signals' = Signals
      /\ (Holding' <=> Holding)
  BY <1>2 DEF Generation, HasImages, Signals, Holding
<1>4. s.kind = "acquire" /\ s \in [kind : {"acquire"}, generation : 1 .. Generation, index : Nat]
  BY DEF SemInv, SemaphoresInv
<1>5. /\ \A x : Pending(x)' <=> Pending(x)
      /\ \A x : Coming(x)' <=> Coming(x) \/ x = s
  BY <1>1, <1>3 DEF Pending, Coming
<1>6. AndroidInv' /\ QuietInv'
  BY <1>1, <1>2 DEF SemInv, AndroidInv, QuietInv, Idle
<1>7. SemaphoresInv'
  BY <1>1, <1>3, <1>4 DEF SemInv, SemaphoresInv
<1>8. QueueInv'
  BY <1>1, <1>2, <1>3, <1>4, <1>5 DEF SemInv, QueueInv
<1>9. PresentsInv'
  BY <1>2, <1>3, <1>5 DEF SemInv, PresentsInv
<1>10. FenceInv'
  BY <1>2, <1>5 DEF SemInv, FenceInv
<1>11. FrameInv'
  BY <1>2, <1>5 DEF SemInv, FrameInv, Frame
<1>12. ImageInv'
  <2>1. HasImages => \A i \in DOMAIN images : images[i].sem # s
    BY <1>4, ImageNames DEF NameInv, Handle
  <2> QED BY <1>2, <1>3, <1>5, <2>1 DEF SemInv, ImageInv
<1>13. HeldInv'
  <2>1. pc \in {"reset", "submit"} => PresentSemaphore # s
    BY <1>4, CurrentImage
  <2> QED BY <1>2, <1>5, <2>1 DEF SemInv, HeldInv, PresentSemaphore
<1> QED BY <1>6, <1>7, <1>8, <1>9, <1>10, <1>11, <1>12, <1>13 DEF SemInv

(* The queue executes a submission: its frame may be waited for again, the *)
(* semaphore of its image is signalled instead of going to be.             *)
LEMMA ExecuteSem ==
  ASSUME NameInv, SemInv, Execute
  PROVE  SemInv'
<1> DEFINE h == Head(queue)
<1>0. /\ queue # <<>> /\ h.wait \in signalled
      /\ signalled' = (signalled \ {h.wait}) \cup {h.signal}
      /\ frames' = [frames EXCEPT ![h.frame].state = "signalled"]
      /\ queue' = Tail(queue)
      /\ UNCHANGED <<desktop, pc, surface, swapchain, images, imageIndex, frameIndex, data,
                     presents, promised, free, shown, created, gone>>
  BY DEF Execute
<1>1. /\ queue' \in Seq(AnySubmission) /\ Single(queue')
      /\ h \in EntriesOf(queue) /\ h \in AnySubmission
      /\ EntriesOf(queue') = EntriesOf(queue) \ {h}
  BY <1>0, TailEntries DEF SemInv, QueueInv
<1> HIDE DEF h
<1>2. /\ h.frame \in DOMAIN frames /\ h.wait.index = h.frame
      /\ h.wait.kind = "acquire"
      /\ h.signal.kind = "present" /\ h.signal.generation \in 1 .. Generation
      /\ h.signal \in AnyHandle /\ h.signal # h.wait
      /\ h.signal \notin signalled /\ h.wait \notin promised
      /\ \A e \in EntriesOf(queue') : /\ e.frame # h.frame /\ e.signal # h.signal
                                      /\ e.wait # h.wait
  BY <1>0, <1>1 DEF SemInv, QueueInv, SemaphoresInv, AnySubmission
<1>3. Generation' = Generation /\ HasImages' = HasImages /\ (Holding' <=> Holding)
  BY <1>0 DEF Generation, HasImages, Holding
<1>4. PICK k \in Nat : frames \in [Indices(k) -> AnyFrame] /\ (k = 0 <=> ~HasFrames)
  BY DEF NameInv, FramesInv
<1>5. /\ DOMAIN frames' = DOMAIN frames
      /\ \A f \in DOMAIN frames :
           /\ frames'[f].acquire = frames[f].acquire
           /\ frames'[f].state = IF f = h.frame THEN "signalled" ELSE frames[f].state
  BY <1>0, <1>1, <1>4, FenceChanged DEF AnySubmission
<1>6. Signals' = Signals \ {h.signal}
  <2>1. Signals' = {e.signal : e \in EntriesOf(queue')}
    BY DEF Signals, EntriesOf
  <2>2. {e.signal : e \in EntriesOf(queue) \ {h}} = {e.signal : e \in EntriesOf(queue)} \ {h.signal}
    BY <1>1, <1>2
  <2> QED BY <1>1, <2>1, <2>2, SignalsOf
<1>7. h.signal \in Signals
  BY <1>1, SignalsOf
<1>8. \A x : x.kind = "acquire" => (x \in promised' \cup signalled'
                                       <=> Pending(x) /\ x # h.wait)
  BY <1>0, <1>2 DEF Pending
<1>9. \A x : x.kind = "present" => (x \in signalled' \cup Signals' <=> Coming(x))
  BY <1>0, <1>2, <1>6, <1>7 DEF Coming
<1>10. AndroidInv' /\ QuietInv'
  <2>1. /\ desktop /\ queue # <<>>
        /\ pc \notin {"images", "swapchain", "frames", "surface", "destroyed"}
    BY <1>0 DEF SemInv, AndroidInv, QuietInv, Idle
  <2> QED BY <1>0, <2>1 DEF AndroidInv, QuietInv
<1>11. SemaphoresInv'
  <2>1. h.signal \in [kind : {"acquire", "present"}, generation : 1 .. Generation, index : Nat]
    BY <1>2 DEF AnyHandle
  <2>2. h.signal \notin promised
    BY <1>2 DEF SemInv, SemaphoresInv
  <2> QED BY <1>0, <1>3, <2>1, <2>2 DEF SemInv, SemaphoresInv
<1>12. QueueInv'
  <2>1. \A e \in EntriesOf(queue') :
          /\ e.frame \in DOMAIN frames' /\ e.wait.index = e.frame
          /\ e.wait.kind = "acquire" /\ e.wait.generation \in 1 .. Generation
          /\ e.signal.kind = "present" /\ e.signal.generation \in 1 .. Generation
          /\ e.wait \in promised' \cup signalled' /\ e.signal \notin signalled'
    BY <1>0, <1>1, <1>2, <1>5, <1>8 DEF SemInv, QueueInv
  <2>2. \A e, d \in EntriesOf(queue') : e.frame = d.frame \/ e.signal = d.signal => e = d
    BY <1>1 DEF SemInv, QueueInv
  <2> QED BY <1>1, <1>3, <2>1, <2>2 DEF QueueInv, Pending
<1>13. PresentsInv'
  <2>1. \A p \in EntriesOf(presents) : p.wait.kind = "present"
    <3> TAKE p \in EntriesOf(presents)
    <3>1. p.wait = Handle("present", p.swapchain.generation, p.image)
      BY DEF SemInv, PresentsInv
    <3> QED BY <3>1 DEF Handle
  <2> QED BY <1>0, <1>3, <1>9, <2>1 DEF SemInv, PresentsInv, Coming
<1>14. FenceInv'
  <2>1. ASSUME NEW f \in DOMAIN frames
        PROVE  LET submitted == \E e \in EntriesOf(queue') : e.frame = f IN
               /\ frames'[f].state = "signalled" => ~submitted
               /\ frames'[f].state = "reset" =>
                    submitted \/ (f = frameIndex /\ pc \in {"submit", "exited"})
               /\ frames[f].acquire \in promised' \cup signalled' =>
                    \/ \E e \in EntriesOf(queue') : e.wait = frames[f].acquire
                    \/ f = frameIndex /\ pc \in {"reset", "submit", "resize", "exited"}
    <3>1. CASE f = h.frame
      <4>1. frames'[f].state = "signalled" /\ \A e \in EntriesOf(queue') : e.frame # f
        BY <1>2, <1>5, <3>1
      <4>2. frames[f].acquire \in promised' \cup signalled'
               => Pending(frames[f].acquire) /\ frames[f].acquire # h.wait
        BY <1>8, FrameNames DEF NameInv
      <4>3. frames[f].acquire \in promised' \cup signalled' =>
              \/ \E e \in EntriesOf(queue') : e.wait = frames[f].acquire
              \/ f = frameIndex /\ pc \in {"reset", "submit", "resize", "exited"}
        BY <1>1, <4>2 DEF SemInv, FenceInv
      <4> QED BY <4>1, <4>3
    <3>2. CASE f # h.frame
      <4>1. frames'[f].state = frames[f].state
        BY <1>5, <3>2
      <4>2. frames[f].acquire \in promised' \cup signalled'
               => Pending(frames[f].acquire) /\ frames[f].acquire # h.wait
        BY <1>8, FrameNames DEF NameInv
      <4> QED BY <1>1, <3>2, <4>1, <4>2 DEF SemInv, FenceInv
    <3> QED BY <3>1, <3>2
  <2> QED BY <1>0, <1>5, <2>1 DEF FenceInv, Pending
<1>15. FrameInv'
  <2> SUFFICES ASSUME pc \in {"acquire", "reset", "submit"}
               PROVE  FrameInv'
    BY <1>0 DEF FrameInv
  <2>1. h.frame # frameIndex /\ Frame.acquire # h.wait /\ frameIndex \in DOMAIN frames
        /\ Frame.acquire.kind = "acquire"
    BY <1>1, CurrentFrame
  <2>2. Frame'.state = Frame.state /\ Frame'.acquire = Frame.acquire
    BY <1>0, <1>5, <2>1 DEF Frame
  <2>3. Frame'.acquire \in promised' \cup signalled' <=> Pending(Frame.acquire)
    BY <1>8, <2>1, <2>2
  <2> QED BY <1>0, <1>1, <2>2, <2>3 DEF SemInv, FrameInv, Pending
<1>16. ImageInv'
  <2>1. HasImages => \A i \in DOMAIN images : images[i].sem.kind = "present"
    BY ImageNames DEF NameInv, Handle
  <2> QED BY <1>0, <1>3, <1>9, <2>1 DEF SemInv, ImageInv, Coming
<1>17. HeldInv'
  <2>1. pc \in {"reset", "submit", "tick", "present"} => PresentSemaphore.kind = "present"
    BY CurrentImage
  <2>2. pc \in {"tick", "present"} => data.kind = "present"
    BY <2>1 DEF SemInv, HeldInv
  <2> QED BY <1>0, <1>9, <2>1, <2>2 DEF SemInv, HeldInv, PresentSemaphore, Coming
<1> QED BY <1>10, <1>11, <1>12, <1>13, <1>14, <1>15, <1>16, <1>17 DEF SemInv

(* The device shows an image, unless its swapchain is retired.             *)
LEMMA ExecutePresentSem ==
  ASSUME NameInv, SemInv, ExecutePresent
  PROVE  SemInv'
<1> USE DEF object
<1> DEFINE h == Head(presents)
<1>0. /\ presents # <<>> /\ h.wait \in signalled
      /\ signalled' = signalled \ {h.wait}
      /\ shown' = IF h.swapchain = swapchain THEN shown \cup {h.image} ELSE shown
      /\ presents' = Tail(presents)
      /\ UNCHANGED <<desktop, pc, surface, swapchain, images, frames, imageIndex, frameIndex, data,
                     queue, promised, free, created, gone>>
  BY DEF ExecutePresent
<1>1. /\ presents' \in Seq(AnyPresentation) /\ Single(presents')
      /\ h \in EntriesOf(presents) /\ h \in AnyPresentation
      /\ EntriesOf(presents') = EntriesOf(presents) \ {h}
  BY <1>0, TailEntries DEF SemInv, PresentsInv
<1> HIDE DEF h
<1>2. /\ h.wait = Handle("present", h.swapchain.generation, h.image)
      /\ h.swapchain = swapchain => h.image \in DOMAIN images
      /\ Coming(h.wait)
      /\ \A p \in EntriesOf(presents') : p.wait # h.wait
  BY <1>1 DEF SemInv, PresentsInv
<1>3. h.wait.kind = "present" /\ h.wait \notin Signals
  <2>1. \A e \in EntriesOf(queue) : e.signal # h.wait
    BY <1>0 DEF SemInv, QueueInv
  <2> QED BY <1>2, <2>1, SignalsOf DEF Handle
<1>4. Generation' = Generation /\ HasImages' = HasImages /\ (Holding' <=> Holding)
      /\ Signals' = Signals
  BY <1>0 DEF Generation, HasImages, Holding, Signals
<1>5. \A x : x.kind = "acquire" => (Pending(x)' <=> Pending(x))
  BY <1>0, <1>3 DEF Pending
<1>6. \A x : Coming(x)' <=> Coming(x) /\ x # h.wait
  BY <1>0, <1>3, <1>4 DEF Coming
<1>7. desktop /\ pc \notin {"images", "swapchain", "frames", "surface", "destroyed"}
  BY <1>0 DEF SemInv, AndroidInv, QuietInv, Idle
<1>8. AndroidInv' /\ QuietInv' /\ SemaphoresInv'
  BY <1>0, <1>4, <1>7 DEF SemInv, AndroidInv, QuietInv, SemaphoresInv
<1>9. QueueInv'
  BY <1>0, <1>4, <1>5 DEF SemInv, QueueInv
<1>10. PresentsInv'
  BY <1>0, <1>1, <1>2, <1>4, <1>6 DEF SemInv, PresentsInv
<1>11. FenceInv'
  <2>1. \A f \in DOMAIN frames : Pending(frames[f].acquire)' <=> Pending(frames[f].acquire)
    BY <1>0, <1>5, FrameNames DEF NameInv, Pending
  <2> QED BY <1>0, <2>1 DEF SemInv, FenceInv
<1>12. FrameInv'
  <2>1. pc \in {"reset", "submit"} => Frame.acquire.kind = "acquire"
    BY CurrentFrame
  <2> QED BY <1>0, <1>5, <2>1 DEF SemInv, FrameInv, Frame, Pending
<1>13. ImageInv'
  <2> SUFFICES ASSUME HasImages
               PROVE  ImageInv'
    BY <1>4 DEF ImageInv
  <2>1. \A i \in free \cup shown : images[i].sem # h.wait
    BY <1>2 DEF SemInv, ImageInv
  <2>2. ASSUME h.swapchain = swapchain
        PROVE  h.image \in DOMAIN images /\ images[h.image].sem = h.wait /\ h.image \notin free
    <3>1. swapchain = Handle("swapchain", Generation, 0)
      BY DEF NameInv, ImagesInv, HasSwapchain
    <3>2. h.swapchain.generation = Generation
      BY <2>2, <3>1 DEF Handle
    <3>3. h.image \in DOMAIN images /\ images[h.image].sem = h.wait
      BY <1>2, <2>2, <3>2, ImageNames DEF NameInv
    <3> QED BY <2>1, <3>3
  <2>3. free' \intersect shown' = {}
    BY <1>0, <2>2 DEF SemInv, ImageInv
  <2>4. \A i \in free' \cup shown' : i \in DOMAIN images /\ ~(Coming(images[i].sem)')
    BY <1>0, <1>6, <2>2 DEF SemInv, ImageInv, Coming
  <2>5. ASSUME NEW i \in DOMAIN images
        PROVE  \/ i \in free' \cup shown'
               \/ \E p \in EntriesOf(presents') : p.swapchain = swapchain /\ p.image = i
               \/ i = imageIndex /\ Holding
    <3>1. CASE h.swapchain = swapchain /\ h.image = i
      BY <1>0, <3>1
    <3>2. CASE ~(h.swapchain = swapchain /\ h.image = i)
      BY <1>0, <1>1, <3>2 DEF SemInv, ImageInv
    <3> QED BY <3>1, <3>2
  <2> QED BY <1>0, <1>4, <2>3, <2>4, <2>5 DEF ImageInv
<1>14. HeldInv'
  <2> SUFFICES ASSUME pc \in {"reset", "submit", "tick", "present"}
               PROVE  HeldInv'
    BY <1>0 DEF HeldInv
  <2>1. PresentSemaphore # h.wait
    BY <1>1, <1>2 DEF SemInv, HeldInv
  <2>2. ASSUME h.swapchain = swapchain
        PROVE  h.image # imageIndex
    <3>1. HasImages /\ HasSwapchain
      BY DEF HasImages, HasSwapchain
    <3>2. swapchain = Handle("swapchain", Generation, 0)
      BY <3>1 DEF NameInv, ImagesInv
    <3>3. h.swapchain.generation = Generation
      BY <2>2, <3>2 DEF Handle
    <3> QED BY <1>2, <2>1, <3>3, CurrentImage
  <2>3. imageIndex \in DOMAIN images /\ imageIndex \notin free' \cup shown'
    BY <1>0, <2>2 DEF SemInv, HeldInv
  <2> QED BY <1>0, <1>1, <1>6, <2>1, <2>3 DEF SemInv, HeldInv, PresentSemaphore, Coming
<1> QED BY <1>8, <1>9, <1>10, <1>11, <1>12, <1>13, <1>14 DEF SemInv

(* Releasing an image gives back what its presentation held.               *)
LEMMA ReleaseSem ==
  ASSUME NameInv, SemInv, Release
  PROVE  SemInv'
<1> USE DEF object
<1>0. PICK i \in shown : shown' = shown \ {i} /\ free' = free \cup {i}
  BY DEF Release
<1>1. UNCHANGED <<desktop, pc, surface, swapchain, images, frames, imageIndex, frameIndex, data,
                  queue, presents, promised, signalled, created, gone>>
  BY DEF Release
<1>2. Generation' = Generation /\ HasImages' = HasImages /\ Signals' = Signals
      /\ (Holding' <=> Holding) /\ free' \cup shown' = free \cup shown
  BY <1>0, <1>1 DEF Generation, HasImages, Signals, Holding
<1>3. AndroidInv' /\ QuietInv' /\ SemaphoresInv'
  BY <1>1, <1>2 DEF SemInv, AndroidInv, QuietInv, SemaphoresInv, Idle
<1>4. QueueInv'
  BY <1>1, <1>2 DEF SemInv, QueueInv, Pending
<1>5. PresentsInv'
  BY <1>1, <1>2 DEF SemInv, PresentsInv, Coming
<1>6. FenceInv' /\ FrameInv'
  BY <1>1 DEF SemInv, FenceInv, FrameInv, Frame, Pending
<1>7. ImageInv'
  BY <1>0, <1>1, <1>2 DEF SemInv, ImageInv, Coming
<1>8. HeldInv'
  BY <1>1, <1>2 DEF SemInv, HeldInv, PresentSemaphore, Coming
<1> QED BY <1>3, <1>4, <1>5, <1>6, <1>7, <1>8 DEF SemInv

(* A new swapchain has new images; what is still in use is of older ones. *)
LEMMA ReplaceSem ==
  ASSUME NameInv, SemInv, pc \in {"create", "resize"}, NEW n \in ImageCounts, Replace(n),
         pc' = "round",
         UNCHANGED <<desktop, imageIndex, frameIndex, data, queue, presents, promised, signalled>>
  PROVE  SemInv'
<1>1. Generation \in Nat /\ Generation' = Generation + 1 /\ Signals' = Signals
      /\ 1 .. Generation \subseteq 1 .. Generation'
  BY NextGeneration DEF NameInv, GenerationInv, Signals
<1>2. /\ swapchain' = Handle("swapchain", Generation + 1, 0)
      /\ images' = [i \in Indices(n) |-> NewImage(i, Generation + 1)]
      /\ free' = Indices(n) /\ shown' = {}
  BY DEF Replace
<1>3. ASSUME NEW s, s.generation = Generation + 1
      PROVE  ~Pending(s) /\ ~Coming(s)
  <2>1. s \notin promised /\ s \notin signalled
    BY <1>1, <1>3 DEF SemInv, SemaphoresInv
  <2>2. \A e \in EntriesOf(queue) : e.signal # s
    BY <1>1, <1>3 DEF SemInv, QueueInv
  <2> QED BY <2>1, <2>2, SignalsOf DEF Pending, Coming
<1>4. AndroidInv' /\ QuietInv'
  BY DEF SemInv, AndroidInv, QuietInv
<1>5. SemaphoresInv'
  <2>1. [kind : {"acquire"}, generation : 1 .. Generation, index : Nat]
          \subseteq [kind : {"acquire"}, generation : 1 .. Generation', index : Nat]
    BY <1>1
  <2>2. [kind : {"acquire", "present"}, generation : 1 .. Generation, index : Nat]
          \subseteq [kind : {"acquire", "present"}, generation : 1 .. Generation', index : Nat]
    BY <1>1
  <2> QED BY <2>1, <2>2 DEF SemInv, SemaphoresInv
<1>6. DOMAIN frames \subseteq DOMAIN frames'
  BY ReplacedFrames
<1>7. QueueInv'
  <2>1. \A e \in EntriesOf(queue) :
          /\ e.frame \in DOMAIN frames' /\ e.wait.index = e.frame
          /\ e.wait.kind = "acquire" /\ e.wait.generation \in 1 .. Generation'
          /\ e.signal.kind = "present" /\ e.signal.generation \in 1 .. Generation'
          /\ Pending(e.wait) /\ e.signal \notin signalled
    BY <1>1, <1>6 DEF SemInv, QueueInv
  <2> QED BY <2>1 DEF SemInv, QueueInv, Pending
<1>8. PresentsInv'
  <2>1. swapchain'.generation = Generation + 1
    BY <1>2 DEF Handle
  <2>2. \A p \in EntriesOf(presents) :
          /\ p.swapchain.generation \in 1 .. Generation'
          /\ p.swapchain = Handle("swapchain", p.swapchain.generation, 0)
          /\ p.wait = Handle("present", p.swapchain.generation, p.image)
          /\ p.swapchain # swapchain'
          /\ Coming(p.wait)
    BY <1>1, <2>1 DEF SemInv, PresentsInv
  <2> QED BY <1>1, <2>2 DEF SemInv, PresentsInv, Coming
<1>9. FenceInv'
  <2>1. ASSUME NEW f \in DOMAIN frames'
        PROVE  LET submitted == \E e \in EntriesOf(queue) : e.frame = f IN
               /\ frames'[f].state = "signalled" => ~submitted
               /\ frames'[f].state = "reset" => submitted
               /\ ~Pending(frames'[f].acquire)
    <3>1. ~Pending(frames'[f].acquire)
      <4>1. frames'[f].acquire = Handle("acquire", Generation + 1, f)
        BY ReplacedFrames
      <4>2. frames'[f].acquire.generation = Generation + 1
        BY <4>1 DEF Handle
      <4> QED BY <1>3, <4>2
    <3>2. CASE f \in DOMAIN frames
      <4>1. frames'[f].state = frames[f].state
        BY <3>2, ReplacedFrames
      <4> QED BY <3>1, <3>2, <4>1 DEF SemInv, FenceInv
    <3>3. CASE f \notin DOMAIN frames
      <4>1. frames'[f].state = "signalled"
        BY <3>3, ReplacedFrames
      <4> QED BY <3>1, <3>3, <4>1 DEF SemInv, QueueInv
    <3> QED BY <3>2, <3>3
  <2> QED BY <2>1 DEF FenceInv, Pending
<1>10. FrameInv' /\ HeldInv'
  BY DEF FrameInv, HeldInv
<1>11. ImageInv'
  <2>1. ASSUME NEW i \in Indices(n)
        PROVE  ~Coming(images'[i].sem)
    <3>1. images'[i].sem = Handle("present", Generation + 1, i)
      BY <1>2 DEF NewImage
    <3>2. images'[i].sem.generation = Generation + 1
      BY <3>1 DEF Handle
    <3> QED BY <1>3, <3>2
  <2>2. DOMAIN images' = Indices(n)
    BY <1>2
  <2> QED BY <1>1, <1>2, <2>1, <2>2 DEF ImageInv, Coming
<1> QED BY <1>4, <1>5, <1>7, <1>8, <1>9, <1>10, <1>11 DEF SemInv

(* An Android application has not come to a frame when its surface goes.   *)
LEMMA LoseSurfaceSem ==
  ASSUME NameInv, SemInv, LoseSurface
  PROVE  SemInv'
<1> USE DEF device
<1>1. /\ queue' = <<>> /\ presents' = <<>> /\ promised' = {} /\ signalled' = {}
      /\ DOMAIN frames' = {} /\ pc' = "create"
  BY DEF LoseSurface, SemInv, AndroidInv, Goto
<1>2. /\ EntriesOf(queue') = {} /\ Single(queue') /\ queue' \in Seq(AnySubmission)
      /\ EntriesOf(presents') = {} /\ Single(presents') /\ presents' \in Seq(AnyPresentation)
  BY <1>1, EmptyEntries
<1>3. AndroidInv' /\ QuietInv' /\ SemaphoresInv'
  BY <1>1 DEF AndroidInv, QuietInv, SemaphoresInv
<1>4. QueueInv' /\ PresentsInv' /\ FenceInv'
  BY <1>1, <1>2 DEF QueueInv, PresentsInv, FenceInv
<1>5. FrameInv' /\ ImageInv' /\ HeldInv'
  BY <1>1 DEF FrameInv, ImageInv, HeldInv, HasImages
<1> QED BY <1>3, <1>4, <1>5 DEF SemInv

(* The destructors come after vkDeviceWaitIdle.                            *)
LEMMA DestroySem ==
  ASSUME NameInv, SemInv, DestroyImages \/ DestroySwapchain \/ DestroyFrames \/ DestroySurface
  PROVE  SemInv'
<1> USE DEF device, At, Goto, DestroyImages, DestroySwapchain, DestroyFrames, DestroySurface
<1>1. /\ pc \in {"images", "swapchain", "frames", "surface"}
      /\ pc' \in {"swapchain", "frames", "surface", "destroyed"}
      /\ queue = <<>> /\ presents = <<>>
      /\ UNCHANGED <<desktop, device, created>>
      /\ frames' = frames \/ DOMAIN frames' = {}
  BY DEF SemInv, QuietInv, Idle
<1>2. Generation' = Generation
  BY <1>1 DEF Generation
<1>3. /\ EntriesOf(queue') = {} /\ Single(queue') /\ queue' \in Seq(AnySubmission)
      /\ EntriesOf(presents') = {} /\ Single(presents') /\ presents' \in Seq(AnyPresentation)
      /\ EntriesOf(queue) = {}
  BY <1>1, EmptyEntries
<1>4. AndroidInv' /\ QuietInv' /\ SemaphoresInv'
  BY <1>1, <1>2 DEF SemInv, AndroidInv, QuietInv, SemaphoresInv, Idle
<1>5. QueueInv' /\ PresentsInv'
  BY <1>3 DEF QueueInv, PresentsInv
<1>6. FenceInv'
  <2>1. \A f \in DOMAIN frames : frames[f].state # "reset" /\ ~Pending(frames[f].acquire)
    BY <1>1, <1>3 DEF SemInv, FenceInv
  <2> QED BY <1>1, <1>3, <2>1 DEF FenceInv, Pending
<1>7. FrameInv' /\ ImageInv' /\ HeldInv'
  BY <1>1 DEF FrameInv, ImageInv, HeldInv, HasImages
<1> QED BY <1>4, <1>5, <1>6, <1>7 DEF SemInv

(* Every step keeps what is known of semaphores, fences and the queue.     *)
LEMMA SemStep ==
  ASSUME NameInv, SemInv, [SwapchainNext]_swapchainVars
  PROVE  SemInv'
<1> USE DEF object, device, At, Goto
<1>1. CASE BeginFrame \/ OutOfDate \/ Fail \/ Destroy \/ WaitIdle \/ SwapchainTerminated
           \/ UNCHANGED swapchainVars
  BY <1>1, SemMoved DEF BeginFrame, OutOfDate, RequestResize, Fail, Destroy, WaitIdle,
                        SwapchainTerminated, swapchainVars
<1>2. CASE Create \/ Resize
  BY <1>2, ReplaceSem DEF Create, Resize
<1> QED BY <1>1, <1>2, WaitForFenceSem, AcquireImageSem, ResetFenceSem, SubmitSem,
           SignalNextFrameSem, PresentSem, LoseSurfaceSem, DestroySem, SignalAcquiredSem,
           ExecuteSem, ExecutePresentSem, ReleaseSem
        DEF SwapchainNext, FrameStep, DestroyStep, DeviceStep

(* What the invariant says of the semaphores and of the waits.             *)
LEMMA FreeByInv ==
  ASSUME NameInv, SemInv
  PROVE  SemaphoresFree
<1>1. /\ \A s \in promised : s.kind = "acquire"
      /\ \A e \in EntriesOf(queue) : e.wait.kind = "acquire" /\ e.signal.kind = "present"
                                     /\ Pending(e.wait)
      /\ \A p \in EntriesOf(presents) : Coming(p.wait)
  BY DEF SemInv, SemaphoresInv, QueueInv, PresentsInv
<1>2. \A s \in Waits : \/ \E e \in EntriesOf(queue) : s = e.wait
                       \/ \E p \in EntriesOf(presents) : s = p.wait
  BY DEF Waits, EntriesOf
<1>3. ASSUME pc = "acquire"
      PROVE  Frame.acquire \notin Busy
  <2>1. Frame.acquire.kind = "acquire" /\ ~Pending(Frame.acquire)
    BY <1>3, CurrentFrame
  <2>2. Frame.acquire \notin Signals
    BY <1>1, <2>1, SignalsOf
  <2>3. Frame.acquire \notin Waits
    BY <1>1, <1>2, <2>1, <2>2 DEF Pending, Coming
  <2> QED BY <2>1, <2>2, <2>3 DEF Busy, Pending
<1>4. ASSUME pc = "submit"
      PROVE  data \notin Busy
  <2>1. data.kind = "present" /\ ~Coming(data)
    BY <1>4, CurrentImage DEF SemInv, HeldInv
  <2>2. data \notin Waits /\ data \notin promised
    BY <1>1, <1>2, <2>1
  <2> QED BY <2>1, <2>2 DEF Busy, Coming
<1> QED BY <1>3, <1>4 DEF SemaphoresFree, At

(* What is known of them leaves no wait that nothing ends.                 *)
LEMMA NoFreezeByInv ==
  ASSUME NameInv, SemInv
  PROVE  NoFreeze
<1>1. ASSUME pc = "wait"
      PROVE  Frame.state = "signalled" \/ \E i \in DOMAIN queue : queue[i].frame = frameIndex
  <2>1. frameIndex \in DOMAIN frames /\ frames[frameIndex] \in AnyFrame
    BY <1>1, FrameNames DEF NameInv, FramesInv, HasFrames, HasSwapchain, HasImages
  <2>2. frames[frameIndex].state \in {"signalled", "reset"}
    BY <2>1 DEF AnyFrame
  <2>3. frames[frameIndex].state = "reset" => \E e \in EntriesOf(queue) : e.frame = frameIndex
    BY <1>1, <2>1 DEF SemInv, FenceInv
  <2> QED BY <2>2, <2>3 DEF Frame, EntriesOf
<1>2. ASSUME pc = "acquire"
      PROVE  \/ free \cup shown # {}
             \/ \E i \in DOMAIN presents : presents[i].swapchain = swapchain
  <2>1. HasImages /\ ~Holding
    BY <1>2 DEF HasImages, Holding
  <2>2. 0 \in DOMAIN images
    BY <2>1, ImageNames DEF NameInv
  <2>3. 0 \in free \cup shown \/ \E p \in EntriesOf(presents) : p.swapchain = swapchain
    BY <2>1, <2>2 DEF SemInv, ImageInv
  <2> QED BY <2>3 DEF EntriesOf
<1>3. Waits \subseteq promised \cup signalled \cup Signals
  <2>1. \A s \in Waits : \/ \E e \in EntriesOf(queue) : s = e.wait
                         \/ \E p \in EntriesOf(presents) : s = p.wait
    BY DEF Waits, EntriesOf
  <2> QED BY <2>1 DEF SemInv, QueueInv, PresentsInv, Pending, Coming
<1> QED BY <1>1, <1>2, <1>3 DEF NoFreeze, At

-----------------------------------------------------------------------------
(* Types: nothing is used that was not created, and what is created has    *)
(* its number within the bounds.                                           *)

MaxImages == Max(ImageCounts)

SizeInv ==
  /\ Generation <= MaxSwapchains
  /\ pc \in {"create", "resize"} => Generation < MaxSwapchains
  /\ DOMAIN frames \subseteq Indices(MaxImages)
  /\ created \subseteq Handles

KnownInv ==
  /\ desktop \in BOOLEAN /\ pc \in PCs
  /\ {surface, swapchain, data} \subseteq created \cup {NoHandle}
  /\ ImageHandles \cup promised \cup signalled \cup Signals \cup gone \subseteq created
  /\ \A f \in DOMAIN frames : {frames[f].acquire, frames[f].fence} \cup frames[f].discard
                                 \subseteq created
  /\ imageIndex \in Indices(MaxImages) /\ frameIndex \in Indices(MaxImages)
  /\ free \cup shown \subseteq Indices(MaxImages)

(* The greatest of the image counts.                                       *)
LEMMA Largest ==
  /\ MaxImages \in Nat \ {0} /\ 0 \in Indices(MaxImages)
  /\ \A n \in ImageCounts : n <= MaxImages /\ Indices(n) \subseteq Indices(MaxImages)
<1>1. PICK m \in ImageCounts : \A n \in ImageCounts : n <= m
  BY SwapchainAssumption
<1>2. \E x \in ImageCounts : \A y \in ImageCounts : x >= y
  BY <1>1, SwapchainAssumption
<1>3. MaxImages \in ImageCounts /\ \A y \in ImageCounts : MaxImages >= y
  BY <1>2 DEF MaxImages, Max
<1>4. MaxImages \in Nat \ {0}
  BY <1>3, SwapchainAssumption
<1> QED BY <1>3, <1>4, SwapchainAssumption DEF Indices

(* At the start nothing has been counted yet.                              *)
LEMMA InitSize ==
  ASSUME SwapchainInit, NameInv
  PROVE  SizeInv /\ KnownInv
<1>1. DOMAIN frames = {} /\ DOMAIN images = {} /\ DOMAIN queue = {}
  BY DEF SwapchainInit
<1>2. Generation = 0
  <2>1. Swapchains = {}
    BY DEF SwapchainInit, Swapchains, Handle
  <2> QED BY <2>1, FS_EmptySet DEF Generation, Swapchains
<1>3. created \subseteq Handles
  BY Largest, SwapchainAssumption DEF SwapchainInit, Handle, Handles, Kinds, MaxImages
<1>4. SizeInv
  BY <1>1, <1>2, <1>3, SwapchainAssumption DEF SizeInv
<1>5. KnownInv
  BY <1>1, Largest DEF SwapchainInit, KnownInv, PCs, ImageHandles, Signals
<1> QED BY <1>4, <1>5

(* recreateSwapchain is what makes the numbers grow.                       *)
LEMMA ReplaceSize ==
  ASSUME NameInv, SizeInv, KnownInv, pc \in {"create", "resize"}, NEW n \in ImageCounts,
         Replace(n), pc' = "round",
         UNCHANGED <<desktop, surface, imageIndex, frameIndex, data, queue, promised,
                     signalled, gone>>
  PROVE  SizeInv' /\ KnownInv'
<1>1. Generation \in Nat /\ Generation' = Generation + 1 /\ Generation + 1 \in 1 .. MaxSwapchains
  BY NextGeneration, SwapchainAssumption DEF NameInv, GenerationInv, SizeInv
<1>2. ASSUME NEW kind \in Kinds, NEW i \in Indices(MaxImages)
      PROVE  Handle(kind, Generation + 1, i) \in Handles
  BY <1>1 DEF Handle, Handles, MaxImages
<1>3. /\ swapchain' = Handle("swapchain", Generation + 1, 0)
      /\ images' = [i \in Indices(n) |-> NewImage(i, Generation + 1)]
      /\ free' = Indices(n) /\ shown' = {}
  BY DEF Replace
<1>4. created' = created \cup {swapchain'}
                  \cup (UNION {{images'[i].sem, images'[i].view} : i \in Indices(n)})
                  \cup (UNION {{frames'[f].acquire, frames'[f].fence} : f \in DOMAIN frames'})
  BY DEF Replace
<1>5. DOMAIN frames' \subseteq Indices(MaxImages)
  <2>1. PICK k \in Nat : frames \in [Indices(k) -> AnyFrame]
    BY DEF NameInv, FramesInv
  <2>2. Indices(k) \subseteq Indices(MaxImages) /\ DOMAIN frames = Indices(k)
    BY <2>1 DEF SizeInv
  <2>3. FrameCount(n) \in Nat /\ FrameCount(n) \in {n, k}
    BY <2>1, <2>2, IndicesCount, MaxOfTwo, SwapchainAssumption DEF FrameCount
  <2>4. DOMAIN frames' = Indices(FrameCount(n))
    BY DEF Replace
  <2> QED BY <2>2, <2>3, <2>4, Largest
<1>6. /\ swapchain' \in Handles
      /\ \A i \in Indices(n) : images'[i].sem \in Handles /\ images'[i].view \in Handles
  BY <1>2, <1>3, Largest DEF NewImage, Kinds
<1>7. \A f \in DOMAIN frames' : frames'[f].acquire \in Handles /\ frames'[f].fence \in Handles
  <2>1. ASSUME NEW f \in DOMAIN frames'
        PROVE  frames'[f].acquire \in Handles /\ frames'[f].fence \in Handles
    <3>1. frames'[f].acquire = Handle("acquire", Generation + 1, f)
      BY ReplacedFrames
    <3>2. CASE f \in DOMAIN frames
      <4>1. frames'[f].fence = frames[f].fence /\ frames[f].fence \in created
        BY <3>2, ReplacedFrames DEF KnownInv
      <4> QED BY <1>2, <1>5, <3>1, <4>1 DEF Kinds, SizeInv
    <3>3. CASE f \notin DOMAIN frames
      <4>1. frames'[f].fence = Handle("fence", Generation + 1, f)
        BY <3>3, ReplacedFrames
      <4> QED BY <1>2, <1>5, <3>1, <4>1 DEF Kinds
    <3> QED BY <3>2, <3>3
  <2> QED BY <2>1
<1>8. created' \subseteq Handles
  BY <1>4, <1>6, <1>7 DEF SizeInv
<1>9. SizeInv'
  BY <1>1, <1>5, <1>8 DEF SizeInv
<1>10. ImageHandles' \subseteq created' /\ created \subseteq created' /\ swapchain' \in created'
  BY <1>3, <1>4 DEF ImageHandles
<1>11. ASSUME NEW f \in DOMAIN frames'
       PROVE  {frames'[f].acquire, frames'[f].fence} \cup frames'[f].discard \subseteq created'
  <2>1. CASE f \in DOMAIN frames
    <3>1. /\ frames'[f].discard = frames[f].discard \cup (IF f = frameIndex THEN Discarded ELSE {})
          /\ frames[f].discard \subseteq created
      BY <2>1, ReplacedFrames DEF KnownInv
    <3>2. Discarded \subseteq created
      <4>1. HasImages
        BY <2>1, ReplacedFrames DEF HasImages
      <4>2. swapchain # NoHandle
        BY <4>1 DEF NameInv, ImagesInv, HasSwapchain, Handle, NoHandle
      <4> QED BY <4>2 DEF KnownInv, Discarded, AcquireHandles
    <3> QED BY <1>4, <1>10, <3>1, <3>2
  <2>2. CASE f \notin DOMAIN frames
    <3>1. frames'[f].discard = {}
      BY <2>2, ReplacedFrames
    <3> QED BY <1>4, <3>1
  <2> QED BY <2>1, <2>2
<1>12. Signals' = Signals
  BY DEF Signals
<1>13. free' \cup shown' \subseteq Indices(MaxImages)
  BY <1>3, Largest
<1>14. KnownInv'
  BY <1>10, <1>11, <1>12, <1>13 DEF KnownInv, PCs
<1> QED BY <1>9, <1>14

(* Every step keeps the sizes.                                             *)
LEMMA SizeStep ==
  ASSUME NameInv, SemInv, OwnInv, SizeInv, KnownInv, [SwapchainNext]_swapchainVars
  PROVE  SizeInv' /\ KnownInv'
<1> USE DEF object, device, At, Goto
<1>1. CASE BeginFrame \/ OutOfDate \/ Fail \/ Destroy \/ WaitIdle \/ SwapchainTerminated
           \/ UNCHANGED swapchainVars
  <2>1. /\ UNCHANGED <<desktop, object, device, created, gone>> /\ pc' \in PCs
        /\ pc' \in {"create", "resize"} => pc' = pc \/ Generation < MaxSwapchains
    BY <1>1 DEF BeginFrame, OutOfDate, RequestResize, Fail, Destroy, WaitIdle,
                SwapchainTerminated, swapchainVars, PCs, KnownInv
  <2>2. Generation' = Generation /\ Signals' = Signals /\ ImageHandles' = ImageHandles
    BY <2>1 DEF Generation, Signals, ImageHandles
  <2>3. SizeInv'
    BY <2>1, <2>2 DEF SizeInv
  <2>4. KnownInv'
    BY <2>1, <2>2 DEF KnownInv
  <2> QED BY <2>3, <2>4
<1>2. CASE Create \/ Resize
  BY <1>2, ReplaceSize DEF Create, Resize
<1>3. CASE WaitForFence \/ ResetFence \/ Execute
  <2>1. PICK k \in Nat : frames \in [Indices(k) -> AnyFrame] /\ (k = 0 <=> ~HasFrames)
    BY DEF NameInv, FramesInv
  <2>2. PICK x \in Nat, y \in {"signalled", "reset"} : frames' = [frames EXCEPT ![x].state = y]
    <3>1. frameIndex \in Nat
      BY DEF NameInv, FramesInv
    <3>2. CASE WaitForFence \/ ResetFence
      BY <3>1, <3>2 DEF WaitForFence, ResetFence, StateWaited
    <3>3. CASE Execute
      <4>1. Head(queue) \in AnySubmission
        BY <3>3, TailEntries DEF Execute, SemInv, QueueInv
      <4> QED BY <3>3, <4>1 DEF Execute, AnySubmission
    <3> QED BY <1>3, <3>2, <3>3
  <2>3. /\ DOMAIN frames' = DOMAIN frames
        /\ \A f \in DOMAIN frames : /\ frames'[f].acquire = frames[f].acquire
                                    /\ frames'[f].fence = frames[f].fence
                                    /\ frames'[f].discard = frames[f].discard
    BY <2>1, <2>2, FenceChanged
  <2>4. /\ pc' \in PCs /\ (pc' \in {"create", "resize"} => pc' = pc)
        /\ UNCHANGED <<desktop, surface, swapchain, images, imageIndex, frameIndex, presents,
                       promised, free, shown, created, gone>>
        /\ ImageHandles' = ImageHandles /\ Generation' = Generation
    <3>1. pc' \in PCs /\ (pc' \in {"create", "resize"} => pc' = pc)
      BY <1>3 DEF WaitForFence, ResetFence, Execute, PCs, KnownInv
    <3>2. UNCHANGED <<desktop, surface, swapchain, images, imageIndex, frameIndex, presents,
                      promised, free, shown, created, gone>>
      BY <1>3 DEF WaitForFence, ResetFence, Execute
    <3> QED BY <3>1, <3>2 DEF ImageHandles, Generation
  <2>5. SizeInv'
    BY <2>3, <2>4 DEF SizeInv
  <2>6. data' \in created \cup {NoHandle}
    <3>1. CASE WaitForFence \/ Execute
      BY <3>1 DEF WaitForFence, Execute, KnownInv
    <3>2. CASE ResetFence
      <4>1. imageIndex \in DOMAIN images /\ data' = images[imageIndex].sem
        BY <3>2, CurrentImage DEF ResetFence, PresentSemaphore
      <4> QED BY <4>1 DEF KnownInv, ImageHandles
    <3> QED BY <1>3, <3>1, <3>2
  <2>7. signalled' \cup Signals' \subseteq created
    <3>1. CASE WaitForFence \/ ResetFence
      BY <3>1 DEF WaitForFence, ResetFence, KnownInv, Signals
    <3>2. CASE Execute
      <4>1. /\ Head(queue) \in EntriesOf(queue)
            /\ EntriesOf(queue') = EntriesOf(queue) \ {Head(queue)}
        BY <3>2, TailEntries DEF Execute, SemInv, QueueInv
      <4>2. Signals' = {e.signal : e \in EntriesOf(queue')}
        BY DEF Signals, EntriesOf
      <4>3. Signals' \subseteq Signals /\ Head(queue).signal \in Signals
        BY <4>1, <4>2, SignalsOf
      <4> QED BY <3>2, <4>3 DEF Execute, KnownInv
    <3> QED BY <1>3, <3>1, <3>2
  <2>8. KnownInv'
    BY <2>3, <2>4, <2>6, <2>7 DEF KnownInv
  <2> QED BY <2>5, <2>8
<1>4. CASE AcquireImage \/ SignalAcquired \/ ExecutePresent \/ Release
  <2>1. /\ UNCHANGED <<desktop, surface, swapchain, images, frames, frameIndex, data, queue,
                       created, gone>> /\ pc' \in PCs
        /\ pc' \in {"create", "resize"} => pc' = pc \/ Generation < MaxSwapchains
    BY <1>4 DEF AcquireImage, SignalAcquired, ExecutePresent, Release, RequestResize, PCs, KnownInv
  <2>2. Generation' = Generation /\ Signals' = Signals /\ ImageHandles' = ImageHandles
    BY <2>1 DEF Generation, Signals, ImageHandles
  <2>3. SizeInv'
    BY <2>1, <2>2 DEF SizeInv
  <2>4. imageIndex' \in Indices(MaxImages) /\ free' \cup shown' \subseteq Indices(MaxImages)
    <3>1. CASE AcquireImage \/ SignalAcquired \/ Release
      BY <3>1 DEF AcquireImage, SignalAcquired, Release, KnownInv
    <3>2. CASE ExecutePresent
      <4>1. Head(presents) \in EntriesOf(presents)
        BY <3>2, TailEntries DEF ExecutePresent, SemInv, PresentsInv
      <4>2. HasImages => DOMAIN images \subseteq Indices(MaxImages)
        BY ImageNames, Largest DEF NameInv
      <4>3. ~HasImages => DOMAIN images = {}
        BY DEF NameInv, ImagesInv
      <4>4. Head(presents).swapchain = swapchain => Head(presents).image \in Indices(MaxImages)
        BY <4>1, <4>2, <4>3 DEF SemInv, PresentsInv
      <4> QED BY <3>2, <4>4 DEF ExecutePresent, KnownInv
    <3> QED BY <1>4, <3>1, <3>2
  <2>5. promised' \cup signalled' \subseteq created
    <3>1. CASE AcquireImage
      <4>1. Frame.acquire \in created
        BY <3>1, CurrentFrame DEF AcquireImage, KnownInv, Frame
      <4> QED BY <3>1, <4>1 DEF AcquireImage, KnownInv
    <3>2. CASE SignalAcquired \/ ExecutePresent \/ Release
      BY <3>2 DEF SignalAcquired, ExecutePresent, Release, KnownInv
    <3> QED BY <1>4, <3>1, <3>2
  <2>6. KnownInv'
    BY <2>1, <2>2, <2>4, <2>5 DEF KnownInv
  <2> QED BY <2>3, <2>6
<1>5. CASE Submit \/ SignalNextFrame \/ PresentImage
  <2>1. /\ UNCHANGED <<desktop, surface, swapchain, images, frames, imageIndex, data, promised,
                       signalled, free, shown, created, gone>> /\ pc' \in PCs
        /\ pc' \in {"create", "resize"} => pc' = pc \/ Generation < MaxSwapchains
    BY <1>5 DEF Submit, SignalNextFrame, PresentImage, RequestResize, PCs, KnownInv
  <2>2. Generation' = Generation /\ ImageHandles' = ImageHandles
    BY <2>1 DEF Generation, ImageHandles
  <2>3. SizeInv'
    BY <2>1, <2>2 DEF SizeInv
  <2>4. Signals' \subseteq created
    <3>1. CASE SignalNextFrame \/ PresentImage
      BY <3>1 DEF SignalNextFrame, PresentImage, Signals, KnownInv
    <3>2. CASE Submit
      <4> DEFINE e == [wait |-> Frame.acquire, signal |-> data, frame |-> frameIndex]
      <4>1. e \in AnySubmission /\ data \in ImageHandles
        BY <3>2, CurrentFrame, CurrentImage
           DEF AnySubmission, Submit, SemInv, HeldInv, ImageHandles, PresentSemaphore
      <4>2. EntriesOf(queue') = EntriesOf(queue) \cup {e}
        BY <3>2, <4>1, AppendEntries DEF Submit, SemInv, QueueInv
      <4>3. Signals' = {d.signal : d \in EntriesOf(queue')}
        BY DEF Signals, EntriesOf
      <4>4. e.signal = data
        OBVIOUS
      <4> HIDE DEF e
      <4>5. Signals' \subseteq Signals \cup {data}
        BY <4>2, <4>3, <4>4, SignalsOf
      <4> QED BY <4>1, <4>5 DEF KnownInv
    <3> QED BY <1>5, <3>1, <3>2
  <2>5. frameIndex' \in Indices(MaxImages)
    <3>1. CASE Submit \/ PresentImage
      BY <3>1 DEF Submit, PresentImage, KnownInv
    <3>2. CASE SignalNextFrame
      <4>1. FramesInv' /\ HasFrames'
        BY <3>2, NameStep DEF NameInv, SignalNextFrame, HasFrames, HasSwapchain, HasImages,
                              SwapchainNext, FrameStep
      <4> QED BY <2>1, <4>1 DEF FramesInv, SizeInv
    <3> QED BY <1>5, <3>1, <3>2
  <2>6. KnownInv'
    BY <2>1, <2>2, <2>4, <2>5 DEF KnownInv
  <2> QED BY <2>3, <2>6
<1>6. CASE LoseSurface
  <2>1. Swapchains' = Swapchains
    BY <1>6 DEF LoseSurface, Swapchains, Handle
  <2>2. Generation' = Generation /\ Generation + 1 \in 1 .. MaxSwapchains
    <3>1. Generation' = Generation
      BY <2>1 DEF Generation, Swapchains
    <3>2. Generation \in Nat /\ Generation < MaxSwapchains
      BY <1>6 DEF LoseSurface, NameInv, GenerationInv
    <3> QED BY <3>1, <3>2, SwapchainAssumption
  <2>3. surface' \in Handles
    BY <1>6, <2>2, Largest DEF LoseSurface, Handle, Handles, Kinds, MaxImages
  <2>4. DOMAIN frames' = {} /\ DOMAIN images' = {} /\ ImageHandles' = {} /\ Signals' = Signals
        /\ created' = created \cup {surface'} /\ pc' = "create"
    BY <1>6 DEF LoseSurface, ImageHandles, Signals
  <2>5. SizeInv'
    BY <1>6, <2>2, <2>3, <2>4 DEF SizeInv, LoseSurface
  <2>6. KnownInv'
    BY <1>6, <2>4, Largest DEF KnownInv, LoseSurface, PCs
  <2> QED BY <2>5, <2>6
<1>7. CASE DestroyImages \/ DestroySwapchain \/ DestroyFrames \/ DestroySurface
  <2> USE DEF DestroyImages, DestroySwapchain, DestroyFrames, DestroySurface
  <2>1. /\ UNCHANGED <<desktop, imageIndex, frameIndex, data, device, created>>
        /\ pc' \in PCs /\ pc' \notin {"create", "resize"}
        /\ surface' \in {surface, NoHandle} /\ swapchain' \in {swapchain, NoHandle}
        /\ ImageHandles' \subseteq ImageHandles
        /\ frames' = frames \/ DOMAIN frames' = {}
    BY <1>7 DEF PCs, ImageHandles
  <2>2. Generation' = Generation /\ Signals' = Signals
    BY <2>1 DEF Generation, Signals
  <2>3. gone' \subseteq created
    <3>1. CASE DestroyImages
      BY <3>1 DEF KnownInv
    <3>2. CASE DestroySwapchain
      <4>1. swapchain # NoHandle
        BY <3>2 DEF NameInv, ImagesInv, HasSwapchain, Handle, NoHandle
      <4> QED BY <3>2, <4>1 DEF KnownInv
    <3>3. CASE DestroyFrames
      BY <3>3 DEF KnownInv
    <3>4. CASE DestroySurface
      <4>1. surface # NoHandle
        BY <3>4 DEF OwnInv, AccountInv, Handle, NoHandle
      <4> QED BY <3>4, <4>1 DEF KnownInv
    <3> QED BY <1>7, <3>1, <3>2, <3>3, <3>4
  <2>4. SizeInv'
    BY <2>1, <2>2 DEF SizeInv
  <2>5. KnownInv'
    BY <2>1, <2>2, <2>3 DEF KnownInv
  <2> QED BY <2>4, <2>5
<1> QED BY <1>1, <1>2, <1>3, <1>4, <1>5, <1>6, <1>7
        DEF SwapchainNext, FrameStep, DestroyStep, DeviceStep

(* The invariants together give the types.                                 *)
LEMMA TypesByInv ==
  ASSUME NameInv, SemInv, SizeInv, KnownInv
  PROVE  SwapchainTypeOK
<1>1. \A i \in DOMAIN images : {images[i].sem, images[i].view} \subseteq Handles
  BY DEF KnownInv, SizeInv, ImageHandles
<1>2. \A f \in DOMAIN frames : /\ frames[f].discard \cup {frames[f].acquire, frames[f].fence}
                                    \subseteq Handles
                               /\ frames[f].state \in {"signalled", "reset"}
  BY FrameNames DEF KnownInv, SizeInv, NameInv, AnyFrame
<1>3. Busy \cup created \cup gone \subseteq Handles
  BY NoFreezeByInv DEF NoFreeze, Busy, KnownInv, SizeInv
<1>4. {surface, swapchain, data} \subseteq Handles \cup {NoHandle}
  BY DEF KnownInv, SizeInv
<1> QED BY <1>1, <1>2, <1>3, <1>4 DEF SwapchainTypeOK, KnownInv, MaxImages

-----------------------------------------------------------------------------
(* The theorems                                                            *)

SwapchainInv == NameInv /\ SemInv /\ OwnInv /\ SizeInv /\ KnownInv

(* The names of the handles, the order of semaphores and fences, the       *)
(* owners and the bounds stay as described above, whatever the render      *)
(* thread, the queue and the presentation engine do and however often the  *)
(* swapchain is recreated or lost.                                         *)
THEOREM SwapchainInvariant == SwapchainSpec => []SwapchainInv
<1>1. SwapchainInit => SwapchainInv
  BY InitName, InitSem, InitOwn, InitSize DEF SwapchainInv
<1>2. SwapchainInv /\ [SwapchainNext]_swapchainVars => SwapchainInv'
  BY NameStep, SemStep, OwnStep, SizeStep DEF SwapchainInv
<1> QED BY <1>1, <1>2, PTL DEF SwapchainSpec

(* Every variable keeps its type.                                          *)
THEOREM SwapchainTypes == SwapchainSpec => []SwapchainTypeOK
<1>1. SwapchainInv => SwapchainTypeOK
  BY TypesByInv DEF SwapchainInv
<1> QED BY <1>1, SwapchainInvariant, PTL

(* For every number of frames and of images, and however the two get out   *)
(* of step: vkAcquireNextImageKHR and vkQueueSubmit are given semaphores   *)
(* with no operation pending.                                              *)
THEOREM SemaphoresAreFree == SwapchainSpec => []SemaphoresFree
<1>1. SwapchainInv => SemaphoresFree
  BY FreeByInv DEF SwapchainInv
<1> QED BY <1>1, SwapchainInvariant, PTL

(* Every handle of the swapchain has one owner, wherever the resizes put   *)
(* it, and if the surface was never lost the destructors leave none.       *)
THEOREM HandlesOwnedOnce == SwapchainSpec => []OwnedOnce
<1>1. SwapchainInv => OwnedOnce
  BY OwnedByInv DEF SwapchainInv
<1> QED BY <1>1, SwapchainInvariant, PTL

(* Nobody waits for a fence, an image or a semaphore that nothing in the   *)
(* queues is going to give.                                                *)
THEOREM NothingFreezes == SwapchainSpec => []NoFreeze
<1>1. SwapchainInv => NoFreeze
  BY NoFreezeByInv DEF SwapchainInv
<1> QED BY <1>1, SwapchainInvariant, PTL
=============================================================================
