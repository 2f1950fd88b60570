------------------------- MODULE AndroidMain_proofs -------------------------
(***************************************************************************)
(* AndroidMain, for any set of threads that it might create and any number *)
(* of polls: the application is destroyed under no thread but one that a   *)
(* further window overtook before it was initialized; an acknowledgement   *)
(* is one when no command overtook a thread; and a prompt render thread    *)
(* with no lost surface to handle is not killed.                           *)
(***************************************************************************)
EXTENDS AndroidMain, RenderThread_proofs

-----------------------------------------------------------------------------
(* Types *)

(* The update thread keeps the types of what it changes, moves no thread   *)
(* but itself, and leaves the render threads and the window alone.         *)
LEMMA UpdateStepKeeps ==
  ASSUME CoreTypeOK, NEW u \in Threads, UpdateStep(u)
  PROVE  /\ CoreTypeOK'
         /\ UNCHANGED <<alive, rt, windowInit>>
         /\ ut[u] \notin {"none", "exited"} /\ ut'[u] # "none"
         /\ \A v \in Threads : v # u => ut'[v] = ut[v]
<1> USE RenderThreadAssumption
        DEF CoreTypeOK, UpdatePCs, UpdateAt, UpdateGoto, renderVars, sharedVars
<1>1. CASE TestUpdating(u)
  <2>1. ahead' \in Nat
    <3>1. CASE UNCHANGED ahead
      BY <3>1
    <3>2. ASSUME NEW delta \in Elapsed, ahead' = ahead + Capped(delta)
          PROVE  ahead' \in Nat
      BY <3>2, CappedType
    <3> QED BY <1>1, <3>1, <3>2 DEF TestUpdating
  <2>2. ut' = [ut EXCEPT ![u] = "fixed"] \/ ut' = [ut EXCEPT ![u] = "exited"]
    BY <1>1 DEF TestUpdating
  <2> QED BY <1>1, <2>1, <2>2 DEF TestUpdating
<1>2. CASE FixedUpdate(u)
  BY <1>2 DEF FixedUpdate, needsFixedUpdate
<1>3. CASE Update(u)
  BY <1>3, NextVersionType DEF Update, UpdateCamera, ViewAtUpdate
<1> QED BY <1>1, <1>2, <1>3 DEF UpdateStep

(* A nap that ends is counted, while the clock runs, or is not.            *)
LEMMA NapEnds ==
  ASSUME PollAgain
  PROVE  \/ main' = [main EXCEPT !.pc = "poll"]
         \/ main.polls + 1 < MaxPolls /\ main' = [main EXCEPT !.pc = "poll", !.polls = @ + 1]
BY DEF PollAgain, TimeLeft, MainGoto

(* The main thread keeps all types, whatever command it is given. *)
LEMMA MainStepType ==
  ASSUME TypeOK, MainStep
  PROVE  TypeOK'
<1> USE RenderThreadAssumption, AndroidAssumption
        DEF TypeOK, CoreTypeOK, MainPCs, MainAt, MainGoto, setRendering, renderVars,
            sharedVars, coreVars, NoThread
<1>1. CASE InitWindow
  <2> DEFINE met == IF windowInit THEN main.overtaken ELSE main.overtaken \cup Unfinished
  <2>1. met \in SUBSET Threads
    BY DEF Unfinished
  <2>2. main' = [main EXCEPT !.pc = "initWindow", !.first = ~windowInit, !.overtaken = met]
    BY <1>1 DEF InitWindow
  <2>3. CoreTypeOK'
    BY <1>1 DEF InitWindow
  <2> HIDE DEF met
  <2> QED BY <2>1, <2>2, <2>3
<1>2. CASE onWindowInit   BY <1>2, NotifiedType DEF onWindowInit
<1>3. CASE createThreads
  <2>1. PICK t \in Threads : /\ CreateThreads(t)
                             /\ main' = [main EXCEPT !.pc = "loop", !.thread = t]
    BY <1>3 DEF createThreads
  <2>2. Created \in [pc : RenderPCs, last : 0 .. MaxVersion, latest : 0 .. MaxVersion]
    BY DEF Created, RenderPCs
  <2>3. rt' = [rt EXCEPT ![t] = Created] /\ ut' = [ut EXCEPT ![t] = "test"]
    BY <2>1 DEF CreateThreads, UpdateGoto
  <2> HIDE DEF Created
  <2>4. CoreTypeOK'
    BY <2>1, <2>2, <2>3 DEF CreateThreads, UpdatePCs
  <2> QED BY <2>1, <2>4
<1>4. CASE onSurfaceLost  BY <1>4, NotifiedType DEF onSurfaceLost
<1>5. CASE ClearWindow    BY <1>5 DEF ClearWindow
<1>6. CASE ChangeFocus    BY <1>6 DEF ChangeFocus
<1>7. CASE Destroy
  <2>1. Calm \in BOOLEAN
    BY DEF Calm
  <2>2. CoreTypeOK'
    BY <1>7, NotifiedType DEF Destroy, signalStopRendering
  <2>3. PICK prompt \in BOOLEAN :
          main' = [main EXCEPT !.pc = "poll", !.calm = Calm, !.prompt = prompt,
                               !.overtaken = @ \cup Unfinished]
    BY <1>7 DEF Destroy
  <2>4. main.overtaken \cup Unfinished \in SUBSET Threads
    BY DEF Unfinished
  <2> HIDE DEF Calm, Unfinished
  <2> QED BY <2>1, <2>2, <2>3, <2>4
<1>8. CASE PollAck        BY <1>8 DEF PollAck
<1>9. CASE PollAgain
  <2>1. CoreTypeOK'
    BY <1>9 DEF PollAgain
  <2> DEFINE polls == main.polls + 1
             nap == [main EXCEPT !.pc = "poll"]
  <2>2. nap \in [pc : MainPCs, first : BOOLEAN, thread : Threads \cup {NoThread},
                 polls : 0 .. MaxPolls, calm : BOOLEAN, prompt : BOOLEAN,
                 overtaken : SUBSET Threads]
    OBVIOUS
  <2>3. main' = nap \/ (polls < MaxPolls /\ main' = [nap EXCEPT !.polls = polls])
    BY <1>9, NapEnds
  <2>4. polls \in Nat
    OBVIOUS
  <2> HIDE DEF polls, nap
  <2> QED BY <2>1, <2>2, <2>3, <2>4
<1>10. CASE PollTimeout   BY <1>10 DEF PollTimeout
<1>11. CASE Join          BY <1>11 DEF Join
<1>12. CASE Kill
  <2>1. CASE Joined  BY <1>12, <2>1 DEF Kill
  <2>2. CASE ~Joined BY <1>12, <2>2 DEF Kill
  <2> QED BY <2>1, <2>2
<1>13. CASE StopUpdate    BY <1>13 DEF StopUpdate, signalStopUpdating
<1>14. CASE JoinUpdate    BY <1>14 DEF JoinUpdate
<1> QED BY <1>1, <1>2, <1>3, <1>4, <1>5, <1>6, <1>7, <1>8, <1>9, <1>10, <1>11, <1>12, <1>13,
           <1>14 DEF MainStep

(* The first state has the types. *)
LEMMA InitType == Init => TypeOK
<1> SUFFICES ASSUME Init PROVE TypeOK
  OBVIOUS
<1> USE RenderThreadAssumption, AndroidAssumption
<1> DEFINE first == [Created EXCEPT !.pc = "none"]
<1>1. first \in [pc : RenderPCs, last : 0 .. MaxVersion, latest : 0 .. MaxVersion]
  BY DEF Created, RenderPCs
<1>2. rt = [r \in Threads |-> first]
  BY DEF Init, CoreInit
<1> HIDE DEF first
<1>3. {alive, windowInit, surfaceLost, renderRunning, shouldRender, stillResizing,
       shouldUpdate, window} \subseteq BOOLEAN
  BY Zenon DEF Init, CoreInit
<1>4. ut \in [Threads -> UpdatePCs]
  BY DEF Init, CoreInit, UpdatePCs
<1>5. CoreTypeOK
  BY <1>1, <1>2, <1>3, <1>4 DEF Init, CoreInit, CoreTypeOK
<1> QED BY <1>5 DEF Init, TypeOK, MainPCs, NoThread

(* Every step of every thread keeps them. *)
LEMMA NextType == TypeOK /\ [Next]_vars => TypeOK'
<1> SUFFICES ASSUME TypeOK, [Next]_vars PROVE TypeOK'
  OBVIOUS
<1>1. CASE MainStep
  BY <1>1, MainStepType
<1>2. ASSUME NEW t \in Threads, ThreadStep(t) PROVE TypeOK'
  BY <1>2, RenderStepType, UpdateStepKeeps DEF ThreadStep, TypeOK
<1>3. CASE UNCHANGED vars
  BY <1>3 DEF TypeOK, CoreTypeOK, vars, coreVars, renderVars, sharedVars
<1> QED BY <1>1, <1>2, <1>3 DEF Next, Terminated

-----------------------------------------------------------------------------
(* Who is there *)

(* RenderThread and UpdateThread of android_main name every pair that was  *)
(* not overtaken: another pair is created only for a window that came      *)
(* before the pairs of earlier ones had set windowInit.                    *)
NamedPair ==
  /\ \A t \in Threads : rt[t].pc = "none" <=> ut[t] = "none"
  /\ \A t \in Threads : rt[t].pc # "none" => t = main.thread \/ t \in main.overtaken
  /\ \A t \in Threads : rt[t].pc \in {"none", "init", "initialized"} \/ windowInit
  /\ main.first /\ main.pc \in {"initWindow", "createThreads"} =>
       \A t \in Threads : rt[t].pc # "none" => t \in main.overtaken
  /\ main.pc = "createThreads" => main.first

(* How far timedJoinThreads has come. *)
JoinsDone ==
  /\ main.pc \in {"stopUpdate", "joinUpdate", "destroyed"} => Joined
  /\ main.pc = "destroyed" => UpdateJoined

AloneInv == TypeOK /\ NamedPair /\ JoinsDone

(* A window that will be given a pair of its own, because windowInit is    *)
(* not set, overtakes all the pairs there are.                             *)
LEMMA MainStepAlone ==
  ASSUME AloneInv, MainStep
  PROVE  NamedPair' /\ JoinsDone'
<1> USE AndroidAssumption
        DEF AloneInv, NamedPair, JoinsDone, TypeOK, CoreTypeOK, MainAt, MainGoto, setRendering,
            renderVars, sharedVars, coreVars, NoThread, Joined, UpdateJoined
<1>1. CASE InitWindow
  <2>1. /\ main'.pc = "initWindow" /\ main'.first = ~windowInit /\ main'.thread = main.thread
        /\ main'.overtaken = IF windowInit THEN main.overtaken
                                          ELSE main.overtaken \cup Unfinished
        /\ UNCHANGED <<rt, ut, windowInit>>
    BY <1>1 DEF InitWindow
  <2>2. ~windowInit => \A t \in Threads : rt[t].pc # "none" => t \in Unfinished
    BY DEF Unfinished
  <2>3. main.overtaken \subseteq main'.overtaken
    BY <2>1
  <2>4. ~windowInit => \A t \in Threads : rt[t].pc # "none" => t \in main'.overtaken
    BY <2>1, <2>2
  <2> QED BY <2>1, <2>3, <2>4
<1>2. CASE onWindowInit
  BY <1>2, NotifiedType DEF onWindowInit
<1>3. CASE createThreads
  <2>1. PICK t \in Threads : /\ CreateThreads(t)
                             /\ main' = [main EXCEPT !.pc = "loop", !.thread = t]
    BY <1>3 DEF createThreads
  <2>2. rt' = [rt EXCEPT ![t] = Created] /\ ut' = [ut EXCEPT ![t] = "test"]
    BY <2>1 DEF CreateThreads, UpdateGoto
  <2>3. \A u \in Threads : rt[u].pc # "none" => u \in main.overtaken
    BY <1>3 DEF createThreads
  <2>4. /\ main'.pc = "loop" /\ main'.thread = t /\ UNCHANGED windowInit
        /\ main'.overtaken = main.overtaken
    BY <2>1 DEF CreateThreads
  <2>5. /\ rt'[t].pc = "init" /\ ut'[t] = "test"
        /\ \A u \in Threads : u # t => rt'[u] = rt[u] /\ ut'[u] = ut[u]
    BY <2>2 DEF Created
  <2> QED BY <2>3, <2>4, <2>5
<1>4. CASE onSurfaceLost  BY <1>4, NotifiedType DEF onSurfaceLost
<1>5. CASE ClearWindow    BY <1>5 DEF ClearWindow
<1>6. CASE ChangeFocus    BY <1>6 DEF ChangeFocus
<1>7. CASE Destroy
  <2>1. /\ main'.pc = "poll" /\ main'.thread = main.thread
        /\ main.overtaken \subseteq main'.overtaken
    BY <1>7 DEF Destroy
  <2>2. rt' = Notified(rt) /\ UNCHANGED <<ut, windowInit>>
    BY <1>7 DEF Destroy, signalStopRendering
  <2>3. \A t \in Threads :
          /\ rt'[t].pc = "none" <=> rt[t].pc = "none"
          /\ rt'[t].pc \in {"none", "init", "initialized"} <=>
               rt[t].pc \in {"none", "init", "initialized"}
    BY <2>2, NotifiedType
  <2> QED BY <2>1, <2>2, <2>3
<1>8. CASE PollAck        BY <1>8 DEF PollAck
<1>9. CASE PollAgain
  <2>1. main'.pc = "poll" /\ UNCHANGED <<main.thread, main.first, main.overtaken, coreVars>>
    BY <1>9 DEF PollAgain
  <2> QED BY <2>1
<1>10. CASE PollTimeout   BY <1>10 DEF PollTimeout
<1>11. CASE Join          BY <1>11 DEF Join
<1>12. CASE Kill
  <2>1. main.pc = "kill" /\ UNCHANGED <<rt, ut, windowInit>>
    BY <1>12 DEF Kill
  <2>2. CASE Joined
    <3>1. main' = [main EXCEPT !.pc = "stopUpdate"]
      BY <1>12, <2>2 DEF Kill
    <3> QED BY <2>1, <2>2, <3>1
  <2>3. CASE UNCHANGED main
    BY <2>1, <2>3
  <2> QED BY <1>12, <2>2, <2>3 DEF Kill
<1>13. CASE StopUpdate    BY <1>13 DEF StopUpdate, signalStopUpdating
<1>14. CASE JoinUpdate    BY <1>14 DEF JoinUpdate
<1> QED BY <1>1, <1>2, <1>3, <1>4, <1>5, <1>6, <1>7, <1>8, <1>9, <1>10, <1>11, <1>12, <1>13,
           <1>14 DEF MainStep

(* The invariant, whatever the commands and whenever they come.            *)
THEOREM AloneInvariant == Spec => []AloneInv
<1>1. Init => AloneInv
  <2> SUFFICES ASSUME Init PROVE AloneInv
    OBVIOUS
  <2>1. NamedPair /\ JoinsDone
    BY AndroidAssumption DEF Init, CoreInit, Created, NamedPair, JoinsDone, NoThread
  <2> QED BY <2>1, InitType DEF AloneInv
<1>2. AloneInv /\ [Next]_vars => AloneInv'
  <2> SUFFICES ASSUME AloneInv, [Next]_vars PROVE AloneInv'
    OBVIOUS
  <2>1. TypeOK'
    BY NextType DEF AloneInv
  <2>2. NamedPair' /\ JoinsDone'
    <3> USE DEF AloneInv, NamedPair, JoinsDone, Joined, UpdateJoined, TypeOK, CoreTypeOK
    <3>1. CASE MainStep
      BY <3>1, MainStepAlone
    <3>2. ASSUME NEW r \in Threads, RenderStep(r) /\ UNCHANGED main
          PROVE  NamedPair' /\ JoinsDone'
      BY <3>2, RenderStepKeeps
    <3>3. ASSUME NEW u \in Threads, UpdateStep(u) /\ UNCHANGED main
          PROVE  NamedPair' /\ JoinsDone'
      BY <3>3, UpdateStepKeeps
    <3>4. CASE UNCHANGED vars
      BY <3>4 DEF vars, coreVars, renderVars, sharedVars
    <3> QED BY <3>1, <3>2, <3>3, <3>4 DEF Next, ThreadStep, Terminated
  <2> QED BY <2>1, <2>2 DEF AloneInv
<1> QED BY <1>1, <1>2, PTL DEF Spec

(* Android destroys the application when the threads of the pair it names  *)
(* have exited, and those of every other pair that was not overtaken by a  *)
(* further window, for any number of polls, versions and pairs, and        *)
(* whatever the render thread was doing when it was asked to stop.         *)
THEOREM AloneAtTheEnd == Spec => []DestroyedAlone
<1>1. AloneInv => DestroyedAlone
  BY AndroidAssumption
  DEF AloneInv, NamedPair, JoinsDone, Joined, UpdateJoined, DestroyedAlone, MainAt, Running,
      TypeOK, CoreTypeOK, NoThread
<1> QED BY <1>1, AloneInvariant, PTL

-----------------------------------------------------------------------------
(* Stopping *)

(* Locations of the render thread: not yet at work, in a frame, in         *)
(* RTsurfaceLost, and after the acknowledgement.                           *)
Early == {"init", "initialized", "start"}
Drawing == {"claim", "acquire", "record", "resize", "present"}
Losing == {"lost", "lostWait", "lostDoze", "lostAsleep"}
Gone == {"leaving", "exited"}

(* Where a step of the render thread can come from: back to the start      *)
(* never, to a frame only when there is a newer state, to RTsurfaceLost    *)
(* only when the surface is lost or a frame found it so; and m_renderRunning *)
(* is written by RTwindowInit and as the acknowledgement.                  *)
LEMMA RenderStepOrder ==
  ASSUME CoreTypeOK, ~Desktop, NEW r \in Threads, RenderStep(r)
  PROVE  /\ UNCHANGED surfaceLost
         /\ renderRunning' # renderRunning => rt[r].pc = "start" \/ rt'[r].pc \in Gone
         /\ rt'[r].pc \in Early => rt[r].pc \in Early
         /\ rt[r].pc \in Gone => rt'[r].pc \in Gone
         /\ rt'[r].pc \in Drawing =>
              rt[r].pc \in Drawing \/ (rt[r].pc = "compare" /\ stateVersion > rt[r].last)
         /\ rt'[r].pc \in Losing =>
              surfaceLost \/ rt[r].pc \in Losing \/ rt[r].pc \in Drawing
         /\ rt'[r].last \in {rt[r].last, consumedVersion, 0}
<1> USE DEF CoreTypeOK, RenderAt, RenderGoto, renderVars, sharedVars, Early, Drawing, Losing, Gone
<1>1. CASE CreateSurface(r)
  <2>1. CASE window  BY <1>1, <2>1 DEF CreateSurface
  <2>2. CASE ~window BY <1>1, <2>2 DEF CreateSurface
  <2> QED BY <2>1, <2>2
<1>2. CASE SetWindowInit(r)     BY <1>2 DEF SetWindowInit
<1>3. CASE StartRendering(r)    BY <1>3 DEF StartRendering
<1>4. CASE TestRunning(r)       BY <1>4 DEF TestRunning
<1>5. CASE CheckSurface(r)      BY <1>5 DEF CheckSurface
<1>6. CASE LoadConsumed(r)      BY <1>6 DEF LoadConsumed
<1>7. CASE CompareVersions(r)   BY <1>7 DEF CompareVersions, Newer
<1>8. CASE ClaimVersion(r)      BY <1>8 DEF ClaimVersion, Created
<1>9. CASE EvaluateWait(r)      BY <1>9 DEF EvaluateWait
<1>10. CASE DozeOff(r)          BY <1>10 DEF DozeOff
<1>11. CASE TimeOut(r)          BY <1>11 DEF TimeOut
<1>12. CASE SignalExit(r)       BY <1>12 DEF SignalExit
<1>13. CASE ExitRender(r)       BY <1>13 DEF ExitRender
<1>14. CASE EnterSurfaceLost(r) BY <1>14 DEF EnterSurfaceLost
<1>15. CASE EvaluateLost(r)     BY <1>15 DEF EvaluateLost
<1>16. CASE DozeOffLost(r)      BY <1>16 DEF DozeOffLost
<1>17. CASE TimeOutLost(r)      BY <1>17 DEF TimeOutLost
<1>18. CASE HandleSurfaceLost(r)
  <2>1. CASE window  BY <1>18, <2>1 DEF HandleSurfaceLost
  <2>2. CASE ~window BY <1>18, <2>2 DEF HandleSurfaceLost
  <2> QED BY <2>1, <2>2
<1>19. CASE Acquire(r)
  <2>1. CASE shouldRender  BY <1>19, <2>1 DEF Acquire, Outcomes
  <2>2. CASE ~shouldRender BY <1>19, <2>2 DEF Acquire
  <2> QED BY <2>1, <2>2
<1>20. CASE ReadCamera(r)       BY <1>20 DEF ReadCamera
<1>21. CASE LoseDevice(r)       BY <1>21 DEF LoseDevice
<1>22. CASE Present(r)          BY <1>22 DEF Present, Outcomes
<1>23. CASE RecreateSwapchain(r) BY <1>23 DEF RecreateSwapchain
<1> QED BY <1>1, <1>2, <1>3, <1>4, <1>5, <1>6, <1>7, <1>8, <1>9, <1>10, <1>11, <1>12, <1>13,
           <1>14, <1>15, <1>16, <1>17, <1>18, <1>19, <1>20, <1>21, <1>22, <1>23 DEF RenderStep

(* From a request on that overtakes no thread, with none overtaken before, *)
(* the render thread that main names is the only one and past              *)
(* RTwindowInit, so that nobody but it, as it leaves, sets the flag again. *)
AckInv ==
  main.overtaken = {} =>
    /\ main.pc \in {"poll", "nap"} =>
         /\ renderRunning => \E t \in Threads : t = main.thread /\ rt[t].pc \in Gone
         /\ \A t \in Threads : t = main.thread => rt[t].pc \notin Early
    /\ main.pc = "join" => \E t \in Threads : t = main.thread /\ rt[t].pc \in Gone

(* Nothing is ever drawn on Android, and a request that finds no surface   *)
(* lost leaves the thread nothing to wait for.                             *)
HeedInv ==
  /\ stateVersion = 0 /\ consumedVersion = 0
  /\ \A t \in Threads : rt[t].last = 0 /\ rt[t].latest = 0 /\ rt[t].pc \notin Drawing
  /\ main.pc \in {"poll", "nap", "kill"} /\ main.calm =>
       ~surfaceLost /\ \A t \in Threads : t = main.thread => rt[t].pc \notin Losing
  /\ main.pc = "kill" /\ main.calm /\ main.prompt => main.thread = NoThread

(* A notification brings nobody out of the four groups, nor into one.      *)
LEMMA NotifiedGroups ==
  ASSUME CoreTypeOK, NEW t \in Threads
  PROVE  /\ Notified(rt)[t].last = rt[t].last
         /\ Notified(rt)[t].latest = rt[t].latest
         /\ Notified(rt)[t].pc = "none" <=> rt[t].pc = "none"
         /\ Notified(rt)[t].pc \in Early <=> rt[t].pc \in Early
         /\ Notified(rt)[t].pc \in Drawing <=> rt[t].pc \in Drawing
         /\ Notified(rt)[t].pc \in Losing <=> rt[t].pc \in Losing
         /\ Notified(rt)[t].pc \in Gone <=> rt[t].pc \in Gone
BY DEF CoreTypeOK, Notified, Early, Drawing, Losing, Gone

(* The main thread: a request that overtakes nobody finds no thread in     *)
(* RTwindowInit, and what it sees when it polls is the acknowledgement.    *)
LEMMA MainStepAcked ==
  ASSUME AloneInv, AckInv, MainStep
  PROVE  AckInv'
<1> USE AndroidAssumption
        DEF AloneInv, AckInv, TypeOK, CoreTypeOK, MainAt, MainGoto, setRendering,
            renderVars, sharedVars, coreVars, NoThread
<1>1. CASE InitWindow     BY <1>1 DEF InitWindow
<1>2. CASE onWindowInit
  <2>1. main'.pc \in {"createThreads", "loop"}
    BY <1>2 DEF onWindowInit
  <2> QED BY <2>1
<1>3. CASE createThreads
  <2>1. main'.pc = "loop"
    BY <1>3 DEF createThreads
  <2> QED BY <2>1
<1>4. CASE onSurfaceLost  BY <1>4 DEF onSurfaceLost
<1>5. CASE ClearWindow    BY <1>5 DEF ClearWindow
<1>6. CASE ChangeFocus    BY <1>6 DEF ChangeFocus
<1>7. CASE Destroy
  <2>1. main'.pc = "poll" /\ main'.thread = main.thread /\ ~renderRunning'
    BY <1>7 DEF Destroy, signalStopRendering
  <2>2. rt' = Notified(rt)
    BY <1>7 DEF Destroy, signalStopRendering
  <2>3. main'.overtaken = {} => \A t \in Threads : rt[t].pc \notin Early
    BY <1>7 DEF Destroy, Unfinished, Early
  <2>4. main'.overtaken = {} => \A t \in Threads : rt'[t].pc \notin Early
    BY <2>2, <2>3, NotifiedGroups
  <2> QED BY <2>1, <2>4
<1>8. CASE PollAck
  <2>1. CASE renderRunning  BY <1>8, <2>1 DEF PollAck, Acknowledged
  <2>2. CASE ~renderRunning BY <1>8, <2>2 DEF PollAck, Acknowledged
  <2> QED BY <2>1, <2>2
<1>9. CASE PollAgain
  <2>1. /\ main.pc = "nap" /\ main'.thread = main.thread /\ UNCHANGED coreVars
        /\ main'.overtaken = main.overtaken
    BY <1>9 DEF PollAgain
  <2>2. main'.pc = "poll"
    BY <1>9 DEF PollAgain
  <2> QED BY <2>1, <2>2
<1>10. CASE PollTimeout   BY <1>10 DEF PollTimeout
<1>11. CASE Join          BY <1>11 DEF Join
<1>12. CASE Kill
  <2>1. main'.pc \in {"stopUpdate", "kill"}
    BY <1>12 DEF Kill
  <2> QED BY <2>1
<1>13. CASE StopUpdate    BY <1>13 DEF StopUpdate
<1>14. CASE JoinUpdate    BY <1>14 DEF JoinUpdate
<1> QED BY <1>1, <1>2, <1>3, <1>4, <1>5, <1>6, <1>7, <1>8, <1>9, <1>10, <1>11, <1>12, <1>13,
           <1>14 DEF MainStep

(* The render thread: when none was overtaken only the main thread's own   *)
(* can take a step at all, and it sets the flag as it leaves.              *)
LEMMA RenderStepAcked ==
  ASSUME AloneInv, AckInv, NEW r \in Threads, RenderStep(r), UNCHANGED main
  PROVE  AckInv'
<1> SUFFICES ASSUME main.overtaken = {} PROVE AckInv'
  BY DEF AckInv
<1>1. CoreTypeOK /\ ~Desktop
  BY AndroidAssumption DEF AloneInv, TypeOK
<1>2. rt[r].pc # "none" /\ \A t \in Threads : t # r => rt'[t] = rt[t]
  BY <1>1, RenderStepKeeps
<1>3. r = main.thread
  BY <1>2 DEF AloneInv, NamedPair
<1>4. /\ renderRunning' # renderRunning => rt[r].pc = "start" \/ rt'[r].pc \in Gone
      /\ rt'[r].pc \in Early => rt[r].pc \in Early
      /\ rt[r].pc \in Gone => rt'[r].pc \in Gone
  BY <1>1, RenderStepOrder
<1>5. main.pc \in {"poll", "nap"} =>
        /\ renderRunning' => rt'[r].pc \in Gone
        /\ rt'[r].pc \notin Early
  BY <1>3, <1>4 DEF AckInv, Early
<1>6. main.pc = "join" => rt'[r].pc \in Gone
  BY <1>3, <1>4 DEF AckInv
<1> QED BY <1>3, <1>5, <1>6 DEF AckInv

(* What main takes for the acknowledgement was written by a render thread  *)
(* about to exit, unless a command overtook a thread in RTwindowInit.      *)
THEOREM AcknowledgedByTheLeaving == Spec => []AckMeansExit
<1>1. Init => AckInv
  BY DEF Init, AckInv
<1>2. AloneInv /\ AckInv /\ [Next]_vars => AckInv'
  <2> SUFFICES ASSUME AloneInv, AckInv, [Next]_vars PROVE AckInv'
    OBVIOUS
  <2>1. CASE MainStep
    BY <2>1, MainStepAcked
  <2>2. ASSUME NEW r \in Threads, RenderStep(r) /\ UNCHANGED main PROVE AckInv'
    BY <2>2, RenderStepAcked
  <2>3. ASSUME NEW u \in Threads, UpdateStep(u) /\ UNCHANGED main PROVE AckInv'
    <3>1. UNCHANGED <<rt, renderRunning, main>>
      BY <2>3, UpdateStepKeeps
      DEF AloneInv, TypeOK, UpdateStep, TestUpdating, FixedUpdate, Update, UpdateCamera, renderVars
    <3> QED BY <3>1 DEF AckInv
  <2>4. CASE UNCHANGED vars
    BY <2>4 DEF AckInv, vars, coreVars, renderVars
  <2> QED BY <2>1, <2>2, <2>3, <2>4 DEF Next, ThreadStep, Terminated
<1>3. AckInv => AckMeansExit
  BY DEF AckInv, AckMeansExit, MainAt, Gone
<1> QED BY <1>1, <1>2, <1>3, AloneInvariant, PTL DEF Spec

(* The main thread: surfaceLost is written in the loop only, and the clock *)
(* of a request that is prompt runs only while the thread sleeps on.       *)
LEMMA MainStepHeeds ==
  ASSUME TypeOK, HeedInv, MainStep
  PROVE  HeedInv'
<1> USE AndroidAssumption
        DEF HeedInv, TypeOK, CoreTypeOK, MainAt, MainGoto, setRendering,
            renderVars, sharedVars, coreVars, NoThread
<1>0. ASSUME rt' = Notified(rt), UNCHANGED <<stateVersion, consumedVersion>>
      PROVE  /\ stateVersion' = 0 /\ consumedVersion' = 0
             /\ \A t \in Threads : rt'[t].last = 0 /\ rt'[t].latest = 0 /\ rt'[t].pc \notin Drawing
  BY <1>0, NotifiedGroups
<1>1. CASE InitWindow     BY <1>1 DEF InitWindow
<1>2. CASE onWindowInit
  <2>1. main'.pc \in {"createThreads", "loop"}
    BY <1>2 DEF onWindowInit
  <2> QED BY <1>0, <1>2, <2>1 DEF onWindowInit
<1>3. CASE createThreads
  <2>1. PICK t \in Threads : CreateThreads(t)
    BY <1>3 DEF createThreads
  <2>2. \A u \in Threads : rt'[u] = rt[u] \/ rt'[u] = Created
    BY <2>1 DEF CreateThreads
  <2>3. \A u \in Threads : rt'[u].last = 0 /\ rt'[u].latest = 0 /\ rt'[u].pc \notin Drawing
    BY <2>2 DEF Created, Drawing
  <2>4. main'.pc = "loop" /\ UNCHANGED <<stateVersion, consumedVersion>>
    BY <1>3, <2>1 DEF createThreads, CreateThreads
  <2> QED BY <2>3, <2>4
<1>4. CASE onSurfaceLost
  <2>1. main'.pc = "lostWindow"
    BY <1>4 DEF onSurfaceLost
  <2> QED BY <1>0, <1>4, <2>1 DEF onSurfaceLost
<1>5. CASE ClearWindow    BY <1>5 DEF ClearWindow
<1>6. CASE ChangeFocus    BY <1>6 DEF ChangeFocus
<1>7. CASE Destroy
  <2>1. /\ main'.pc = "poll" /\ main'.calm = Calm /\ main'.thread = main.thread
        /\ rt' = Notified(rt) /\ UNCHANGED <<surfaceLost, stateVersion, consumedVersion>>
    BY <1>7 DEF Destroy, signalStopRendering
  <2>2. Calm => ~surfaceLost /\ \A t \in Threads : t = main.thread => rt[t].pc \notin Losing
    BY DEF Calm, Losing
  <2>3. Calm => \A t \in Threads : t = main.thread => rt'[t].pc \notin Losing
    BY <2>1, <2>2, NotifiedGroups
  <2> HIDE DEF Calm
  <2> QED BY <1>0, <2>1, <2>2, <2>3
<1>8. CASE PollAck
  <2>1. main.pc = "poll" /\ main'.pc \in {"join", "nap"} /\ UNCHANGED coreVars
    BY <1>8 DEF PollAck
  <2>2. main'.thread = main.thread /\ main'.calm = main.calm
    BY <1>8 DEF PollAck
  <2> QED BY <2>1, <2>2
<1>9. CASE PollAgain
  <2>1. /\ main.pc = "nap" /\ main'.thread = main.thread /\ main'.calm = main.calm
        /\ UNCHANGED coreVars
    BY <1>9 DEF PollAgain
  <2>2. main'.pc = "poll"
    BY <1>9 DEF PollAgain
  <2> QED BY <2>1, <2>2
<1>10. CASE PollTimeout
  <2>1. /\ main.pc = "nap" /\ main' = [main EXCEPT !.pc = "kill"] /\ UNCHANGED coreVars
    BY <1>10 DEF PollTimeout
  <2>2. ASSUME main.calm, main.prompt PROVE main.thread = NoThread
    <3>1. SUFFICES ASSUME main.thread \in Threads PROVE FALSE
      BY <3>1
    <3>2. SleepsOn(main.thread)
      BY <1>10, <2>2, <3>1 DEF PollTimeout, ClockRuns
    <3> QED BY <2>1, <2>2, <3>1, <3>2 DEF SleepsOn, TimesOut, Losing
  <2> QED BY <2>1, <2>2
<1>11. CASE Join          BY <1>11 DEF Join
<1>12. CASE Kill
  <2>1. UNCHANGED <<renderVars, rt>> /\ (main'.pc = "stopUpdate" \/ main' = main)
    BY <1>12 DEF Kill
  <2> QED BY <2>1
<1>13. CASE StopUpdate    BY <1>13 DEF StopUpdate, signalStopUpdating
<1>14. CASE JoinUpdate    BY <1>14 DEF JoinUpdate
<1> QED BY <1>1, <1>2, <1>3, <1>4, <1>5, <1>6, <1>7, <1>8, <1>9, <1>10, <1>11, <1>12, <1>13,
           <1>14 DEF MainStep

(* The render thread finds no newer state, so that it draws nothing, and   *)
(* it does not come to RTsurfaceLost when the surface is there.            *)
LEMMA RenderStepHeeds ==
  ASSUME TypeOK, HeedInv, NEW r \in Threads, RenderStep(r), UNCHANGED main
  PROVE  HeedInv'
<1>1. CoreTypeOK /\ ~Desktop
  BY AndroidAssumption DEF TypeOK
<1>2. /\ \A t \in Threads : t # r => rt'[t] = rt[t]
      /\ stateVersion' = stateVersion
      /\ consumedVersion' \in {consumedVersion, rt[r].latest}
      /\ rt'[r].latest \in {rt[r].latest, stateVersion, 0}
  BY <1>1, RenderStepKeeps
<1>3. /\ UNCHANGED surfaceLost
      /\ rt'[r].pc \in Drawing =>
           rt[r].pc \in Drawing \/ (rt[r].pc = "compare" /\ stateVersion > rt[r].last)
      /\ rt'[r].pc \in Losing =>
           surfaceLost \/ rt[r].pc \in Losing \/ rt[r].pc \in Drawing
      /\ rt'[r].last \in {rt[r].last, consumedVersion, 0}
  BY <1>1, RenderStepOrder
<1>4. rt'[r].last = 0 /\ rt'[r].latest = 0 /\ rt'[r].pc \notin Drawing
  BY <1>2, <1>3 DEF HeedInv
<1>5. \A t \in Threads : rt'[t].last = 0 /\ rt'[t].latest = 0 /\ rt'[t].pc \notin Drawing
  BY <1>2, <1>4 DEF HeedInv
<1>6. main.pc \in {"poll", "nap", "kill"} /\ main.calm =>
        ~surfaceLost' /\ \A t \in Threads : t = main.thread => rt'[t].pc \notin Losing
  BY <1>2, <1>3 DEF HeedInv
<1> QED BY <1>2, <1>5, <1>6 DEF HeedInv

(* A prompt render thread with no lost surface to handle is not killed,    *)
(* wherever it was when it was asked to stop and whether or not it was     *)
(* notified: for any number of polls, whatever was overtaken before.       *)
THEOREM PromptNotKilled == Spec => []StopHeeded
<1>1. Init => HeedInv
  BY DEF Init, CoreInit, Created, HeedInv, Drawing
<1>2. TypeOK /\ HeedInv /\ [Next]_vars => HeedInv'
  <2> SUFFICES ASSUME TypeOK, HeedInv, [Next]_vars PROVE HeedInv'
    OBVIOUS
  <2>1. CASE MainStep
    BY <2>1, MainStepHeeds
  <2>2. ASSUME NEW r \in Threads, RenderStep(r) /\ UNCHANGED main PROVE HeedInv'
    BY <2>2, RenderStepHeeds
  <2>3. ASSUME NEW u \in Threads, UpdateStep(u) /\ UNCHANGED main PROVE HeedInv'
    <3>1. UNCHANGED <<rt, surfaceLost, stateVersion, consumedVersion, main>>
      BY <2>3
      DEF UpdateStep, TestUpdating, FixedUpdate, Update, UpdateCamera, renderVars
    <3> QED BY <3>1 DEF HeedInv
  <2>4. CASE UNCHANGED vars
    BY <2>4 DEF HeedInv, vars, coreVars, renderVars
  <2> QED BY <2>1, <2>2, <2>3, <2>4 DEF Next, ThreadStep, Terminated
<1>3. HeedInv => StopHeeded
  BY DEF HeedInv, StopHeeded, Joined, MainAt
<1> QED BY <1>1, <1>2, <1>3, InitType, NextType, PTL DEF Spec
=============================================================================
