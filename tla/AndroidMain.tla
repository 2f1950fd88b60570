---------------------------- MODULE AndroidMain ----------------------------
(***************************************************************************)
(* src/launcher/android/app/src/main/cpp/main.cpp: the Android main thread *)
(* turns the commands of the activity into calls on the application, whose *)
(* threads are in RenderThread.  Commands arrive in any order the system   *)
(* permits: a window comes and goes, and the activity is destroyed once.   *)
(***************************************************************************)
EXTENDS RenderThread

CONSTANT MaxPolls   \* timeout_ms / interval_ms

NoThread == 0

ASSUME AndroidAssumption ==
  ~Desktop /\ MaxPolls \in Nat /\ NoThread \notin Threads

(* main is the main thread: its pc, the local firstInit, RenderThread and  *)
(* UpdateThread (thread), the polls made so far, and what is true of the   *)
(* request to stop: calm, it finds no surface lost; prompt, from then on   *)
(* the render thread runs whenever it can, and the clock only while it     *)
(* sleeps longer than the timeout.  No variable of the code has overtaken: *)
(* it collects the pairs that a command has found still in RTwindowInit    *)
(* although it relies on what RTwindowInit is about to write, a further    *)
(* window on m_windowInit and the destruction on renderRunning.            *)
VARIABLE main

vars == <<coreVars, main>>

MainPCs == {"loop", "initWindow", "createThreads", "lostWindow", "poll", "nap",
            "join", "kill", "stopUpdate", "joinUpdate", "destroyed"}

MainAt(label) == alive /\ main.pc = label
MainGoto(label) == main' = [main EXCEPT !.pc = label]

-----------------------------------------------------------------------------
(* Deliberate slips, used only to show that the properties notice them:    *)
(* each stands in for the definition of the same stem further down.        *)
Joined_Anyway == TRUE
Acknowledged_Stop == ~renderRunning

\* checkRTAck
Acknowledged == renderRunning

\* pthread_join on RenderThread returns
Joined == main.thread # NoThread => rt[main.thread].pc = "exited"

\* pthread_join on UpdateThread returns
UpdateJoined == main.thread # NoThread => ut[main.thread] = "exited"

\* in RTwindowInit, or about to enter it
Unfinished == {r \in Threads : rt[r].pc \in {"init", "initialized", "start"}}

\* bound: no window that would take more pairs than Threads
PairsLeft == windowInit \/ \E t \in Threads : rt[t].pc = "none"

\* new threads are alike
NextPair == CHOOSE t \in Threads : rt[t].pc = "none"

\* PollAgain: waited < timeout_ms
TimeLeft == main.polls + 1 < MaxPolls

\* asleep for longer than timeout_ms, but for the moments of a spurious wakeup
SleepsOn(r) == \/ rt[r].pc = "lostAsleep"
               \/ rt[r].pc \in {"lostWait", "lostDoze"} /\ surfaceLost
               \/ rt[r].pc = "asleep" /\ ~TimesOut

ClockRuns == main.prompt /\ main.thread # NoThread => SleepsOn(main.thread)

\* RTsurfaceLost is not running and will not be called
Calm == /\ ~surfaceLost
        /\ main.thread # NoThread =>
             rt[main.thread].pc \notin {"lost", "lostWait", "lostDoze", "lostAsleep"}

-----------------------------------------------------------------------------
Init ==
  /\ CoreInit
  /\ main = [pc |-> "loop", first |-> FALSE, thread |-> NoThread, polls |-> 0,
             calm |-> FALSE, prompt |-> FALSE, overtaken |-> {}]

\* APP_CMD_INIT_WINDOW: the glue has set android_app::window
InitWindow ==
  /\ MainAt("loop") /\ ~window /\ PairsLeft
  /\ window' = TRUE
  /\ main' = [main EXCEPT !.pc = "initWindow", !.first = ~windowInit,
                         !.overtaken = IF windowInit THEN @ ELSE @ \cup Unfinished]
  /\ UNCHANGED <<alive, renderVars, shouldUpdate, ahead, camera, rt, ut>>

onWindowInit ==
  /\ MainAt("initWindow")
  /\ surfaceLost' = IF windowInit THEN FALSE ELSE surfaceLost
  /\ rt' = Notified(rt)
  /\ MainGoto(IF main.first THEN "createThreads" ELSE "loop")
  /\ UNCHANGED <<alive, windowInit, renderRunning, stateVersion, consumedVersion,
                 shouldRender, stillResizing, sharedVars, ut>>

createThreads ==
  /\ MainAt("createThreads")
  /\ \E t \in Threads : /\ t = NextPair /\ CreateThreads(t)
                        /\ main' = [main EXCEPT !.pc = "loop", !.thread = t]

\* APP_CMD_TERM_WINDOW
onSurfaceLost ==
  /\ MainAt("loop") /\ window
  /\ surfaceLost' = TRUE
  /\ rt' = Notified(rt)
  /\ MainGoto("lostWindow")
  /\ UNCHANGED <<alive, windowInit, renderRunning, stateVersion, consumedVersion,
                 shouldRender, stillResizing, sharedVars, ut>>

\* the glue clears android_app::window after the handler
ClearWindow ==
  /\ MainAt("lostWindow")
  /\ window' = FALSE
  /\ MainGoto("loop")
  /\ UNCHANGED <<alive, renderVars, shouldUpdate, ahead, camera, rt, ut>>

\* APP_CMD_GAINED_FOCUS, APP_CMD_LOST_FOCUS
ChangeFocus ==
  /\ MainAt("loop")
  /\ setRendering(~shouldRender)
  /\ UNCHANGED main

\* APP_CMD_DESTROY, timedJoinThreads
Destroy ==
  /\ MainAt("loop")
  /\ signalStopRendering
  /\ \E prompt \in BOOLEAN :
       main' = [main EXCEPT !.pc = "poll", !.calm = Calm, !.prompt = prompt,
                            !.overtaken = @ \cup Unfinished]

PollAck ==
  /\ MainAt("poll")
  /\ MainGoto(IF Acknowledged THEN "join" ELSE "nap")
  /\ UNCHANGED coreVars

\* usleep may take longer than asked, never less
PollAgain ==
  /\ MainAt("nap")
  /\ \/ /\ ClockRuns /\ TimeLeft
        /\ main' = [main EXCEPT !.pc = "poll", !.polls = @ + 1]
     \/ ~ClockRuns /\ MainGoto("poll")
  /\ UNCHANGED coreVars

PollTimeout ==
  /\ MainAt("nap") /\ ClockRuns
  /\ MainGoto("kill")
  /\ UNCHANGED coreVars

Join ==
  /\ MainAt("join") /\ Joined
  /\ MainGoto("stopUpdate")
  /\ UNCHANGED coreVars

\* pthread_kill: SIGTERM ends the process, unless there is no such thread
Kill ==
  /\ MainAt("kill")
  /\ IF Joined THEN MainGoto("stopUpdate") /\ UNCHANGED alive
               ELSE alive' = FALSE /\ UNCHANGED main
  /\ UNCHANGED <<renderVars, sharedVars, rt, ut>>

StopUpdate ==
  /\ MainAt("stopUpdate")
  /\ signalStopUpdating
  /\ MainGoto("joinUpdate")

\* the destructor of the application runs
JoinUpdate ==
  /\ MainAt("joinUpdate") /\ UpdateJoined
  /\ MainGoto("destroyed")
  /\ UNCHANGED coreVars

MainStep ==
  \/ InitWindow \/ onWindowInit \/ createThreads
  \/ onSurfaceLost \/ ClearWindow \/ ChangeFocus
  \/ Destroy \/ PollAck \/ PollAgain \/ PollTimeout
  \/ Join \/ Kill \/ StopUpdate \/ JoinUpdate

\* AndroidApp::UTdoOnUpdate signals nothing to the render thread
Update(u) == UpdateCamera(u, "test")

UpdateStep(u) == TestUpdating(u) \/ FixedUpdate(u) \/ Update(u)

ThreadStep(t) == (RenderStep(t) \/ UpdateStep(t)) /\ UNCHANGED main

\* The process is gone, or android_main returns.
Terminated == (~alive \/ MainAt("destroyed")) /\ UNCHANGED vars

Next == MainStep \/ (\E t \in Threads : ThreadStep(t)) \/ Terminated

Spec == Init /\ [][Next]_vars

(* The system schedules every thread, and a command once begun goes on;    *)
(* which command comes next, if any, is up to the system.                  *)
FairSpec ==
  /\ Spec
  /\ \A t \in Threads : /\ WF_vars(RenderStep(t) /\ UNCHANGED main)
                        /\ WF_vars(UpdateStep(t) /\ UNCHANGED main)
  /\ WF_vars(main.pc # "loop" /\ MainStep)

-----------------------------------------------------------------------------
(* Properties *)

(* Every variable keeps its type.  No run spends time on it. *)
TypeOK ==
  /\ CoreTypeOK
  /\ main \in [pc : MainPCs, first : BOOLEAN, thread : Threads \cup {NoThread},
               polls : 0 .. MaxPolls, calm : BOOLEAN, prompt : BOOLEAN,
               overtaken : SUBSET Threads]

(* The application is destroyed only when no thread can touch it any more: *)
(* never under the pair of threads that main knows, and under another one  *)
(* only if a further window came before that one had been initialized.     *)
DestroyedAlone ==
  MainAt("destroyed") =>
    \A t \in Threads : t = main.thread \/ t \notin main.overtaken =>
      ~Running(t) /\ ut[t] \in {"none", "exited"}

(* checkRTAck: what main takes for the acknowledgement of its request was  *)
(* written by its render thread, about to exit, unless a command overtook  *)
(* a thread whose RTwindowInit takes the request back.                     *)
AckMeansExit ==
  MainAt("join") /\ main.overtaken = {} =>
    \E t \in Threads : t = main.thread /\ rt[t].pc \in {"leaving", "exited"}

(* A prompt render thread that has no lost surface to handle acknowledges  *)
(* the request before timeout_ms, whether or not the notification reached  *)
(* it, and the process is not killed.                                      *)
StopHeeded == MainAt("kill") /\ main.calm /\ main.prompt => Joined

(* The destruction of the activity comes to an end, whatever the state the *)
(* render thread was in when it was asked to stop, past RTwindowInit.      *)
DestroyEnds == MainAt("poll") /\ main.overtaken = {} ~> ~alive \/ MainAt("destroyed")

(* A render thread waiting for a surface goes on once a window is back for *)
(* good, even when it misses the notification.                             *)
SurfaceRegained ==
  <>[](~surfaceLost) =>
    \A t \in Threads :
      []<>(alive => rt[t].pc \notin {"lostWait", "lostDoze", "lostAsleep"})
=============================================================================
