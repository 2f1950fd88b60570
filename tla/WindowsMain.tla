----------------------------- MODULE WindowsMain -----------------------------
(***************************************************************************)
(* src/launcher/windows/main.cpp, avk-win32-window.cpp, avk-comutils.cpp   *)
(* and the update of avk-windows-application.cpp: the UI thread with the   *)
(* primary window, and the COM thread that shows notifications and file    *)
(* pickers for it.  Two Win32 events stand between them: hCanWrite, reset  *)
(* by the wait it lets through, is the lock of the message list; hHasWork  *)
(* stays set until somebody resets it.                                     *)
(*                                                                         *)
(* The three joins wait ten seconds and then terminate the thread.  The    *)
(* full screen switch and hit testing do not reach the other threads.      *)
(***************************************************************************)
EXTENDS RenderThread, Sequences

CONSTANT MaxRequests   \* bound: requests to the COM thread

ASSUME WindowsAssumption == Desktop /\ MaxRequests \in Nat

VARIABLES main,      \* [pc, moving, prompt, terminated]
          com,       \* [pc, msg] of avkComThread
          messages,  \* COMPayload::messages; a request is named by its number
          canWrite, hasWork, comShutdown,
          asked,     \* history: requests enqueued so far
          served     \* history: requests processed

comVars == <<com, messages, canWrite, hasWork, comShutdown, asked, served>>
vars == <<coreVars, main, comVars>>

NoMessage == 0
Requests == 1 .. MaxRequests

MainPCs == {"creating", "window", "loop", "lock", "write", "unlock", "signal", "stop",
            "join", "stopUpdate", "joinUpdate", "stopCom", "wakeCom", "joinCom", "close",
            "destroyed"}

ComPCs == {"none", "starting", "wait", "woken", "lock", "take", "reset", "release",
           "process", "processed", "exited"}

MainAt(label) == alive /\ main.pc = label
MainGoto(label) == main' = [main EXCEPT !.pc = label]
ComAt(label) == alive /\ com.pc = label
ComGoto(label) == com' = [com EXCEPT !.pc = label]

Ended == {"none", "exited"}
Closing == main.pc \in {"stop", "join", "stopUpdate", "joinUpdate", "stopCom", "wakeCom",
                        "joinCom", "close", "destroyed"}

-----------------------------------------------------------------------------
(* Deliberate slips, used only to show that the properties notice them:    *)
(* each stands in for the definition of the same stem further down.        *)
Drained_Always(left) == TRUE
ComJoined_Anyway == TRUE
Popped_First(list) == SubSeq(list, 2, Len(list))

\* messages.empty() after pop_back
Drained(left) == left = <<>>

\* messages.pop_back()
Popped(list) == SubSeq(list, 1, Len(list) - 1)

\* WaitForSingleObject(hCanWrite, INFINITE) returns
LockFree == canWrite

\* the COM thread waits for an event that nobody is going to set
Unheard == com.pc = "wait" /\ ~hasWork

\* WaitForSingleObject(hComThread) returns WAIT_OBJECT_0
ComJoined == com.pc \in Ended

Init ==
  /\ CoreInit
  /\ main = [pc |-> "creating", moving |-> FALSE, prompt |-> TRUE, terminated |-> {}]
  /\ com = [pc |-> "none", msg |-> NoMessage]
  /\ messages = <<>>
  /\ canWrite = TRUE /\ hasWork = FALSE /\ comShutdown = FALSE
  /\ asked = 0 /\ served = {}

-----------------------------------------------------------------------------
(* wWinMain, createPrimaryWindow *)

\* the COM thread comes first, and may see no window at all
StartCom ==
  /\ MainAt("creating")
  /\ ComGoto("starting")
  /\ MainGoto("window")
  /\ UNCHANGED <<coreVars, messages, canWrite, hasWork, comShutdown, asked, served>>

\* CreateWindowExW, which sends WM_CREATE, then the two application threads;
\* any failure ends in showErrorScreenAndExit
CreateWindow ==
  /\ MainAt("window")
  /\ \/ /\ window' = TRUE
        /\ shouldRender' = TRUE
        /\ \E t \in Threads : /\ rt' = [rt EXCEPT ![t] = Created]
                              /\ UpdateGoto(t, "test")
        /\ MainGoto("loop")
        /\ UNCHANGED alive
     \/ /\ alive' = FALSE
        /\ UNCHANGED <<window, shouldRender, rt, ut, main>>
  /\ UNCHANGED <<windowInit, surfaceLost, renderRunning, stateVersion, consumedVersion,
                 stillResizing, shouldUpdate, ahead, camera, comVars>>

-----------------------------------------------------------------------------
(* primaryWindowProc *)

\* WM_ACTIVATE; losing the focus does not pause
Activate ==
  /\ MainAt("loop")
  /\ setRendering(TRUE)
  /\ UNCHANGED <<main, comVars>>

\* WM_ENTERSIZEMOVE, WM_EXITSIZEMOVE
SizeMove ==
  /\ MainAt("loop")
  /\ setRendering(main.moving)
  /\ main' = [main EXCEPT !.moving = ~@]
  /\ UNCHANGED comVars

\* WM_KEYDOWN: primaryWindowKeyDown, enqueueMessageCOM up to its wait
KeyDown ==
  /\ MainAt("loop") /\ asked < MaxRequests
  /\ MainGoto("lock")
  /\ UNCHANGED <<coreVars, comVars>>

LockMessages ==
  /\ MainAt("lock") /\ canWrite
  /\ canWrite' = FALSE
  /\ MainGoto("write")
  /\ UNCHANGED <<coreVars, com, messages, hasWork, comShutdown, asked, served>>

PushMessage ==
  /\ MainAt("write")
  /\ asked' = asked + 1
  /\ messages' = Append(messages, asked')
  /\ MainGoto("unlock")
  /\ UNCHANGED <<coreVars, com, canWrite, hasWork, comShutdown, served>>

UnlockMessages ==
  /\ MainAt("unlock")
  /\ canWrite' = TRUE
  /\ MainGoto("signal")
  /\ UNCHANGED <<coreVars, com, messages, hasWork, comShutdown, asked, served>>

SignalWork ==
  /\ MainAt("signal")
  /\ hasWork' = TRUE
  /\ MainGoto("loop")
  /\ UNCHANGED <<coreVars, com, messages, canWrite, comShutdown, asked, served>>

EnqueueStep == LockMessages \/ PushMessage \/ UnlockMessages \/ SignalWork

\* WM_CLOSE: PostQuitMessage, and the loop sees WM_QUIT
Close ==
  /\ MainAt("loop") /\ ~main.moving
  /\ \E p \in BOOLEAN : main' = [main EXCEPT !.pc = "stop", !.prompt = p]
  /\ UNCHANGED <<coreVars, comVars>>

-----------------------------------------------------------------------------
(* primaryWindowMessageLoop, after the loop.  A wait may time out, and the *)
(* thread is terminated.  When prompt, a wait times out only on a thread   *)
(* that would not end: a render thread which took the request back, a COM  *)
(* thread whose picker is open, or one that cleared the event meant to     *)
(* stop it.                                                                *)

Terminate(name, next) ==
  main' = [main EXCEPT !.pc = next, !.terminated = @ \cup {name}]

Stop ==
  /\ MainAt("stop")
  /\ signalStopRendering
  /\ MainGoto("join")
  /\ UNCHANGED comVars

Join ==
  /\ MainAt("join")
  /\ \A t \in Threads : rt[t].pc \in Ended
  /\ MainGoto("stopUpdate")
  /\ UNCHANGED <<coreVars, comVars>>

TerminateRender ==
  /\ MainAt("join")
  /\ \E t \in Threads :
       /\ Running(t)
       /\ main.prompt => renderRunning /\ rt[t].pc # "leaving"
       /\ RenderGoto(t, "exited")
  /\ Terminate("render", "stopUpdate")
  /\ UNCHANGED <<alive, renderVars, sharedVars, ut, comVars>>

StopUpdate ==
  /\ MainAt("stopUpdate")
  /\ signalStopUpdating
  /\ MainGoto("joinUpdate")
  /\ UNCHANGED comVars

JoinUpdate ==
  /\ MainAt("joinUpdate")
  /\ \A t \in Threads : ut[t] \in Ended
  /\ MainGoto("stopCom")
  /\ UNCHANGED <<coreVars, comVars>>

TerminateUpdate ==
  /\ MainAt("joinUpdate") /\ ~main.prompt
  /\ \E t \in Threads : ut[t] \notin Ended /\ UpdateGoto(t, "exited")
  /\ Terminate("update", "stopCom")
  /\ UNCHANGED <<alive, renderVars, sharedVars, rt, comVars>>

StopCom ==
  /\ MainAt("stopCom")
  /\ comShutdown' = TRUE
  /\ MainGoto("wakeCom")
  /\ UNCHANGED <<coreVars, com, messages, canWrite, hasWork, asked, served>>

WakeCom ==
  /\ MainAt("wakeCom")
  /\ hasWork' = TRUE
  /\ MainGoto("joinCom")
  /\ UNCHANGED <<coreVars, com, messages, canWrite, comShutdown, asked, served>>

JoinCom ==
  /\ MainAt("joinCom") /\ ComJoined
  /\ MainGoto("close")
  /\ UNCHANGED <<coreVars, comVars>>

TerminateCom ==
  /\ MainAt("joinCom") /\ com.pc \notin Ended
  /\ main.prompt => com.pc = "process" \/ Unheard
  /\ ComGoto("exited")
  /\ Terminate("com", "close")
  /\ UNCHANGED <<coreVars, messages, canWrite, hasWork, comShutdown, asked, served>>

\* CloseHandle, twice, DestroyWindow, and ~WindowsApplication
CloseWindow ==
  /\ MainAt("close")
  /\ window' = FALSE
  /\ MainGoto("destroyed")
  /\ UNCHANGED <<alive, renderVars, shouldUpdate, ahead, camera, rt, ut, comVars>>

CloseStep ==
  \/ Stop \/ Join \/ TerminateRender \/ StopUpdate \/ JoinUpdate \/ TerminateUpdate
  \/ StopCom \/ WakeCom \/ JoinCom \/ TerminateCom \/ CloseWindow

MainStep == StartCom \/ CreateWindow \/ Activate \/ SizeMove \/ KeyDown \/ Close

-----------------------------------------------------------------------------
(* avkComThread *)

\* the apartment and the AppUserModelRegistration, which may throw
Register ==
  /\ ComAt("starting")
  /\ \E next \in {"wait", "exited"} : ComGoto(next)
  /\ UNCHANGED <<coreVars, main, messages, canWrite, hasWork, comShutdown, asked, served>>

WaitForWork ==
  /\ ComAt("wait") /\ hasWork
  /\ ComGoto("woken")
  /\ UNCHANGED <<coreVars, main, messages, canWrite, hasWork, comShutdown, asked, served>>

\* the flag is read before a message is taken and after it is processed
TestShutdown ==
  /\ \/ ComAt("woken") /\ ComGoto(IF comShutdown THEN "exited" ELSE "lock")
     \/ ComAt("processed") /\ ComGoto(IF comShutdown THEN "exited" ELSE "wait")
  /\ UNCHANGED <<coreVars, main, messages, canWrite, hasWork, comShutdown, asked, served>>

ComLock ==
  /\ ComAt("lock") /\ LockFree
  /\ canWrite' = FALSE
  /\ ComGoto("take")
  /\ UNCHANGED <<coreVars, main, messages, hasWork, comShutdown, asked, served>>

TakeNothing ==
  /\ ComAt("take") /\ messages = <<>>
  /\ com' = [pc |-> "reset", msg |-> NoMessage]
  /\ UNCHANGED <<coreVars, main, messages, canWrite, hasWork, comShutdown, asked, served>>

\* the last message first
TakeMessage ==
  /\ ComAt("take") /\ messages # <<>>
  /\ messages' = Popped(messages)
  /\ com' = [pc |-> IF Drained(messages') THEN "reset" ELSE "release",
             msg |-> messages[Len(messages)]]
  /\ UNCHANGED <<coreVars, main, canWrite, hasWork, comShutdown, asked, served>>

ResetWork ==
  /\ ComAt("reset")
  /\ hasWork' = FALSE
  /\ ComGoto("release")
  /\ UNCHANGED <<coreVars, main, messages, canWrite, comShutdown, asked, served>>

ReleaseMessages ==
  /\ ComAt("release")
  /\ canWrite' = TRUE
  /\ ComGoto(IF com.msg = NoMessage THEN "wait" ELSE "process")
  /\ UNCHANGED <<coreVars, main, messages, hasWork, comShutdown, asked, served>>

\* showToast, or a picker that stays open until the user answers it
Process ==
  /\ ComAt("process")
  /\ served' = served \cup {com.msg}
  /\ ComGoto("processed")
  /\ UNCHANGED <<coreVars, main, messages, canWrite, hasWork, comShutdown, asked>>

ComStep ==
  \/ Register \/ WaitForWork \/ TestShutdown \/ ComLock \/ TakeNothing \/ TakeMessage
  \/ ResetWork \/ ReleaseMessages

-----------------------------------------------------------------------------
(* UTdoOnUpdate: the camera, then signalStateUpdated, without a pause *)

Update(u) == UpdateCamera(u, "signal")

Signal(u) ==
  /\ UpdateAt(u, "signal")
  /\ signalStateUpdated
  /\ UpdateGoto(u, "test")

UpdateStep(u) ==
  /\ TestUpdating(u) \/ FixedUpdate(u) \/ Update(u) \/ Signal(u)
  /\ UNCHANGED <<main, comVars>>

RenderSteps(r) == RenderStep(r) /\ UNCHANGED <<main, comVars>>

Terminated == (~alive \/ MainAt("destroyed")) /\ UNCHANGED vars

Next ==
  \/ MainStep \/ EnqueueStep \/ CloseStep
  \/ ComStep \/ Process
  \/ \E t \in Threads : RenderSteps(t) \/ UpdateStep(t)
  \/ Terminated

Spec == Init /\ [][Next]_vars

(* The system schedules every thread; what the UI thread has begun, a      *)
(* request or a close, goes on.  Nothing is assumed of the user.           *)
FairSpec ==
  /\ Spec
  /\ \A t \in Threads : WF_vars(RenderSteps(t)) /\ WF_vars(UpdateStep(t))
  /\ WF_vars(ComStep)
  /\ WF_vars(EnqueueStep) /\ WF_vars(CloseStep)

-----------------------------------------------------------------------------
(* Properties *)

(* Every variable keeps its type.  No run spends time on it. *)
TypeOK ==
  /\ CoreTypeOK
  /\ main \in [pc : MainPCs, moving : BOOLEAN, prompt : BOOLEAN,
               terminated : SUBSET {"render", "update", "com"}]
  /\ com \in [pc : ComPCs, msg : Requests \cup {NoMessage}]
  /\ messages \in Seq(Requests)
  /\ {canWrite, hasWork, comShutdown} \subseteq BOOLEAN
  /\ asked \in 0 .. MaxRequests
  /\ served \subseteq Requests

(* A request is never forgotten: the COM thread does not wait for an event *)
(* that nobody is going to set while there are messages, although the UI   *)
(* thread sets it only after it has given the list back.                   *)
WorkSignalled ==
  com.pc = "wait" /\ messages # <<>> => hasWork \/ main.pc \in {"unlock", "signal"}

(* The handles, the window and the application go when no thread is left   *)
(* that could use them.                                                    *)
NobodyLeft ==
  main.pc = "destroyed" =>
    /\ \A t \in Threads : rt[t].pc \in Ended /\ ut[t] \in Ended
    /\ com.pc \in Ended

(* A request is processed, also one asked while another is at work and one *)
(* the user adds behind it, unless a picker stays open, the COM thread has *)
(* failed to start, or the window closes.                                  *)
RequestsServed ==
  []<>(com.pc # "process") =>
    \A r \in Requests :
      asked >= r ~> r \in served \/ ~alive \/ Closing \/ com.pc = "exited"

(* "wake up COM thread so it can exit, then wait for it": while the UI     *)
(* thread waits, the COM thread does not sleep on a cleared event.  It     *)
(* does: woken once too often, because its last message came before the    *)
(* event for it, it finds no request to stop and then no message, and      *)
(* resets the event that the UI thread has set in between.                 *)
ShutdownHeard == main.pc = "joinCom" => ~Unheard

(* The UI thread gets through the end of primaryWindowMessageLoop, and, if *)
(* it is given the time, no thread is terminated except the COM thread,    *)
(* while its picker is open or because it missed the request, and a render *)
(* thread that was still starting.                                         *)
CloseEnds ==
  /\ MainAt("stop") ~> MainAt("destroyed") \/ ~alive
  /\ MainAt("stop") /\ main.prompt /\ renderRunning ~>
       ~alive \/ (MainAt("destroyed") /\ main.terminated \subseteq {"com"})
=============================================================================
