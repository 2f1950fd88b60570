--------------------------- MODULE FiberScheduler ---------------------------
(***************************************************************************)
(* src/core/public/fiber/jobs.h and src/core/private/fiber/jobs.cpp: jobs  *)
(* with dependencies, run by fibers that pop three priority queues.        *)
(*                                                                         *)
(* One client thread declares dependencies, submits, waits, resets jobs    *)
(* for reuse and shuts the scheduler down; Fibers run fiberLoop.  A fiber  *)
(* is an actor of its own whichever worker thread hosts it: cooperative    *)
(* scheduling only removes interleavings.                                  *)
(*                                                                         *)
(* A queue is the bounded FIFO of module BoundedFifo, which MPMCQueue      *)
(* implements, refusals included: a push or a pop first claims its cell    *)
(* (compare_exchange) and later hands it over (seq.store), a pop finds     *)
(* nothing behind a claim that is not handed over, and a push no room.     *)
(***************************************************************************)
EXTENDS Integers, Sequences, FiniteSets

CONSTANTS Jobs,
          Fibers,
          NoJob,
          Priority,     \* job -> 0 (High), 1 (Medium), 2 (Low)
          Edges,        \* pairs <<d, j>>: the client may call j.addDepencency(d)
          WaitsOn,      \* job -> jobs its function calls waitFor on
          QueueCapacity,     \* number of cells of each queue
          EarlyReset,   \* may a job be reset once waitFor(job) has returned?
          EarlyShutdown,\* may shutdown be called before waitUntilAllTasksDone?
          MaxInflight,  \* bound: no push is retried past this count
          MaxRounds     \* bound: how often the client reuses its jobs

ASSUME ConstantsAssumption ==
  /\ NoJob \notin Jobs
  /\ Priority \in [Jobs -> 0 .. 2]
  /\ Edges \subseteq Jobs \X Jobs
  /\ WaitsOn \in [Jobs -> SUBSET Jobs]
  /\ IsFiniteSet(Jobs) /\ IsFiniteSet(Fibers)
  /\ QueueCapacity \in Nat \ {0, 1}   \* a queue of one cell is no FIFO
  /\ MaxInflight \in Nat /\ MaxRounds \in Nat
  /\ EarlyReset \in BOOLEAN /\ EarlyShutdown \in BOOLEAN

VARIABLES queue,       \* m_queues: the claimed pushes no pop has claimed, oldest first
          vacant,      \* prio -> the other cells, in the order pushes will claim them:
                       \* the job a pop is still taking out of the cell, or NoJob
          inflight,    \* m_inflightTasks
          shutdown,    \* m_shutdownRequest
          conts,       \* job -> m_continuations
          remaining,   \* job -> m_remainingDependencies
          done,        \* job -> m_done
          fiber,       \* fiber -> [pc, prio, task, todo, next]
          client,      \* [pc, job, dep]
          deps,        \* history: job -> dependencies declared since its reset
          submitted,   \* history: jobs the client has pushed since their reset
          runs,        \* history: job -> times its function has returned
          refused,     \* history: continuations whose push was refused since their reset
          rounds       \* history: times the client started over

queues == <<queue, vacant>>
jobVars == <<conts, remaining, done>>
history == <<deps, submitted, runs, refused, rounds>>
vars == <<queues, inflight, shutdown, jobVars, fiber, client, history>>

Prios == 0 .. 2

FiberPCs == {"scan", "missed", "take", "body", "signal", "copy", "copying", "trigger",
             "count", "enqueue", "publish", "retire", "notify", "exited"}

ClientPCs == {"build", "adding", "addCount", "count", "enqueue", "publish", "waitAll",
              "waitAllCheck", "asleep", "waitedAll", "waitJob", "waitedJob",
              "resetSignal", "resetFresh", "joining", "joined"}

At(f, label) == fiber[f].pc = label
ClientAt(label) == client.pc = label

ClientGoto(label) == client' = [client EXCEPT !.pc = label]
FiberGoto(f, label) == fiber' = [fiber EXCEPT ![f].pc = label]

Scanning == [pc |-> "scan", prio |-> 0, task |-> NoJob, todo |-> <<>>, next |-> NoJob]

-----------------------------------------------------------------------------
(* Deliberate slips, used only to show that the properties notice them:    *)
(* each stands in for the definition of the same stem further down.        *)
Ready_AnyDependency(prev) == prev >= 1
Submittable_Unchecked(j) == TRUE
Counted_Not(n) == n
MayExit_WithoutScan(f) == fiber[f].pc \in {"scan", "missed"} /\ shutdown
Ready_OldIsZero(prev) == prev = 0
MayExit_OnSentinel(f) == FALSE
WakeLockFree_Ignored == TRUE

\* fetch_sub returned 1: this was the last missing dependency
Ready(prev) == prev = 1

\* trySubmitTask, safeSubmitTask: "push only if no deps"
Submittable(j) == remaining[j] = 0

\* pushTask: m_inflightTasks.fetch_add(1)
Counted(n) == n + 1

\* m_inflightTasks.fetch_sub(1)
Retired(n) == n - 1

\* popTask has looked at the last of the three queues
LastMiss(f) == fiber[f].prio = 2

\* fiberLoop returns on the flag, and only after a fruitless popTask
MayExit(f) == At(f, "missed") /\ shutdown

\* m_doneMutex is free: the waiter is not between its test and its sleep
WakeLockFree == ~ClientAt("waitAllCheck")

\* The mutex addDepencency takes is the one of the job it is called on, not
\* the one of the job whose continuations it appends to.
ClientLocks(j) == ClientAt("adding") /\ client.job = j

FiberLocks(j) == \E f \in Fibers : At(f, "copying") /\ fiber[f].task = j

\* Neither j nor a job it depends on, directly or not, has been submitted.
Untouched(j) ==
  \E U \in SUBSET Jobs :
    /\ j \in U /\ U \cap submitted = {}
    /\ \A u \in U : deps[u] \subseteq U

-----------------------------------------------------------------------------
(* The queues.  No job is queued twice (RunsOnce), so its name tells the   *)
(* cell that holds it.                                                     *)

\* the cell of j is claimed by a push that has not stored its seq yet
Unpublished(j) ==
  \/ ClientAt("publish") /\ client.job = j
  \/ \E f \in Fibers : At(f, "publish") /\ fiber[f].next = j

\* MPMCQueue::pop: the head is queued, and its push has handed it over
HasEntry(p) == queue[p] # <<>> /\ ~Unpublished(Head(queue[p]))

\* MPMCQueue::push: the next cell is not queued, and its last pop has released it
HasRoom(p) == vacant[p] # <<>> /\ Head(vacant[p]) = NoJob

ClaimPush(j) ==
  /\ HasRoom(Priority[j])
  /\ queue' = [queue EXCEPT ![Priority[j]] = Append(@, j)]
  /\ vacant' = [vacant EXCEPT ![Priority[j]] = Tail(@)]

ClaimPop(p) ==
  /\ HasEntry(p)
  /\ queue' = [queue EXCEPT ![p] = Tail(@)]
  /\ vacant' = [vacant EXCEPT ![p] = Append(@, Head(queue[p]))]

Released(cells, j) == [i \in DOMAIN cells |-> IF cells[i] = j THEN NoJob ELSE cells[i]]

-----------------------------------------------------------------------------
Init ==
  /\ queue = [p \in Prios |-> <<>>]
  /\ vacant = [p \in Prios |-> [i \in 1 .. QueueCapacity |-> NoJob]]
  /\ inflight = 0
  /\ shutdown = FALSE
  /\ conts = [j \in Jobs |-> <<>>]
  /\ remaining = [j \in Jobs |-> 0]
  /\ done = [j \in Jobs |-> FALSE]
  /\ fiber = [f \in Fibers |-> Scanning]
  /\ client = [pc |-> "build", job |-> NoJob, dep |-> NoJob]
  /\ deps = [j \in Jobs |-> {}]
  /\ submitted = {}
  /\ runs = [j \in Jobs |-> 0]
  /\ refused = {}
  /\ rounds = 0

-----------------------------------------------------------------------------
(* fiberLoop *)

\* popTask: claim the head of a queue, High before Medium before Low
ScanHit(f) ==
  LET p == fiber[f].prio IN
  /\ At(f, "scan")
  /\ ClaimPop(p)
  /\ fiber' = [fiber EXCEPT ![f].pc = "take", ![f].task = Head(queue[p])]
  /\ UNCHANGED <<inflight, shutdown, jobVars, client, history>>

\* out = cell->value; cell->seq.store
ReleaseCell(f) ==
  /\ At(f, "take")
  /\ vacant' = [vacant EXCEPT ![fiber[f].prio] = Released(@, fiber[f].task)]
  /\ FiberGoto(f, "body")
  /\ UNCHANGED <<queue, inflight, shutdown, jobVars, client, history>>

ScanMiss(f) ==
  /\ At(f, "scan")
  /\ ~HasEntry(fiber[f].prio)
  /\ fiber' = [fiber EXCEPT ![f].pc = IF LastMiss(f) THEN "missed" ELSE "scan",
                            ![f].prio = IF LastMiss(f) THEN 0 ELSE @ + 1]
  /\ UNCHANGED <<queues, inflight, shutdown, jobVars, client, history>>

Exit(f) ==
  /\ MayExit(f)
  /\ FiberGoto(f, "exited")
  /\ UNCHANGED <<queues, inflight, shutdown, jobVars, client, history>>

\* yield, and start over
Rescan(f) ==
  /\ At(f, "missed")
  /\ ~shutdown
  /\ FiberGoto(f, "scan")
  /\ UNCHANGED <<queues, inflight, shutdown, jobVars, client, history>>

\* task->fn returns; a waitFor inside it polls m_done and yields meanwhile
RunBody(f) ==
  LET j == fiber[f].task IN
  /\ At(f, "body")
  /\ \A w \in WaitsOn[j] : done[w]
  /\ runs' = [runs EXCEPT ![j] = @ + 1]
  /\ FiberGoto(f, "signal")
  /\ UNCHANGED <<queues, inflight, shutdown, jobVars, client, deps, submitted, refused, rounds>>

SignalDone(f) ==
  /\ At(f, "signal")
  /\ done' = [done EXCEPT ![fiber[f].task] = TRUE]
  /\ FiberGoto(f, "copy")
  /\ UNCHANGED <<queues, inflight, shutdown, conts, remaining, client, history>>

LockContinuations(f) ==
  /\ At(f, "copy")
  /\ ~ClientLocks(fiber[f].task)
  /\ FiberGoto(f, "copying")
  /\ UNCHANGED <<queues, inflight, shutdown, jobVars, client, history>>

CopyContinuations(f) ==
  /\ At(f, "copying")
  /\ fiber' = [fiber EXCEPT ![f].pc = "trigger", ![f].todo = conts[fiber[f].task]]
  /\ UNCHANGED <<queues, inflight, shutdown, jobVars, client, history>>

TriggerNext(f) ==
  LET cont == Head(fiber[f].todo) IN
  /\ At(f, "trigger")
  /\ fiber[f].todo # <<>>
  /\ remaining' = [remaining EXCEPT ![cont] = @ - 1]
  /\ fiber' = [fiber EXCEPT ![f].todo = Tail(@),
                            ![f].next = IF Ready(remaining[cont]) THEN cont ELSE NoJob,
                            ![f].pc = IF Ready(remaining[cont]) THEN "count" ELSE @]
  /\ UNCHANGED <<queues, inflight, shutdown, conts, done, client, history>>

TriggerEnd(f) ==
  /\ At(f, "trigger")
  /\ fiber[f].todo = <<>>
  /\ FiberGoto(f, "retire")
  /\ UNCHANGED <<queues, inflight, shutdown, jobVars, client, history>>

\* pushTask counts the task before it is queued
CountContinuation(f) ==
  /\ At(f, "count")
  /\ inflight' = Counted(inflight)
  /\ FiberGoto(f, "enqueue")
  /\ UNCHANGED <<queues, shutdown, jobVars, client, history>>

EnqueueContinuation(f) ==
  /\ At(f, "enqueue")
  /\ ClaimPush(fiber[f].next)
  /\ FiberGoto(f, "publish")
  /\ UNCHANGED <<inflight, shutdown, jobVars, client, history>>

\* cell->value = v; cell->seq.store
PublishContinuation(f) ==
  /\ At(f, "publish")
  /\ fiber' = [fiber EXCEPT ![f].pc = "trigger", ![f].next = NoJob]
  /\ UNCHANGED <<queues, inflight, shutdown, jobVars, client, history>>

\* The result of pushTask is ignored: a job that is refused is lost.
ContinuationRefused(f) ==
  /\ At(f, "enqueue")
  /\ ~HasRoom(Priority[fiber[f].next])
  /\ refused' = refused \cup {fiber[f].next}
  /\ fiber' = [fiber EXCEPT ![f].pc = "trigger", ![f].next = NoJob]
  /\ UNCHANGED <<queues, inflight, shutdown, jobVars, client, deps, submitted, runs, rounds>>

Retire(f) ==
  /\ At(f, "retire")
  /\ inflight' = Retired(inflight)
  /\ fiber' = [fiber EXCEPT ![f] = [Scanning EXCEPT !.pc = IF inflight = 1
                                                           THEN "notify" ELSE "scan"]]
  /\ UNCHANGED <<queues, shutdown, jobVars, client, history>>

\* notify_all under m_doneMutex
Notify(f) ==
  /\ At(f, "notify")
  /\ WakeLockFree
  /\ FiberGoto(f, "scan")
  /\ client' = [client EXCEPT !.pc = IF @ = "asleep" THEN "waitAll" ELSE @]
  /\ UNCHANGED <<queues, inflight, shutdown, jobVars, history>>

FiberStep(f) ==
  \/ ScanHit(f) \/ ReleaseCell(f) \/ ScanMiss(f) \/ Exit(f) \/ Rescan(f)
  \/ RunBody(f) \/ SignalDone(f)
  \/ LockContinuations(f) \/ CopyContinuations(f)
  \/ TriggerNext(f) \/ TriggerEnd(f)
  \/ CountContinuation(f) \/ EnqueueContinuation(f)
  \/ PublishContinuation(f) \/ ContinuationRefused(f)
  \/ Retire(f) \/ Notify(f)

-----------------------------------------------------------------------------
(* The client: addDepencency *)

\* A job gets its dependencies before anything it depends on is submitted.
AddBegin(d, j) ==
  /\ ClientAt("build")
  /\ <<d, j>> \in Edges /\ d \notin deps[j]
  /\ Untouched(d) /\ Untouched(j)
  /\ ~FiberLocks(j)
  /\ client' = [pc |-> "adding", job |-> j, dep |-> d]
  /\ UNCHANGED <<queues, inflight, shutdown, jobVars, fiber, history>>

AddContinuation ==
  /\ ClientAt("adding")
  /\ conts' = [conts EXCEPT ![client.dep] = Append(@, client.job)]
  /\ ClientGoto("addCount")
  /\ UNCHANGED <<queues, inflight, shutdown, remaining, done, fiber, history>>

AddCount ==
  /\ ClientAt("addCount")
  /\ remaining' = [remaining EXCEPT ![client.job] = @ + 1]
  /\ deps' = [deps EXCEPT ![client.job] = @ \cup {client.dep}]
  /\ ClientGoto("build")
  /\ UNCHANGED <<queues, inflight, shutdown, conts, done, fiber, submitted, runs, refused, rounds>>

-----------------------------------------------------------------------------
(* The client: trySubmitTask and safeSubmitTask *)

\* The client submits a job before the jobs it depends on, and after those
\* its function waits for.
Submit(j) ==
  /\ ClientAt("build")
  /\ Untouched(j) /\ WaitsOn[j] \subseteq submitted
  /\ Submittable(j)
  /\ client' = [client EXCEPT !.pc = "count", !.job = j]
  /\ submitted' = submitted \cup {j}
  /\ UNCHANGED <<queues, inflight, shutdown, jobVars, fiber, deps, runs, refused, rounds>>

CountSubmission ==
  /\ ClientAt("count")
  /\ inflight < MaxInflight
  /\ inflight' = Counted(inflight)
  /\ ClientGoto("enqueue")
  /\ UNCHANGED <<queues, shutdown, jobVars, fiber, history>>

EnqueueSubmission ==
  /\ ClientAt("enqueue")
  /\ ClaimPush(client.job)
  /\ ClientGoto("publish")
  /\ UNCHANGED <<inflight, shutdown, jobVars, fiber, history>>

PublishSubmission ==
  /\ ClientAt("publish")
  /\ ClientGoto("build")
  /\ UNCHANGED <<queues, inflight, shutdown, jobVars, fiber, history>>

\* safeSubmitTask loops, trySubmitTask gives up; neither takes the count back
SubmissionRefused ==
  LET j == client.job IN
  /\ ClientAt("enqueue")
  /\ ~HasRoom(Priority[j])
  /\ \/ ClientGoto("count") /\ UNCHANGED submitted
     \/ ClientGoto("build") /\ submitted' = submitted \ {j}
  /\ UNCHANGED <<queues, inflight, shutdown, jobVars, fiber, deps, runs, refused, rounds>>

-----------------------------------------------------------------------------
(* The client: waitUntilAllTasksDone and waitFor *)

WaitAllBegin ==
  /\ ClientAt("build") /\ submitted # {}
  /\ ClientGoto("waitAll")
  /\ UNCHANGED <<queues, inflight, shutdown, jobVars, fiber, history>>

\* the predicate is evaluated with m_doneMutex held ...
WaitAllTest ==
  /\ ClientAt("waitAll")
  /\ ClientGoto(IF inflight = 0 THEN "waitedAll" ELSE "waitAllCheck")
  /\ UNCHANGED <<queues, inflight, shutdown, jobVars, fiber, history>>

\* ... and the wait releases it
WaitAllSleep ==
  /\ ClientAt("waitAllCheck")
  /\ ClientGoto("asleep")
  /\ UNCHANGED <<queues, inflight, shutdown, jobVars, fiber, history>>

WaitJobBegin(j) ==
  /\ ClientAt("build") /\ j \in submitted
  /\ client' = [client EXCEPT !.pc = "waitJob", !.job = j]
  /\ UNCHANGED <<queues, inflight, shutdown, jobVars, fiber, history>>

WaitJobEnd ==
  /\ ClientAt("waitJob") /\ done[client.job]
  /\ ClientGoto("waitedJob")
  /\ UNCHANGED <<queues, inflight, shutdown, jobVars, fiber, history>>

WaitJobGoOn ==
  /\ ClientAt("waitedJob")
  /\ ClientGoto("build")
  /\ UNCHANGED <<queues, inflight, shutdown, jobVars, fiber, history>>

-----------------------------------------------------------------------------
(* The client: reset and reuse *)

Used(j) == j \in submitted \/ deps[j] # {} \/ conts[j] # <<>> \/ done[j]

ResetClear(j) ==
  /\ Used(j)
  /\ \/ ClientAt("waitedAll") /\ rounds < MaxRounds
     \/ ClientAt("waitedJob") /\ EarlyReset /\ client.job = j
  /\ ~FiberLocks(j)
  /\ conts' = [conts EXCEPT ![j] = <<>>]
  /\ client' = [pc |-> "resetSignal", job |-> j, dep |-> IF ClientAt("waitedAll")
                                                        THEN NoJob ELSE j]
  /\ UNCHANGED <<queues, inflight, shutdown, remaining, done, fiber, history>>

\* m_done.store(true); m_doneCV.notify_all()
ResetSignal ==
  /\ ClientAt("resetSignal")
  /\ done' = [done EXCEPT ![client.job] = TRUE]
  /\ ClientGoto("resetFresh")
  /\ UNCHANGED <<queues, inflight, shutdown, conts, remaining, fiber, history>>

\* client.dep remembers which wait the client came from
ResetFresh ==
  LET j == client.job IN
  /\ ClientAt("resetFresh")
  /\ done' = [done EXCEPT ![j] = FALSE]
  /\ remaining' = [remaining EXCEPT ![j] = 0]
  /\ deps' = [deps EXCEPT ![j] = {}]
  /\ runs' = [runs EXCEPT ![j] = 0]
  /\ submitted' = submitted \ {j}
  /\ refused' = refused \ {j}
  /\ ClientGoto(IF client.dep = NoJob THEN "waitedAll" ELSE "build")
  /\ UNCHANGED <<queues, inflight, shutdown, conts, fiber, rounds>>

StartOver ==
  /\ ClientAt("waitedAll")
  /\ rounds < MaxRounds
  /\ \A j \in Jobs : ~Used(j)
  /\ rounds' = rounds + 1
  /\ ClientGoto("build")
  /\ UNCHANGED <<queues, inflight, shutdown, jobVars, fiber, deps, submitted, runs, refused>>

-----------------------------------------------------------------------------
(* The client: shutdown.  Pushing the sentinels changes nothing, because   *)
(* pushTask refuses a sentinel.                                            *)

Shutdown ==
  /\ \/ ClientAt("waitedAll")
     \/ ClientAt("build") /\ EarlyShutdown
  /\ shutdown' = TRUE
  /\ ClientGoto("joining")
  /\ UNCHANGED <<queues, inflight, jobVars, fiber, history>>

Join ==
  /\ ClientAt("joining")
  /\ \A f \in Fibers : At(f, "exited")
  /\ ClientGoto("joined")
  /\ UNCHANGED <<queues, inflight, shutdown, jobVars, fiber, history>>

\* The program goes on without the scheduler.
Terminated == ClientAt("joined") /\ UNCHANGED vars

ClientStep ==
  \/ \E d, j \in Jobs : AddBegin(d, j)
  \/ AddContinuation \/ AddCount
  \/ \E j \in Jobs : Submit(j)
  \/ CountSubmission \/ EnqueueSubmission \/ PublishSubmission \/ SubmissionRefused
  \/ WaitAllBegin \/ WaitAllTest \/ WaitAllSleep
  \/ \E j \in Jobs : WaitJobBegin(j)
  \/ WaitJobEnd \/ WaitJobGoOn
  \/ \E j \in Jobs : ResetClear(j)
  \/ ResetSignal \/ ResetFresh \/ StartOver
  \/ Shutdown \/ Join \/ Terminated

Next == ClientStep \/ \E f \in Fibers : FiberStep(f)

Spec == Init /\ [][Next]_vars

(* Fibers are scheduled round-robin on threads the system schedules, and a *)
(* client call that has begun goes on; whether the client makes another    *)
(* call is up to the client.                                               *)
ClientCallStep ==
  \/ AddContinuation \/ AddCount \/ CountSubmission \/ EnqueueSubmission
  \/ PublishSubmission \/ WaitAllTest \/ WaitAllSleep \/ WaitJobEnd \/ ResetSignal \/ ResetFresh \/ Join

FairSpec == /\ Spec
            /\ \A f \in Fibers : WF_vars(FiberStep(f))
            /\ WF_vars(ClientCallStep)

-----------------------------------------------------------------------------
(* Properties *)

(* Every variable keeps its type; the counters may in principle go below 0. *)
(* No run spends time on it.                                               *)
TypeOK ==
  /\ queue \in [Prios -> Seq(Jobs)]
  /\ vacant \in [Prios -> Seq(Jobs \cup {NoJob})]
  /\ inflight \in Int
  /\ shutdown \in BOOLEAN
  /\ conts \in [Jobs -> Seq(Jobs)]
  /\ remaining \in [Jobs -> Int]
  /\ done \in [Jobs -> BOOLEAN]
  /\ fiber \in [Fibers -> [pc : FiberPCs, prio : Prios, task : Jobs \cup {NoJob},
                           todo : Seq(Jobs), next : Jobs \cup {NoJob}]]
  /\ client \in [pc : ClientPCs, job : Jobs \cup {NoJob}, dep : Jobs \cup {NoJob}]
  /\ deps \in [Jobs -> SUBSET Jobs]
  /\ submitted \subseteq Jobs
  /\ runs \in [Jobs -> Nat]
  /\ refused \subseteq Jobs
  /\ rounds \in Nat

(* The function of a job starts only when every job it was declared to     *)
(* depend on has run.                                                      *)
DependencyOrder ==
  \A f \in Fibers : At(f, "body") => \A d \in deps[fiber[f].task] : runs[d] > 0

(* No job runs twice between two resets, although the client and the       *)
(* fibers finishing its dependencies may all find that it is ready.        *)
RunsOnce == \A j \in Jobs : runs[j] <= 1

(* A job that must run: submitted, or with every declared dependency run.  *)
Due(j) == \/ j \in submitted
          \/ deps[j] # {} /\ \A d \in deps[j] : runs[d] > 0

(* waitUntilAllTasksDone returns only when nothing is left to run: not     *)
(* between the end of a job and the start of its continuations.            *)
WaitAllSound == ClientAt("waitedAll") => \A j \in Jobs : Due(j) => runs[j] > 0

(* Even a shutdown that does not wait abandons no continuation that a      *)
(* queue has accepted: the fiber that pushed it scans again, whatever the  *)
(* others saw.  The one exception is a job left behind one the client      *)
(* submitted: while that push is not published every fiber can miss both,  *)
(* and find the flag up when it looks.  (Of submitted jobs nothing is      *)
(* said: one pushed behind the scan of every fiber just before shutdown is *)
(* abandoned.)                                                             *)
ShutdownKeepsContinuations ==
  ClientAt("joined") =>
    \A j \in Jobs : deps[j] # {} /\ (\A d \in deps[j] : runs[d] > 0) =>
      \/ runs[j] > 0
      \/ j \in refused
      \/ \E i \in DOMAIN queue[Priority[j]] :
           queue[Priority[j]][i] = j /\ Head(queue[Priority[j]]) \in submitted

Queued == Len(queue[0]) + Len(queue[1]) + Len(queue[2])

Working == {f \in Fibers : fiber[f].pc \in {"take", "body", "signal", "copy", "copying", "trigger",
                                            "count", "enqueue", "publish", "retire"}}

(* m_inflightTasks never falls short of the work that is queued or in a    *)
(* fiber, even when pushes are refused, retried or lost.                   *)
InflightCovers == inflight >= Queued + Cardinality(Working)

(* Every job that must run is done in the end: no continuation is dropped. *)
DueJobsFinish == \A j \in Jobs : Due(j) ~> done[j]

(* waitUntilAllTasksDone returns: the notification is not lost between the *)
(* waiter's test and its sleep.                                            *)
WaitAllReturns == ClientAt("waitAll") ~> ClientAt("waitedAll")

(* shutdown() returns although no sentinel reaches a fiber. *)
ShutdownReturns == ClientAt("joining") ~> ClientAt("joined")

-----------------------------------------------------------------------------
(* What comments of the code say and the code does not do *)

(* jobs.cpp, reset: "safe to clear now - no readers running that depend on *)
(* previous storage".  No fiber has still to read what reset clears.       *)
ResetClearsOnlyRead ==
  [][\A j \in Jobs : conts[j] # <<>> /\ conts'[j] = <<>> =>
       \A f \in Fibers : fiber[f].task = j => fiber[f].pc \notin {"copy", "copying"}]_vars
=============================================================================
