------------------------ MODULE FiberScheduler_proofs ------------------------
(***************************************************************************)
(* What FiberScheduler promises, proved for every finite set of jobs and   *)
(* fibers, every graph of dependencies, every assignment of priorities and *)
(* every capacity of the queues.  The in-flight counter covers the work    *)
(* there is whatever the client does; the rest needs a client that resets  *)
(* jobs only after waitUntilAllTasksDone (run scheduler_reset shows why),  *)
(* and says what a queue may refuse: a continuation, unless the queue has  *)
(* a cell for every job of its priority.                                   *)
(*                                                                         *)
(* The second part is about the queue, MPMCQueue, for every set of threads *)
(* and values and every capacity.  Its typing holds from one cell on;      *)
(* everything else needs two, because in a queue of one cell the sequence  *)
(* number that publishes position p is also the one that frees the cell    *)
(* for position p + 1.                                                     *)
(***************************************************************************)
EXTENDS FiberScheduler, MPMCQueue, FiniteSetTheorems, SequenceTheorems, TLAPS

(* The elements of a list, and a list that holds nothing twice.            *)
ElementsOf(s) == {s[i] : i \in DOMAIN s}
Distinct(s) == \A i, k \in DOMAIN s : s[i] = s[k] => i = k

-----------------------------------------------------------------------------
(* The counter *)

(* What the locations of the actors say of their registers.                *)
Shape ==
  /\ \A f \in Fibers :
       /\ f \in Working => fiber[f].task \in Jobs
       /\ fiber[f].pc \in {"count", "enqueue", "publish"} => fiber[f].next \in Jobs
  /\ client.pc \in {"adding", "addCount", "count", "enqueue", "publish", "waitJob",
                    "resetSignal", "resetFresh"} => client.job \in Jobs
  /\ client.pc \in {"adding", "addCount"} =>
       <<client.dep, client.job>> \in Edges /\ client.dep \notin deps[client.job]
  /\ ClientAt("joined") => \A f \in Fibers : At(f, "exited")

(* Pushes that have been counted and have not reached their queue yet.     *)
Carriers == {f \in Fibers : At(f, "enqueue")}
ClientCarries == IF ClientAt("enqueue") THEN 1 ELSE 0

(* What m_inflightTasks counts beyond the work there is: refused pushes.   *)
Slack == inflight - (Queued + Cardinality(Working) + Cardinality(Carriers) + ClientCarries)

CoverInv == TypeOK /\ Shape /\ Slack >= 0

-----------------------------------------------------------------------------
(* Where a job is *)

Holds(f, j) == f \in Working /\ fiber[f].task = j
Carries(f, j) == fiber[f].pc \in {"count", "enqueue"} /\ fiber[f].next = j

InQueue(j) == \E p \in Prios : j \in ElementsOf(queue[p])
Held(j) == \E f \in Fibers : Holds(f, j)
Carried(j) == \E f \in Fibers : Carries(f, j)
Started(j) == InQueue(j) \/ Held(j) \/ Carried(j) \/ runs[j] > 0

(* The job of fiber f has still to run.                                    *)
Fresh(f) == fiber[f].pc \in {"take", "body"}

(* Fiber f, done with the function of d, has still to tell the continuation *)
(* j that d is done.                                                        *)
Owes(f, d, j) ==
  /\ fiber[f].task = d
  /\ \/ At(f, "signal") \/ At(f, "copy") \/ At(f, "copying")
     \/ /\ fiber[f].pc \in {"trigger", "count", "enqueue", "publish"}
        /\ j \in ElementsOf(fiber[f].todo)

(* The dependencies that still hold job j back.                            *)
Waiting(j) == {d \in deps[j] : runs[d] = 0 \/ \E f \in Fibers : Owes(f, d, j)}

(* The jobs whose first push has succeeded.                                *)
Launched == submitted \ (IF client.pc \in {"count", "enqueue"} THEN {client.job} ELSE {})

(* Fiber f has still to look at queue p, or will do so after its work.     *)
Sees(f, p) == f \in Working \/ (fiber[f].pc \in {"scan", "notify"} /\ fiber[f].prio <= p)

Closed(U) == \A u \in U : deps[u] \subseteq U

(* A continuation that found no room.                                      *)
Lost(j) == deps[j] # {} /\ remaining[j] = 0 /\ ~Started(j)

-----------------------------------------------------------------------------
(* The invariant *)

(* The continuations of a job are the jobs that depend on it; the client   *)
(* appends to the former first.                                            *)
Graph ==
  /\ \A j \in Jobs : \A d \in deps[j] : <<d, j>> \in Edges
  /\ \A d, j \in Jobs : j \in ElementsOf(conts[d]) <=>
       d \in deps[j] \/ (ClientAt("addCount") /\ client.dep = d /\ client.job = j)
  /\ \A d \in Jobs : Distinct(conts[d])

(* Whatever has started goes back to a job the client launched, and what   *)
(* the client is still wiring up has not started.                          *)
Origin ==
  /\ \A j \in submitted : deps[j] = {}
  /\ \A j \in Launched : Started(j)
  /\ \A j \in Jobs : client.pc \in {"count", "enqueue"} /\ client.job = j =>
       j \in submitted /\ ~Started(j)
  /\ ClientAt("publish") => client.job \in submitted
  /\ \A j \in Jobs : Started(j) =>
       \A U \in SUBSET Jobs : j \in U /\ Closed(U) => U \cap Launched # {}
  /\ \A j \in Jobs : client.pc \in {"adding", "addCount"} /\ j \in {client.dep, client.job} =>
       Untouched(j)

(* A job is in one place at most, and runs once.                           *)
OnePlace ==
  /\ \A p \in Prios : Distinct(queue[p]) /\ \A j \in ElementsOf(queue[p]) : Priority[j] = p
  /\ \A j \in Jobs : InQueue(j) => runs[j] = 0 /\ ~Held(j) /\ ~Carried(j)
  /\ \A j \in Jobs : Carried(j) => runs[j] = 0 /\ ~Held(j)
  /\ \A j \in Jobs, f, g \in Fibers :
       (Holds(f, j) /\ Holds(g, j)) \/ (Carries(f, j) /\ Carries(g, j)) => f = g
  /\ \A f \in Fibers, j \in Jobs : Holds(f, j) =>
       runs[j] = IF Fresh(f) THEN 0 ELSE 1
  /\ \A j \in Jobs : runs[j] <= 1
  /\ \A j \in Jobs : runs[j] > 0 => done[j] \/ \E f \in Fibers : At(f, "signal") /\ Holds(f, j)

(* m_remainingDependencies counts the dependencies that hold a job back,   *)
(* and a job starts when there are none.                                   *)
Counting ==
  /\ \A j \in Jobs : remaining[j] = Cardinality(Waiting(j))
  /\ \A j \in Jobs : Started(j) => remaining[j] = 0
  /\ \A f \in Fibers : fiber[f].pc \in {"trigger", "count", "enqueue", "publish"} =>
       /\ Distinct(fiber[f].todo)
       /\ ElementsOf(fiber[f].todo) \subseteq ElementsOf(conts[fiber[f].task])
  /\ \A f \in Fibers, j \in Jobs : Carries(f, j) => fiber[f].task \in deps[j]

(* A lost continuation was refused, and stays counted; one that is queued  *)
(* will be seen by a fiber, unless the head of its queue was submitted.    *)
Kept ==
  /\ (\E j \in Jobs : Lost(j)) => Slack > 0
  /\ \A j \in Jobs : Lost(j) => j \in refused
  /\ \A p \in Prios : \A j \in ElementsOf(queue[p]) : deps[j] # {} =>
       (\E f \in Fibers : Sees(f, p)) \/ Head(queue[p]) \in submitted

Accounting == Graph /\ Origin /\ OnePlace /\ Counting /\ Kept

(* waitUntilAllTasksDone has returned: nothing is left, and it stays so    *)
(* while the client resets job after job.                                  *)
Settled ==
  /\ inflight = 0 /\ Working = {} /\ \A p \in Prios : queue[p] = <<>>
  /\ \A j \in Jobs :
       /\ runs[j] <= 1
       /\ runs[j] > 0 => done[j]
       /\ Due(j) => runs[j] > 0
       /\ deps[j] = {} => remaining[j] = 0

SchedInv ==
  /\ CoverInv
  /\ client.pc \in {"resetSignal", "resetFresh"} => client.dep = NoJob
  /\ client.pc \in {"waitedAll", "resetSignal", "resetFresh"} => Settled
  /\ client.pc \in {"joining", "joined"} => Accounting \/ Settled
  /\ client.pc \notin {"waitedAll", "resetSignal", "resetFresh", "joining", "joined"} =>
       Accounting

-----------------------------------------------------------------------------
(* Steps of one fiber *)

(* The registers of a fiber, and a fiber that gets new ones.               *)
Regs == [pc : FiberPCs, prio : Prios, task : Jobs \cup {NoJob},
         todo : Seq(Jobs), next : Jobs \cup {NoJob}]
Reg(loc, prio, task, todo, next) ==
  [pc |-> loc, prio |-> prio, task |-> task, todo |-> todo, next |-> next]
Becomes(f, r) ==
  /\ fiber'[f] = r
  /\ \A g \in Fibers \ {f} : fiber'[g] = fiber[g]
  /\ r \in Regs => fiber' \in [Fibers -> Regs]

(* What each step of fiberLoop leaves in the registers of its fiber.       *)
LEMMA FiberMoves ==
  ASSUME fiber \in [Fibers -> Regs], NEW f \in Fibers
  PROVE  LET r == fiber[f] IN
         /\ ScanHit(f) => Becomes(f, Reg("take", r.prio, Head(queue[r.prio]), r.todo, r.next))
         /\ ReleaseCell(f) => Becomes(f, Reg("body", r.prio, r.task, r.todo, r.next))
         /\ ScanMiss(f) =>
              Becomes(f, Reg(IF r.prio = 2 THEN "missed" ELSE "scan",
                             IF r.prio = 2 THEN 0 ELSE r.prio + 1, r.task, r.todo, r.next))
         /\ Exit(f) => Becomes(f, Reg("exited", r.prio, r.task, r.todo, r.next))
         /\ Rescan(f) => Becomes(f, Reg("scan", r.prio, r.task, r.todo, r.next))
         /\ RunBody(f) => Becomes(f, Reg("signal", r.prio, r.task, r.todo, r.next))
         /\ SignalDone(f) => Becomes(f, Reg("copy", r.prio, r.task, r.todo, r.next))
         /\ LockContinuations(f) => Becomes(f, Reg("copying", r.prio, r.task, r.todo, r.next))
         /\ CopyContinuations(f) =>
              Becomes(f, Reg("trigger", r.prio, r.task, conts[r.task], r.next))
         /\ TriggerNext(f) =>
              IF Ready(remaining[Head(r.todo)])
              THEN Becomes(f, Reg("count", r.prio, r.task, Tail(r.todo), Head(r.todo)))
              ELSE Becomes(f, Reg("trigger", r.prio, r.task, Tail(r.todo), NoJob))
         /\ TriggerEnd(f) => Becomes(f, Reg("retire", r.prio, r.task, r.todo, r.next))
         /\ CountContinuation(f) => Becomes(f, Reg("enqueue", r.prio, r.task, r.todo, r.next))
         /\ EnqueueContinuation(f) => Becomes(f, Reg("publish", r.prio, r.task, r.todo, r.next))
         /\ PublishContinuation(f) => Becomes(f, Reg("trigger", r.prio, r.task, r.todo, NoJob))
         /\ ContinuationRefused(f) => Becomes(f, Reg("trigger", r.prio, r.task, r.todo, NoJob))
         /\ Retire(f) =>
              Becomes(f, Reg(IF inflight = 1 THEN "notify" ELSE "scan", 0, NoJob, <<>>, NoJob))
         /\ Notify(f) => Becomes(f, Reg("scan", r.prio, r.task, r.todo, r.next))
<1> USE DEF Becomes, Reg, Regs, At, FiberGoto
<1>1. ScanHit(f) => Becomes(f, Reg("take", fiber[f].prio, Head(queue[fiber[f].prio]),
                                   fiber[f].todo, fiber[f].next))
  <2> DEFINE r == Reg("take", fiber[f].prio, Head(queue[fiber[f].prio]),
                      fiber[f].todo, fiber[f].next)
  <2> SUFFICES ASSUME ScanHit(f) PROVE Becomes(f, r)
    OBVIOUS
  <2>1. fiber'[f] = r /\ \A g \in Fibers \ {f} : fiber'[g] = fiber[g]
    BY DEF ScanHit
  <2>2. DOMAIN fiber' = Fibers /\ fiber' = [g \in DOMAIN fiber' |-> fiber'[g]]
    BY DEF ScanHit
  <2> HIDE DEF r, Regs
  <2>3. r \in Regs => fiber' \in [Fibers -> Regs]
    BY <2>1, <2>2
  <2> QED BY <2>1, <2>3
<1>2. ScanMiss(f) =>
        Becomes(f, Reg(IF fiber[f].prio = 2 THEN "missed" ELSE "scan",
                       IF fiber[f].prio = 2 THEN 0 ELSE fiber[f].prio + 1, fiber[f].task,
                       fiber[f].todo, fiber[f].next))
  <2> DEFINE r == Reg(IF fiber[f].prio = 2 THEN "missed" ELSE "scan",
                      IF fiber[f].prio = 2 THEN 0 ELSE fiber[f].prio + 1, fiber[f].task,
                      fiber[f].todo, fiber[f].next)
  <2> SUFFICES ASSUME ScanMiss(f) PROVE Becomes(f, r)
    OBVIOUS
  <2>1. fiber'[f] = r /\ \A g \in Fibers \ {f} : fiber'[g] = fiber[g]
    <3>1. CASE fiber[f].prio = 2
      BY <3>1 DEF ScanMiss, LastMiss
    <3>2. CASE fiber[f].prio # 2
      <4>1. fiber' = [fiber EXCEPT ![f].pc = "scan", ![f].prio = fiber[f].prio + 1]
        BY <3>2 DEF ScanMiss, LastMiss
      <4>2. r = Reg("scan", fiber[f].prio + 1, fiber[f].task, fiber[f].todo, fiber[f].next)
        BY <3>2
      <4> HIDE DEF r
      <4> QED BY <4>1, <4>2
    <3> QED BY <3>1, <3>2
  <2>2. DOMAIN fiber' = Fibers /\ fiber' = [g \in DOMAIN fiber' |-> fiber'[g]]
    BY DEF ScanMiss
  <2> HIDE DEF r, Regs
  <2>3. r \in Regs => fiber' \in [Fibers -> Regs]
    BY <2>1, <2>2
  <2> QED BY <2>1, <2>3
<1>3. ASSUME NEW loc, fiber' = [fiber EXCEPT ![f].pc = loc]
      PROVE  Becomes(f, Reg(loc, fiber[f].prio, fiber[f].task, fiber[f].todo, fiber[f].next))
  BY <1>3
<1>4. CopyContinuations(f) => Becomes(f, Reg("trigger", fiber[f].prio, fiber[f].task,
                                             conts[fiber[f].task], fiber[f].next))
  BY DEF CopyContinuations
<1>5. TriggerNext(f) =>
        IF Ready(remaining[Head(fiber[f].todo)])
        THEN Becomes(f, Reg("count", fiber[f].prio, fiber[f].task, Tail(fiber[f].todo),
                            Head(fiber[f].todo)))
        ELSE Becomes(f, Reg("trigger", fiber[f].prio, fiber[f].task, Tail(fiber[f].todo), NoJob))
  <2> DEFINE again == Ready(remaining[Head(fiber[f].todo)])
             r == Reg(IF again THEN "count" ELSE "trigger", fiber[f].prio, fiber[f].task,
                      Tail(fiber[f].todo), IF again THEN Head(fiber[f].todo) ELSE NoJob)
  <2> SUFFICES ASSUME TriggerNext(f) PROVE Becomes(f, r)
    OBVIOUS
  <2>1. fiber'[f] = r /\ \A g \in Fibers \ {f} : fiber'[g] = fiber[g]
    BY DEF TriggerNext
  <2>2. DOMAIN fiber' = Fibers /\ fiber' = [g \in DOMAIN fiber' |-> fiber'[g]]
    BY DEF TriggerNext
  <2> HIDE DEF r, Regs
  <2>3. r \in Regs => fiber' \in [Fibers -> Regs]
    BY <2>1, <2>2
  <2> QED BY <2>1, <2>3
<1>6. PublishContinuation(f) \/ ContinuationRefused(f) =>
        Becomes(f, Reg("trigger", fiber[f].prio, fiber[f].task, fiber[f].todo, NoJob))
  BY DEF PublishContinuation, ContinuationRefused
<1>7. Retire(f) => Becomes(f, Reg(IF inflight = 1 THEN "notify" ELSE "scan", 0, NoJob, <<>>, NoJob))
  BY DEF Retire, Scanning
<1> HIDE DEF Becomes, Reg, Regs
<1> QED
  BY <1>1, <1>2, <1>3, <1>4, <1>5, <1>6, <1>7
  DEF ReleaseCell, Exit, Rescan, RunBody, SignalDone, LockContinuations, TriggerEnd,
      CountContinuation, EnqueueContinuation, Notify

-----------------------------------------------------------------------------
(* Types and locations *)

(* The locations at which a fiber has a job.                               *)
WorkPCs == {"take", "body", "signal", "copy", "copying", "trigger", "count", "enqueue",
            "publish", "retire"}

(* TypeOK and Shape, sorted by variable.                                   *)
FibersOK ==
  /\ fiber \in [Fibers -> Regs]
  /\ \A g \in Fibers : /\ fiber[g].pc \in WorkPCs => fiber[g].task \in Jobs
                       /\ fiber[g].pc \in {"count", "enqueue", "publish"} => fiber[g].next \in Jobs
ClientOK ==
  /\ client \in [pc : ClientPCs, job : Jobs \cup {NoJob}, dep : Jobs \cup {NoJob}]
  /\ client.pc \in {"adding", "addCount", "count", "enqueue", "publish", "waitJob",
                    "resetSignal", "resetFresh"} => client.job \in Jobs
  /\ client.pc \in {"adding", "addCount"} =>
       <<client.dep, client.job>> \in Edges /\ client.dep \notin deps[client.job]
DataOK ==
  /\ queue \in [Prios -> Seq(Jobs)] /\ vacant \in [Prios -> Seq(Jobs \cup {NoJob})]
  /\ inflight \in Int /\ shutdown \in BOOLEAN /\ refused \subseteq Jobs
  /\ conts \in [Jobs -> Seq(Jobs)] /\ remaining \in [Jobs -> Int] /\ done \in [Jobs -> BOOLEAN]
  /\ deps \in [Jobs -> SUBSET Jobs] /\ submitted \subseteq Jobs
  /\ runs \in [Jobs -> Nat] /\ rounds \in Nat
JoinedOK == ClientAt("joined") => \A f \in Fibers : At(f, "exited")

(* TypeOK and Shape are these four.                                        *)
LEMMA Parts == TypeOK /\ Shape <=> FibersOK /\ ClientOK /\ DataOK /\ JoinedOK
BY DEF TypeOK, Shape, FibersOK, ClientOK, DataOK, JoinedOK, Regs, Working, WorkPCs

(* What the types say of the registers of one fiber.                       *)
LEMMA FiberRegs ==
  ASSUME FibersOK, NEW g \in Fibers
  PROVE  /\ fiber[g].pc \in FiberPCs /\ fiber[g].prio \in Prios
         /\ fiber[g].task \in Jobs \cup {NoJob} /\ fiber[g].todo \in Seq(Jobs)
         /\ fiber[g].next \in Jobs \cup {NoJob}
         /\ fiber[g].pc \in WorkPCs => fiber[g].task \in Jobs
         /\ fiber[g].pc \in {"count", "enqueue", "publish"} => fiber[g].next \in Jobs
<1>1. fiber[g] \in Regs
  BY DEF FibersOK
<1> QED BY <1>1 DEF FibersOK, Regs

(* Every step of a fiber keeps the types and locations ...                 *)
LEMMA FiberTypes ==
  ASSUME TypeOK, Shape, NEW f \in Fibers, FiberStep(f)
  PROVE  TypeOK' /\ Shape'
<1>1. /\ \A j \in Jobs : Priority[j] \in Prios
      /\ FibersOK /\ ClientOK /\ DataOK /\ JoinedOK
  BY ConstantsAssumption, Parts DEF ConstantsAssumption, Prios
<1>2. /\ fiber \in [Fibers -> Regs]
      /\ fiber[f].pc \in FiberPCs /\ fiber[f].prio \in Prios
      /\ fiber[f].task \in Jobs \cup {NoJob} /\ fiber[f].todo \in Seq(Jobs)
      /\ fiber[f].next \in Jobs \cup {NoJob}
      /\ fiber[f].pc \in WorkPCs => fiber[f].task \in Jobs
      /\ fiber[f].pc \in {"count", "enqueue", "publish"} => fiber[f].next \in Jobs
  BY <1>1, FiberRegs DEF FibersOK
<1>3. /\ queue \in [Prios -> Seq(Jobs)] /\ vacant \in [Prios -> Seq(Jobs \cup {NoJob})]
      /\ conts \in [Jobs -> Seq(Jobs)] /\ remaining \in [Jobs -> Int]
      /\ inflight \in Int
  BY <1>1 DEF DataOK
<1> USE DEF queues, ClaimPush, ClaimPop
\* what a step takes from a list or adds to one
<1>4. TriggerNext(f) => Head(fiber[f].todo) \in Jobs /\ Tail(fiber[f].todo) \in Seq(Jobs)
  <2>1. TriggerNext(f) => fiber[f].todo # <<>>
    BY DEF TriggerNext
  <2> QED BY <1>2, <2>1, HeadTailProperties
<1>5. ScanHit(f) => /\ Head(queue[fiber[f].prio]) \in Jobs
                    /\ Tail(queue[fiber[f].prio]) \in Seq(Jobs)
                    /\ Append(vacant[fiber[f].prio], Head(queue[fiber[f].prio]))
                         \in Seq(Jobs \cup {NoJob})
  <2>1. ScanHit(f) => queue[fiber[f].prio] # <<>>
    BY DEF ScanHit, HasEntry
  <2>2. queue[fiber[f].prio] \in Seq(Jobs)
    BY <1>2, <1>3
  <2>3. vacant[fiber[f].prio] \in Seq(Jobs \cup {NoJob})
    BY <1>2, <1>3
  <2>4. ScanHit(f) => Head(queue[fiber[f].prio]) \in Jobs \cup {NoJob}
    BY <2>1, <2>2, HeadTailProperties
  <2> QED BY <2>1, <2>2, <2>3, <2>4, HeadTailProperties, AppendProperties
<1>6. EnqueueContinuation(f) => /\ fiber[f].next \in Jobs
                                /\ Append(queue[Priority[fiber[f].next]], fiber[f].next) \in Seq(Jobs)
                                /\ Tail(vacant[Priority[fiber[f].next]]) \in Seq(Jobs \cup {NoJob})
  <2>1. EnqueueContinuation(f) => fiber[f].next \in Jobs
    BY <1>2 DEF EnqueueContinuation, At
  <2>2. \A j \in Jobs : Append(queue[Priority[j]], j) \in Seq(Jobs)
    BY <1>1, <1>3, AppendProperties
  <2>3. \A j \in Jobs : vacant[Priority[j]] # <<>> =>
          Tail(vacant[Priority[j]]) \in Seq(Jobs \cup {NoJob})
    BY <1>1, <1>3, HeadTailProperties
  <2> QED BY <2>1, <2>2, <2>3 DEF EnqueueContinuation, HasRoom
<1>7. FibersOK'
  <2>1. ASSUME NEW loc \in FiberPCs, NEW prio \in Prios, NEW task \in Jobs \cup {NoJob},
               NEW todo \in Seq(Jobs), NEW next \in Jobs \cup {NoJob}
        PROVE  Reg(loc, prio, task, todo, next) \in Regs
    BY DEF Reg, Regs
  <2>2. ASSUME NEW r \in Regs, Becomes(f, r), r.pc \in WorkPCs => r.task \in Jobs,
               r.pc \in {"count", "enqueue", "publish"} => r.next \in Jobs
        PROVE  FibersOK'
    BY <1>1, <2>2 DEF Becomes, FibersOK
  <2> DEFINE Moves(loc) == Reg(loc, fiber[f].prio, fiber[f].task, fiber[f].todo, fiber[f].next)
  <2>3. ASSUME NEW loc \in FiberPCs, Becomes(f, Moves(loc)), loc # "count",
               loc \in WorkPCs => fiber[f].pc \in WorkPCs,
               loc \in {"enqueue", "publish"} => fiber[f].pc \in {"count", "enqueue"}
        PROVE  FibersOK'
    <3>1. Moves(loc) \in Regs
      BY <1>2, <2>1
    <3>2. Moves(loc).pc = loc /\ Moves(loc).task = fiber[f].task /\ Moves(loc).next = fiber[f].next
      BY DEF Reg
    <3> QED BY <1>2, <2>2, <2>3, <3>1, <3>2
  <2> HIDE DEF Moves
  <2>4. ASSUME NEW loc \in FiberPCs \ {"count", "enqueue", "publish"}, NEW prio \in Prios,
               NEW task \in Jobs \cup {NoJob}, loc \in WorkPCs => task \in Jobs,
               NEW todo \in Seq(Jobs), NEW next \in Jobs \cup {NoJob},
               Becomes(f, Reg(loc, prio, task, todo, next))
        PROVE  FibersOK'
    <3>1. /\ Reg(loc, prio, task, todo, next) \in Regs
          /\ Reg(loc, prio, task, todo, next).pc = loc /\ Reg(loc, prio, task, todo, next).task = task
      BY <2>1 DEF Reg
    <3> QED BY <2>2, <2>4, <3>1
  <2> USE DEF FiberPCs, WorkPCs, At
  <2>5. CASE ScanHit(f)
    <3>1. Becomes(f, Reg("take", fiber[f].prio, Head(queue[fiber[f].prio]), fiber[f].todo,
                         fiber[f].next))
      BY <1>2, <2>5, FiberMoves
    <3> QED BY <1>2, <1>5, <2>4, <2>5, <3>1
  <2>6. CASE ScanMiss(f)
    <3> DEFINE loc == IF fiber[f].prio = 2 THEN "missed" ELSE "scan"
               prio == IF fiber[f].prio = 2 THEN 0 ELSE fiber[f].prio + 1
    <3>1. Becomes(f, Reg(loc, prio, fiber[f].task, fiber[f].todo, fiber[f].next))
      BY <1>2, <2>6, FiberMoves
    <3>2. prio \in Prios /\ loc \in {"missed", "scan"}
      BY <1>2 DEF Prios
    <3> HIDE DEF prio, loc
    <3> QED BY <1>2, <2>4, <3>1, <3>2
  <2>7. CASE Exit(f) \/ Rescan(f)
    <3>1. Becomes(f, Moves("exited")) \/ Becomes(f, Moves("scan"))
      BY <1>2, <2>7, FiberMoves DEF Moves
    <3> QED BY <2>3, <3>1
  <2>18. CASE ReleaseCell(f)
    <3>1. Becomes(f, Moves("body")) /\ fiber[f].pc = "take"
      BY <1>2, <2>18, FiberMoves DEF Moves, ReleaseCell
    <3> QED BY <2>3, <3>1
  <2>8. CASE RunBody(f)
    <3>1. Becomes(f, Moves("signal")) /\ fiber[f].pc = "body"
      BY <1>2, <2>8, FiberMoves DEF Moves, RunBody
    <3> QED BY <2>3, <3>1
  <2>9. CASE SignalDone(f)
    <3>1. Becomes(f, Moves("copy")) /\ fiber[f].pc = "signal"
      BY <1>2, <2>9, FiberMoves DEF Moves, SignalDone
    <3> QED BY <2>3, <3>1
  <2>10. CASE LockContinuations(f)
    <3>1. Becomes(f, Moves("copying")) /\ fiber[f].pc = "copy"
      BY <1>2, <2>10, FiberMoves DEF Moves, LockContinuations
    <3> QED BY <2>3, <3>1
  <2>11. CASE CopyContinuations(f)
    <3>1. Becomes(f, Reg("trigger", fiber[f].prio, fiber[f].task, conts[fiber[f].task],
                         fiber[f].next))
      BY <1>2, <2>11, FiberMoves
    <3>2. fiber[f].task \in Jobs
      BY <1>2, <2>11 DEF CopyContinuations
    <3> QED BY <1>2, <1>3, <2>4, <3>1, <3>2
  <2>12. CASE TriggerNext(f)
    <3>1. fiber[f].task \in Jobs
      BY <1>2, <2>12 DEF TriggerNext
    <3>2. CASE Becomes(f, Reg("count", fiber[f].prio, fiber[f].task, Tail(fiber[f].todo),
                              Head(fiber[f].todo)))
      <4> DEFINE r == Reg("count", fiber[f].prio, fiber[f].task, Tail(fiber[f].todo),
                          Head(fiber[f].todo))
      <4>1. r \in Regs
        BY <1>2, <1>4, <2>1, <2>12
      <4>2. r.task \in Jobs /\ r.next \in Jobs
        BY <1>4, <2>12, <3>1 DEF Reg
      <4> QED BY <2>2, <3>2, <4>1, <4>2
    <3>3. CASE Becomes(f, Reg("trigger", fiber[f].prio, fiber[f].task, Tail(fiber[f].todo), NoJob))
      BY <1>2, <1>4, <2>4, <2>12, <3>1, <3>3
    <3> QED BY <1>2, <2>12, <3>2, <3>3, FiberMoves
  <2>13. CASE TriggerEnd(f)
    <3>1. Becomes(f, Moves("retire")) /\ fiber[f].pc = "trigger"
      BY <1>2, <2>13, FiberMoves DEF Moves, TriggerEnd
    <3> QED BY <2>3, <3>1
  <2>14. CASE CountContinuation(f)
    <3>1. Becomes(f, Moves("enqueue")) /\ fiber[f].pc = "count"
      BY <1>2, <2>14, FiberMoves DEF Moves, CountContinuation
    <3> QED BY <2>3, <3>1
  <2>15. CASE EnqueueContinuation(f)
    <3>1. Becomes(f, Moves("publish")) /\ fiber[f].pc = "enqueue"
      BY <1>2, <2>15, FiberMoves DEF Moves, EnqueueContinuation
    <3> QED BY <2>3, <3>1
  <2>19. CASE PublishContinuation(f) \/ ContinuationRefused(f)
    <3>1. Becomes(f, Reg("trigger", fiber[f].prio, fiber[f].task, fiber[f].todo, NoJob))
      BY <1>2, <2>19, FiberMoves
    <3>2. fiber[f].task \in Jobs
      BY <1>2, <2>19 DEF PublishContinuation, ContinuationRefused
    <3> QED BY <1>2, <2>4, <3>1, <3>2
  <2>16. CASE Retire(f)
    <3>1. \/ Becomes(f, Reg("notify", 0, NoJob, <<>>, NoJob))
          \/ Becomes(f, Reg("scan", 0, NoJob, <<>>, NoJob))
      BY <1>2, <2>16, FiberMoves
    <3>2. 0 \in Prios /\ <<>> \in Seq(Jobs)
      BY EmptySeq DEF Prios
    <3> QED BY <2>4, <3>1, <3>2
  <2>17. CASE Notify(f)
    BY <1>2, <2>3, <2>17, FiberMoves DEF Moves
  <2> QED
    BY <2>5, <2>6, <2>7, <2>8, <2>9, <2>10, <2>11, <2>12, <2>13, <2>14, <2>15, <2>16, <2>17,
       <2>18, <2>19
    DEF FiberStep
<1>8. DataOK'
  <2> USE DEF DataOK, jobVars, history
  <2>1. CASE ScanHit(f)
    BY <1>1, <1>5, <2>1 DEF ScanHit
  <2>2. CASE EnqueueContinuation(f)
    BY <1>1, <1>6, <2>2 DEF EnqueueContinuation
  <2>3. CASE TriggerNext(f)
    <3>1. remaining' \in [Jobs -> Int]
      <4>1. Head(fiber[f].todo) \in Jobs /\ remaining[Head(fiber[f].todo)] - 1 \in Int
        BY <1>3, <1>4, <2>3
      <4> QED BY <1>3, <2>3, <4>1 DEF TriggerNext
    <3> QED BY <1>1, <2>3, <3>1 DEF TriggerNext
  <2>4. CASE RunBody(f)
    <3>1. runs \in [Jobs -> Nat] /\ fiber[f].task \in Jobs
      BY <1>1, <1>2, <2>4 DEF RunBody, At, WorkPCs
    <3>2. runs' \in [Jobs -> Nat]
      BY <2>4, <3>1 DEF RunBody
    <3> QED BY <1>1, <2>4, <3>2 DEF RunBody
  <2>5. CASE SignalDone(f)
    BY <1>1, <2>5 DEF SignalDone
  <2>6. CASE CountContinuation(f) \/ Retire(f)
    BY <1>1, <2>6 DEF CountContinuation, Counted, Retire, Retired
  <2>7. CASE ScanMiss(f) \/ Exit(f) \/ Rescan(f) \/ LockContinuations(f)
             \/ CopyContinuations(f) \/ TriggerEnd(f) \/ PublishContinuation(f) \/ Notify(f)
    BY <1>1, <2>7
    DEF ScanMiss, Exit, Rescan, LockContinuations, CopyContinuations, TriggerEnd,
        PublishContinuation, Notify
  <2>8. CASE ReleaseCell(f)
    <3> DEFINE p == fiber[f].prio
    <3>1. Released(vacant[p], fiber[f].task) \in Seq(Jobs \cup {NoJob})
      <4>1. vacant[p] \in Seq(Jobs \cup {NoJob})
        BY <1>2, <1>3
      <4> HIDE DEF p
      <4>2. Len(vacant[p]) \in Nat /\ DOMAIN vacant[p] = 1 .. Len(vacant[p])
            /\ \A i \in 1 .. Len(vacant[p]) : vacant[p][i] \in Jobs \cup {NoJob}
        BY <4>1, LenProperties, ElementOfSeq
      <4> DEFINE n == Len(vacant[p])
                 s == [i \in 1 .. n |-> IF vacant[p][i] = fiber[f].task THEN NoJob
                                       ELSE vacant[p][i]]
      <4>3. s \in [1 .. n -> Jobs \cup {NoJob}] /\ n \in Nat
        BY <4>2
      <4>4. Released(vacant[p], fiber[f].task) = s
        BY <4>2 DEF Released
      <4> HIDE DEF s, n
      <4> QED BY <4>3, <4>4, IsASeq
    <3>2. vacant' \in [Prios -> Seq(Jobs \cup {NoJob})]
      BY <1>2, <1>3, <2>8, <3>1 DEF ReleaseCell
    <3> QED BY <1>1, <2>8, <3>2 DEF ReleaseCell
  <2>9. CASE ContinuationRefused(f)
    <3>1. fiber[f].next \in Jobs
      BY <1>2, <2>9 DEF ContinuationRefused, At
    <3> QED BY <1>1, <2>9, <3>1 DEF ContinuationRefused
  <2> QED BY <2>1, <2>2, <2>3, <2>4, <2>5, <2>6, <2>7, <2>8, <2>9 DEF FiberStep
<1>9. /\ client' = client \/ (client' = [client EXCEPT !.pc = "waitAll"] /\ client.pc = "asleep")
      /\ deps' = deps /\ fiber[f].pc # "exited"
  <2>1. /\ client' = client \/ client' = [client EXCEPT !.pc = IF @ = "asleep" THEN "waitAll" ELSE @]
        /\ deps' = deps /\ fiber[f].pc # "exited"
    BY DEF FiberStep, ScanHit, ReleaseCell, ScanMiss, Exit, MayExit, Rescan, RunBody, SignalDone,
           LockContinuations, CopyContinuations, TriggerNext, TriggerEnd, CountContinuation,
           EnqueueContinuation, PublishContinuation, ContinuationRefused, Retire, Notify,
           history, jobVars, At
  <2>2. client = [client EXCEPT !.pc = client.pc]
    BY <1>1 DEF ClientOK
  <2> QED BY <2>1, <2>2
<1>10. ClientOK'
  BY <1>1, <1>9 DEF ClientOK, ClientPCs
<1>11. JoinedOK'
  BY <1>1, <1>9 DEF JoinedOK, ClientOK, ClientAt, At
<1>12. (TypeOK /\ Shape <=> FibersOK /\ ClientOK /\ DataOK /\ JoinedOK)'
  BY Parts, PTL
<1> QED BY <1>7, <1>8, <1>10, <1>11, <1>12

(* ... and so does every step of the client.                               *)
LEMMA ClientTypes ==
  ASSUME TypeOK, Shape, ClientStep
  PROVE  TypeOK' /\ Shape'
<1> USE DEF ClientAt, ClientGoto, queues, jobVars, history
<1>1. /\ \A j \in Jobs : Priority[j] \in Prios
      /\ NoJob \notin Jobs /\ Edges \subseteq Jobs \X Jobs
      /\ FibersOK /\ ClientOK /\ DataOK /\ JoinedOK
  BY ConstantsAssumption, Parts DEF ConstantsAssumption, Prios
<1>2. /\ client \in [pc : ClientPCs, job : Jobs \cup {NoJob}, dep : Jobs \cup {NoJob}]
      /\ client.pc \in {"adding", "addCount", "count", "enqueue", "publish", "waitJob",
                        "resetSignal", "resetFresh"} => client.job \in Jobs
      /\ client.pc \in {"adding", "addCount"} =>
           /\ client.dep \in Jobs
           /\ <<client.dep, client.job>> \in Edges /\ client.dep \notin deps[client.job]
  BY <1>1 DEF ClientOK
<1>3. /\ queue \in [Prios -> Seq(Jobs)] /\ vacant \in [Prios -> Seq(Jobs \cup {NoJob})]
      /\ conts \in [Jobs -> Seq(Jobs)] /\ inflight \in Int
      /\ remaining \in [Jobs -> Int] /\ done \in [Jobs -> BOOLEAN]
      /\ deps \in [Jobs -> SUBSET Jobs] /\ submitted \subseteq Jobs
      /\ runs \in [Jobs -> Nat] /\ rounds \in Nat
  BY <1>1 DEF DataOK
<1>4. (fiber' = fiber /\ client.pc # "joined") \/ UNCHANGED vars
  BY DEF ClientStep, AddBegin, AddContinuation, AddCount, Submit, CountSubmission,
         EnqueueSubmission, PublishSubmission, SubmissionRefused, WaitAllBegin, WaitAllTest,
         WaitAllSleep, WaitJobBegin, WaitJobEnd, WaitJobGoOn, ResetClear, ResetSignal,
         ResetFresh, StartOver, Shutdown, Join, Terminated
<1>5. CASE UNCHANGED vars
  BY <1>5 DEF vars, TypeOK, Shape, Working, At
<1>6. CASE fiber' = fiber /\ client.pc # "joined"
  <2>1. FibersOK'
    BY <1>1, <1>6 DEF FibersOK
  <2>2. DataOK' /\ ClientOK' /\ (client'.pc # "joined" \/ Join)
    <3> USE DEF DataOK, ClientOK, ClientPCs
    <3>1. ASSUME NEW d \in Jobs, NEW j \in Jobs, AddBegin(d, j)
          PROVE  DataOK' /\ ClientOK' /\ client'.pc # "joined"
      BY <1>1, <3>1 DEF AddBegin
    <3>2. CASE AddContinuation
      <4>1. Append(conts[client.dep], client.job) \in Seq(Jobs)
        BY <1>2, <1>3, <3>2, AppendProperties DEF AddContinuation
      <4>2. conts' \in [Jobs -> Seq(Jobs)]
        BY <1>3, <3>2, <4>1 DEF AddContinuation
      <4> QED BY <1>1, <1>2, <3>2, <4>2 DEF AddContinuation
    <3>3. CASE AddCount
      <4>1. client.job \in Jobs /\ client.dep \in Jobs
        BY <1>2, <3>3 DEF AddCount
      <4>2. remaining' \in [Jobs -> Int] /\ deps' \in [Jobs -> SUBSET Jobs]
        BY <1>3, <3>3, <4>1 DEF AddCount
      <4> QED BY <1>1, <1>2, <3>3, <4>2 DEF AddCount
    <3>4. ASSUME NEW j \in Jobs, Submit(j) PROVE DataOK' /\ ClientOK' /\ client'.pc # "joined"
      BY <1>1, <3>4 DEF Submit
    <3>5. CASE CountSubmission
      <4>1. inflight' \in Int
        BY <1>3, <3>5 DEF CountSubmission, Counted
      <4> QED BY <1>1, <1>2, <3>5, <4>1 DEF CountSubmission
    <3>6. CASE EnqueueSubmission
      <4>1. Append(queue[Priority[client.job]], client.job) \in Seq(Jobs)
        BY <1>1, <1>2, <1>3, <3>6, AppendProperties DEF EnqueueSubmission
      <4>2. Tail(vacant[Priority[client.job]]) \in Seq(Jobs \cup {NoJob})
        BY <1>1, <1>2, <1>3, <3>6, HeadTailProperties DEF EnqueueSubmission, ClaimPush, HasRoom
      <4>3. /\ queue' \in [Prios -> Seq(Jobs)]
            /\ vacant' \in [Prios -> Seq(Jobs \cup {NoJob})]
        BY <1>3, <3>6, <4>1, <4>2 DEF EnqueueSubmission, ClaimPush
      <4> QED BY <1>1, <1>2, <3>6, <4>3 DEF EnqueueSubmission
    <3>7. CASE SubmissionRefused
      BY <1>1, <1>2, <3>7 DEF SubmissionRefused
    <3>8. CASE WaitAllBegin \/ WaitAllTest \/ WaitAllSleep
      BY <1>1, <1>2, <3>8 DEF WaitAllBegin, WaitAllTest, WaitAllSleep
    <3>16. CASE WaitJobEnd \/ WaitJobGoOn
      BY <1>1, <1>2, <3>16 DEF WaitJobEnd, WaitJobGoOn
    <3>15. CASE PublishSubmission
      BY <1>1, <1>2, <3>15 DEF PublishSubmission
    <3>9. ASSUME NEW j \in Jobs, WaitJobBegin(j)
          PROVE  DataOK' /\ ClientOK' /\ client'.pc # "joined"
      BY <1>1, <3>9 DEF WaitJobBegin
    <3>10. ASSUME NEW j \in Jobs, ResetClear(j)
           PROVE  DataOK' /\ ClientOK' /\ client'.pc # "joined"
      <4>1. <<>> \in Seq(Jobs)
        BY EmptySeq
      <4>2. conts' \in [Jobs -> Seq(Jobs)]
        BY <1>3, <3>10, <4>1 DEF ResetClear
      <4> QED BY <1>1, <3>10, <4>2 DEF ResetClear
    <3>11. CASE ResetSignal
      BY <1>1, <1>2, <3>11 DEF ResetSignal
    <3>12. CASE ResetFresh
      <4>1. remaining' \in [Jobs -> Int] /\ runs' \in [Jobs -> Nat]
        <5>1. \A S : \A g \in [Jobs -> S], x \in S : [g EXCEPT ![client.job] = x] \in [Jobs -> S]
          OBVIOUS
        <5>2. /\ remaining' = [remaining EXCEPT ![client.job] = 0]
              /\ runs' = [runs EXCEPT ![client.job] = 0]
          BY <3>12 DEF ResetFresh
        <5>3. 0 \in Int /\ 0 \in Nat
          OBVIOUS
        <5> QED BY <1>3, <5>1, <5>2, <5>3
      <4>2. done' \in [Jobs -> BOOLEAN] /\ deps' \in [Jobs -> SUBSET Jobs]
        BY <1>3, <3>12 DEF ResetFresh
      <4>3. DataOK'
        BY <1>1, <3>12, <4>1, <4>2 DEF ResetFresh
      <4>4. ClientOK' /\ client'.pc # "joined"
        BY <1>1, <1>2, <3>12 DEF ResetFresh
      <4> QED BY <4>3, <4>4
    <3>13. CASE StartOver
      <4>1. rounds' \in Nat
        BY <1>3, <3>13 DEF StartOver
      <4> QED BY <1>1, <1>2, <3>13, <4>1 DEF StartOver
    <3>14. CASE Shutdown \/ Join
      BY <1>1, <1>2, <3>14 DEF Shutdown, Join
    <3> QED
      BY <1>6, <3>1, <3>2, <3>3, <3>4, <3>5, <3>6, <3>7, <3>8, <3>9, <3>10, <3>11, <3>12, <3>13,
         <3>14, <3>15, <3>16
      DEF ClientStep, Terminated
  <2>3. JoinedOK'
    BY <1>6, <2>2 DEF JoinedOK, Join, At
  <2>4. (TypeOK /\ Shape <=> FibersOK /\ ClientOK /\ DataOK /\ JoinedOK)'
    BY Parts, PTL
  <2> QED BY <2>1, <2>2, <2>3, <2>4
<1> QED BY <1>4, <1>5, <1>6

(* No step breaks the types and locations.                                 *)
LEMMA TypesKept ==
  ASSUME TypeOK, Shape, [Next]_vars
  PROVE  TypeOK' /\ Shape'
<1>1. CASE UNCHANGED vars
  BY <1>1 DEF vars, queues, history, jobVars, TypeOK, Shape, Working, At, ClientAt
<1> QED BY <1>1, FiberTypes, ClientTypes DEF Next

-----------------------------------------------------------------------------
(* The counter covers the work *)

(* One fiber more or less in a count.                                      *)
One(b) == IF b THEN 1 ELSE 0

(* Two sets of fibers that differ in one fiber at most.                    *)
LEMMA CountOne ==
  ASSUME NEW S \in SUBSET Fibers, NEW T \in SUBSET Fibers, NEW f \in Fibers,
         \A g \in Fibers \ {f} : g \in S <=> g \in T
  PROVE  /\ Cardinality(S) \in Nat /\ Cardinality(T) \in Nat
         /\ Cardinality(T) = Cardinality(S) - One(f \in S) + One(f \in T)
<1>1. IsFiniteSet(S) /\ IsFiniteSet(T)
  BY ConstantsAssumption, FS_Subset DEF ConstantsAssumption
<1>2. Cardinality(S) \in Nat /\ Cardinality(T) \in Nat
  BY <1>1, FS_CardinalityType
<1>3. /\ Cardinality(S \ {f}) = IF f \in S THEN Cardinality(S) - 1 ELSE Cardinality(S)
      /\ Cardinality(T \ {f}) = IF f \in T THEN Cardinality(T) - 1 ELSE Cardinality(T)
  BY <1>1, FS_RemoveElement
<1>4. S \ {f} = T \ {f}
  OBVIOUS
<1> QED BY <1>2, <1>3, <1>4 DEF One

(* The length of one queue.                                                *)
LenOf(p) == Len(queue[p])

(* What is queued is the sum of three lengths.                             *)
LEMMA QueuedSum ==
  ASSUME TypeOK
  PROVE  /\ Queued = LenOf(0) + LenOf(1) + LenOf(2)
         /\ LenOf(0) \in Nat /\ LenOf(1) \in Nat /\ LenOf(2) \in Nat
<1>1. queue[0] \in Seq(Jobs) /\ queue[1] \in Seq(Jobs) /\ queue[2] \in Seq(Jobs)
  BY DEF TypeOK, Prios
<1>2. LenOf(0) \in Nat /\ LenOf(1) \in Nat /\ LenOf(2) \in Nat
  BY <1>1, LenProperties DEF LenOf
<1>3. Queued = LenOf(0) + LenOf(1) + LenOf(2)
  BY ONLY DEF Queued, LenOf
<1> QED BY <1>2, <1>3

(* The parts of the slack are numbers.                                     *)
LEMMA SlackType ==
  ASSUME TypeOK
  PROVE  /\ Queued \in Nat /\ Cardinality(Working) \in Nat /\ Cardinality(Carriers) \in Nat
         /\ ClientCarries \in Nat /\ inflight \in Int /\ Slack \in Int
<1>1. IsFiniteSet(Working) /\ IsFiniteSet(Carriers)
  BY ConstantsAssumption, FS_Subset DEF ConstantsAssumption, Working, Carriers
<1>2. Cardinality(Working) \in Nat /\ Cardinality(Carriers) \in Nat
  BY <1>1, FS_CardinalityType
<1>3. Queued \in Nat
  BY QueuedSum
<1> QED BY <1>2, <1>3 DEF Slack, ClientCarries, TypeOK

(* One queue gets another length.                                          *)
LEMMA QueuedChange ==
  ASSUME TypeOK, TypeOK', NEW p \in Prios, \A q \in Prios \ {p} : queue'[q] = queue[q]
  PROVE  Queued' = Queued - LenOf(p) + LenOf(p)'
<1>1. (TypeOK => /\ Queued = LenOf(0) + LenOf(1) + LenOf(2)
                 /\ LenOf(0) \in Nat /\ LenOf(1) \in Nat /\ LenOf(2) \in Nat)'
  BY QueuedSum, PTL
<1>2. /\ Queued = LenOf(0) + LenOf(1) + LenOf(2)
      /\ LenOf(0) \in Nat /\ LenOf(1) \in Nat /\ LenOf(2) \in Nat
  BY QueuedSum
<1>3. /\ p = 0 \/ p = 1 \/ p = 2
      /\ p # 0 => LenOf(0)' = LenOf(0)
      /\ p # 1 => LenOf(1)' = LenOf(1)
      /\ p # 2 => LenOf(2)' = LenOf(2)
  BY DEF Prios, LenOf
<1> QED BY <1>1, <1>2, <1>3

(* Where each step of fiberLoop takes its fiber.                           *)
LEMMA FiberGoes ==
  ASSUME FibersOK, NEW f \in Fibers, FiberStep(f)
  PROVE  /\ \A g \in Fibers \ {f} : fiber'[g] = fiber[g]
         /\ ScanHit(f) => fiber[f].pc = "scan" /\ fiber'[f].pc = "take"
         /\ ReleaseCell(f) => fiber[f].pc = "take" /\ fiber'[f].pc = "body"
         /\ ScanMiss(f) => fiber[f].pc = "scan" /\ fiber'[f].pc \in {"scan", "missed"}
         /\ Exit(f) => fiber[f].pc = "missed" /\ fiber'[f].pc = "exited"
         /\ Rescan(f) => fiber[f].pc = "missed" /\ fiber'[f].pc = "scan"
         /\ RunBody(f) => fiber[f].pc = "body" /\ fiber'[f].pc = "signal"
         /\ SignalDone(f) => fiber[f].pc = "signal" /\ fiber'[f].pc = "copy"
         /\ LockContinuations(f) => fiber[f].pc = "copy" /\ fiber'[f].pc = "copying"
         /\ CopyContinuations(f) => fiber[f].pc = "copying" /\ fiber'[f].pc = "trigger"
         /\ TriggerNext(f) => fiber[f].pc = "trigger" /\ fiber'[f].pc \in {"trigger", "count"}
         /\ TriggerEnd(f) => fiber[f].pc = "trigger" /\ fiber'[f].pc = "retire"
         /\ CountContinuation(f) => fiber[f].pc = "count" /\ fiber'[f].pc = "enqueue"
         /\ EnqueueContinuation(f) => fiber[f].pc = "enqueue" /\ fiber'[f].pc = "publish"
         /\ PublishContinuation(f) => fiber[f].pc = "publish" /\ fiber'[f].pc = "trigger"
         /\ ContinuationRefused(f) => fiber[f].pc = "enqueue" /\ fiber'[f].pc = "trigger"
         /\ Retire(f) => fiber[f].pc = "retire" /\ fiber'[f].pc \in {"scan", "notify"}
         /\ Notify(f) => fiber[f].pc = "notify" /\ fiber'[f].pc = "scan"
<1> USE DEF Regs, At, FiberGoto
<1>1. fiber \in [Fibers -> Regs]
  BY DEF FibersOK
<1>2. ScanHit(f) => /\ fiber[f].pc = "scan" /\ fiber'[f].pc = "take"
                    /\ \A g \in Fibers \ {f} : fiber'[g] = fiber[g]
  BY <1>1 DEF ScanHit
<1>3. ScanMiss(f) => /\ fiber[f].pc = "scan" /\ fiber'[f].pc \in {"scan", "missed"}
                     /\ \A g \in Fibers \ {f} : fiber'[g] = fiber[g]
  BY <1>1 DEF ScanMiss
<1>4. Exit(f) => /\ fiber[f].pc = "missed" /\ fiber'[f].pc = "exited"
                 /\ \A g \in Fibers \ {f} : fiber'[g] = fiber[g]
  BY <1>1 DEF Exit, MayExit
<1>15. Rescan(f) => /\ fiber[f].pc = "missed" /\ fiber'[f].pc = "scan"
                    /\ \A g \in Fibers \ {f} : fiber'[g] = fiber[g]
  BY <1>1 DEF Rescan
<1>16. ReleaseCell(f) => /\ fiber[f].pc = "take" /\ fiber'[f].pc = "body"
                         /\ \A g \in Fibers \ {f} : fiber'[g] = fiber[g]
  BY <1>1 DEF ReleaseCell
<1>17. PublishContinuation(f) => /\ fiber[f].pc = "publish" /\ fiber'[f].pc = "trigger"
                                 /\ \A g \in Fibers \ {f} : fiber'[g] = fiber[g]
  BY <1>1 DEF PublishContinuation
<1>18. ContinuationRefused(f) => /\ fiber[f].pc = "enqueue" /\ fiber'[f].pc = "trigger"
                                 /\ \A g \in Fibers \ {f} : fiber'[g] = fiber[g]
  BY <1>1 DEF ContinuationRefused
<1>5. RunBody(f) => /\ fiber[f].pc = "body" /\ fiber'[f].pc = "signal"
                    /\ \A g \in Fibers \ {f} : fiber'[g] = fiber[g]
  BY <1>1 DEF RunBody
<1>6. SignalDone(f) => /\ fiber[f].pc = "signal" /\ fiber'[f].pc = "copy"
                       /\ \A g \in Fibers \ {f} : fiber'[g] = fiber[g]
  BY <1>1 DEF SignalDone
<1>7. LockContinuations(f) => /\ fiber[f].pc = "copy" /\ fiber'[f].pc = "copying"
                              /\ \A g \in Fibers \ {f} : fiber'[g] = fiber[g]
  BY <1>1 DEF LockContinuations
<1>8. CopyContinuations(f) => /\ fiber[f].pc = "copying" /\ fiber'[f].pc = "trigger"
                              /\ \A g \in Fibers \ {f} : fiber'[g] = fiber[g]
  BY <1>1 DEF CopyContinuations
<1>9. TriggerNext(f) => /\ fiber[f].pc = "trigger" /\ fiber'[f].pc \in {"trigger", "count"}
                        /\ \A g \in Fibers \ {f} : fiber'[g] = fiber[g]
  BY <1>1 DEF TriggerNext
<1>10. TriggerEnd(f) => /\ fiber[f].pc = "trigger" /\ fiber'[f].pc = "retire"
                        /\ \A g \in Fibers \ {f} : fiber'[g] = fiber[g]
  BY <1>1 DEF TriggerEnd
<1>11. CountContinuation(f) => /\ fiber[f].pc = "count" /\ fiber'[f].pc = "enqueue"
                               /\ \A g \in Fibers \ {f} : fiber'[g] = fiber[g]
  BY <1>1 DEF CountContinuation
<1>12. EnqueueContinuation(f) => /\ fiber[f].pc = "enqueue" /\ fiber'[f].pc = "publish"
                                 /\ \A g \in Fibers \ {f} : fiber'[g] = fiber[g]
  BY <1>1 DEF EnqueueContinuation
<1>13. Retire(f) => /\ fiber[f].pc = "retire" /\ fiber'[f].pc \in {"scan", "notify"}
                    /\ \A g \in Fibers \ {f} : fiber'[g] = fiber[g]
  BY <1>1 DEF Retire
<1>14. Notify(f) => /\ fiber[f].pc = "notify" /\ fiber'[f].pc = "scan"
                    /\ \A g \in Fibers \ {f} : fiber'[g] = fiber[g]
  BY <1>1 DEF Notify
<1> QED
  BY <1>2, <1>3, <1>4, <1>5, <1>6, <1>7, <1>8, <1>9, <1>10, <1>11, <1>12, <1>13, <1>14,
     <1>15, <1>16, <1>17, <1>18
  DEF FiberStep

(* What a step of a fiber adds to the slack.                               *)
LEMMA SlackFiber ==
  ASSUME TypeOK, TypeOK', NEW f \in Fibers, \A g \in Fibers \ {f} : fiber'[g] = fiber[g],
         ClientCarries' = ClientCarries
  PROVE  Slack' = Slack + (inflight' - inflight) - (Queued' - Queued)
                    + One(fiber[f].pc \in WorkPCs) - One(fiber'[f].pc \in WorkPCs)
                    + One(fiber[f].pc = "enqueue") - One(fiber'[f].pc = "enqueue")
<1>1. /\ Working \in SUBSET Fibers /\ Working' \in SUBSET Fibers
      /\ \A g \in Fibers \ {f} : g \in Working <=> g \in Working'
      /\ f \in Working <=> fiber[f].pc \in WorkPCs
      /\ f \in Working' <=> fiber'[f].pc \in WorkPCs
  BY DEF Working, WorkPCs
<1>2. /\ Carriers \in SUBSET Fibers /\ Carriers' \in SUBSET Fibers
      /\ \A g \in Fibers \ {f} : g \in Carriers <=> g \in Carriers'
      /\ f \in Carriers <=> fiber[f].pc = "enqueue"
      /\ f \in Carriers' <=> fiber'[f].pc = "enqueue"
  BY DEF Carriers, At
<1>3. Cardinality(Working') =
        Cardinality(Working) - One(fiber[f].pc \in WorkPCs) + One(fiber'[f].pc \in WorkPCs)
  <2>1. Cardinality(Working') = Cardinality(Working) - One(f \in Working) + One(f \in Working')
    BY <1>1, CountOne
  <2> QED BY <1>1, <2>1 DEF One
<1>4. Cardinality(Carriers') =
        Cardinality(Carriers) - One(fiber[f].pc = "enqueue") + One(fiber'[f].pc = "enqueue")
  <2>1. Cardinality(Carriers') = Cardinality(Carriers) - One(f \in Carriers) + One(f \in Carriers')
    BY <1>2, CountOne
  <2> QED BY <1>2, <2>1 DEF One
<1>5. /\ Queued \in Nat /\ Cardinality(Working) \in Nat /\ Cardinality(Carriers) \in Nat
      /\ ClientCarries \in Nat /\ inflight \in Int
  BY SlackType
<1>6. Queued' \in Nat /\ inflight' \in Int
  <2>1. (TypeOK => Queued \in Nat /\ inflight \in Int)'
    BY SlackType, PTL
  <2> QED BY <2>1
<1> DEFINE w == One(fiber[f].pc \in WorkPCs)
           x == One(fiber'[f].pc \in WorkPCs)
           c == One(fiber[f].pc = "enqueue")
           d == One(fiber'[f].pc = "enqueue")
<1>7. w \in Nat /\ x \in Nat /\ c \in Nat /\ d \in Nat
  BY DEF One
<1>8. /\ Cardinality(Working') = Cardinality(Working) - w + x
      /\ Cardinality(Carriers') = Cardinality(Carriers) - c + d
  BY <1>3, <1>4
<1> HIDE DEF w, x, c, d
<1>9. Slack' = Slack + (inflight' - inflight) - (Queued' - Queued) + w - x + c - d
  BY <1>5, <1>6, <1>7, <1>8 DEF Slack
<1> QED BY <1>9 DEF w, x, c, d

(* No step of a fiber uses up slack, and a continuation that finds no room *)
(* in its queue leaves some behind.                                        *)
LEMMA SlackOfFiber ==
  ASSUME TypeOK, Shape, NEW f \in Fibers, FiberStep(f)
  PROVE  /\ Slack' >= Slack
         /\ ContinuationRefused(f) => Slack' > Slack
<1> USE DEF WorkPCs, At, queues, jobVars, history
<1>1. /\ TypeOK' /\ FibersOK /\ DataOK
      /\ \A g \in Fibers \ {f} : fiber'[g] = fiber[g]
  BY FiberTypes, Parts, FiberGoes
<1>2. /\ fiber \in [Fibers -> Regs] /\ fiber[f].prio \in Prios
      /\ fiber[f].next \in Jobs => Priority[fiber[f].next] \in Prios
      /\ fiber[f].pc \in {"count", "enqueue", "publish"} => fiber[f].next \in Jobs
  BY <1>1, FiberRegs, ConstantsAssumption DEF FibersOK, ConstantsAssumption, Prios
<1>3. inflight \in Int /\ Queued \in Nat /\ Slack \in Int
  BY SlackType
\* a step that leaves the queues, the counter and the work alone
<1>4. ASSUME fiber'[f].pc \in WorkPCs <=> fiber[f].pc \in WorkPCs,
             fiber'[f].pc # "enqueue", fiber[f].pc # "enqueue",
             UNCHANGED <<queue, inflight>>, ClientAt("enqueue")' <=> ClientAt("enqueue")
      PROVE  Slack' = Slack
  <2>1. ClientCarries' = ClientCarries /\ Queued' = Queued
    BY <1>4 DEF ClientCarries, Queued
  <2>2. One(fiber'[f].pc \in WorkPCs) = One(fiber[f].pc \in WorkPCs)
        /\ One(fiber'[f].pc \in WorkPCs) \in Nat
        /\ One(fiber'[f].pc = "enqueue") = 0 /\ One(fiber[f].pc = "enqueue") = 0
    BY <1>4 DEF One
  <2> QED BY <1>1, <1>3, <1>4, <2>1, <2>2, SlackFiber
<1>5. CASE ScanHit(f)
  <2>1. queue[fiber[f].prio] \in Seq(Jobs) /\ queue[fiber[f].prio] # <<>>
    BY <1>1, <1>2, <1>5 DEF DataOK, ScanHit, ClaimPop, HasEntry
  <2>2. Len(Tail(queue[fiber[f].prio])) = Len(queue[fiber[f].prio]) - 1
        /\ Len(queue[fiber[f].prio]) \in Nat
    BY <2>1, HeadTailProperties, LenProperties
  <2>3. /\ queue'[fiber[f].prio] = Tail(queue[fiber[f].prio])
        /\ \A q \in Prios \ {fiber[f].prio} : queue'[q] = queue[q]
    BY <1>1, <1>2, <1>5 DEF ScanHit, ClaimPop, DataOK
  <2>5. Queued' = Queued - 1
    <3> DEFINE p == fiber[f].prio
    <3>1. \A q \in Prios : (\A x \in Prios \ {q} : queue'[x] = queue[x]) =>
                               Queued' = Queued - LenOf(q) + LenOf(q)'
      BY <1>1, QueuedChange
    <3>2. p \in Prios /\ \A x \in Prios \ {p} : queue'[x] = queue[x]
      BY <1>2, <2>3
    <3> HIDE DEF p
    <3>3. \A q \in Prios : q = p => LenOf(q)' = LenOf(q) - 1 /\ LenOf(q) \in Nat
      BY <2>2, <2>3 DEF LenOf, p
    <3>4. PICK q \in Prios : q = p
      BY <3>2
    <3> QED BY <1>3, <3>1, <3>2, <3>3, <3>4
  <2>7. fiber'[f].pc = "take"
    BY <1>1, <1>5, FiberGoes
  <2>8. /\ One(fiber[f].pc \in WorkPCs) = 0 /\ One(fiber'[f].pc \in WorkPCs) = 1
        /\ One(fiber[f].pc = "enqueue") = 0 /\ One(fiber'[f].pc = "enqueue") = 0
    BY <1>5, <2>7 DEF One, ScanHit
  <2>9. ClientCarries' = ClientCarries /\ inflight' = inflight
    BY <1>5 DEF ScanHit, ClientCarries, ClientAt
  <2>10. Slack' = Slack
    BY <1>1, <1>3, <2>5, <2>8, <2>9, SlackFiber
  <2> QED BY <1>3, <1>5, <2>10 DEF ScanHit, ContinuationRefused
<1>6. CASE EnqueueContinuation(f)
  <2> DEFINE p == Priority[fiber[f].next]
  <2>1. fiber[f].next \in Jobs /\ p \in Prios /\ queue[p] \in Seq(Jobs)
    BY <1>1, <1>2, <1>6 DEF DataOK, EnqueueContinuation
  <2>2. /\ Len(Append(queue[p], fiber[f].next)) = Len(queue[p]) + 1
        /\ Len(queue[p]) \in Nat
    BY <2>1, AppendProperties, LenProperties
  <2>3. /\ queue'[p] = Append(queue[p], fiber[f].next)
        /\ \A q \in Prios \ {p} : queue'[q] = queue[q]
    BY <1>1, <1>6, <2>1 DEF EnqueueContinuation, ClaimPush, DataOK
  <2> HIDE DEF p
  <2>5. Queued' = Queued + 1
    <3>1. PICK q \in Prios : q = p
      BY <2>1
    <3>2. Queued' = Queued - LenOf(q) + LenOf(q)'
      BY <1>1, <2>3, <3>1, QueuedChange
    <3>3. LenOf(q) \in Nat /\ LenOf(q)' = LenOf(q) + 1
      BY <2>2, <2>3, <3>1 DEF LenOf
    <3> QED BY <1>3, <3>2, <3>3
  <2>7. fiber'[f].pc = "publish"
    BY <1>1, <1>6, FiberGoes
  <2>8. /\ One(fiber[f].pc \in WorkPCs) = 1 /\ One(fiber'[f].pc \in WorkPCs) = 1
        /\ One(fiber[f].pc = "enqueue") = 1 /\ One(fiber'[f].pc = "enqueue") = 0
    BY <1>6, <2>7 DEF One, EnqueueContinuation
  <2>9. ClientCarries' = ClientCarries /\ inflight' = inflight
    BY <1>6 DEF EnqueueContinuation, ClientCarries, ClientAt
  <2>10. Slack' = Slack - (Queued' - Queued) + 1
    BY <1>1, <1>3, <2>5, <2>7, <2>8, <2>9, SlackFiber
  <2> QED BY <1>3, <1>6, <2>5, <2>7, <2>10, FiberGoes, <1>1
<1>13. CASE ContinuationRefused(f)
  <2>1. fiber'[f].pc = "trigger"
    BY <1>1, <1>13, FiberGoes
  <2>2. /\ One(fiber[f].pc \in WorkPCs) = 1 /\ One(fiber'[f].pc \in WorkPCs) = 1
        /\ One(fiber[f].pc = "enqueue") = 1 /\ One(fiber'[f].pc = "enqueue") = 0
    BY <1>13, <2>1 DEF One, ContinuationRefused
  <2>3. ClientCarries' = ClientCarries /\ inflight' = inflight /\ Queued' = Queued
    BY <1>13 DEF ContinuationRefused, ClientCarries, ClientAt, Queued
  <2> QED BY <1>1, <1>3, <2>1, <2>2, <2>3, SlackFiber
<1>7. CASE CountContinuation(f)
  <2>1. fiber'[f].pc = "enqueue"
    BY <1>1, <1>7, FiberGoes
  <2>2. /\ One(fiber[f].pc \in WorkPCs) = 1 /\ One(fiber'[f].pc \in WorkPCs) = 1
        /\ One(fiber[f].pc = "enqueue") = 0 /\ One(fiber'[f].pc = "enqueue") = 1
    BY <1>7, <2>1 DEF One, CountContinuation
  <2>3. ClientCarries' = ClientCarries /\ inflight' = inflight + 1 /\ Queued' = Queued
    BY <1>7 DEF CountContinuation, Counted, ClientCarries, ClientAt, Queued
  <2> QED
    BY <1>1, <1>3, <1>7, <2>1, <2>2, <2>3, SlackFiber DEF CountContinuation, ContinuationRefused
<1>8. CASE Retire(f)
  <2>1. fiber'[f].pc \in {"scan", "notify"}
    BY <1>1, <1>8, FiberGoes
  <2>2. /\ One(fiber[f].pc \in WorkPCs) = 1 /\ One(fiber'[f].pc \in WorkPCs) = 0
        /\ One(fiber[f].pc = "enqueue") = 0 /\ One(fiber'[f].pc = "enqueue") = 0
    BY <1>8, <2>1 DEF One, Retire
  <2>3. ClientCarries' = ClientCarries /\ inflight' = inflight - 1 /\ Queued' = Queued
    BY <1>8 DEF Retire, Retired, ClientCarries, ClientAt, Queued
  <2> QED BY <1>1, <1>3, <1>8, <2>1, <2>2, <2>3, SlackFiber DEF Retire, ContinuationRefused
<1>9. CASE TriggerNext(f)
  <2>1. fiber'[f].pc \in {"trigger", "count"}
    BY <1>1, <1>9, FiberGoes
  <2>2. Slack' = Slack
    BY <1>4, <1>9, <2>1 DEF TriggerNext, ClientAt
  <2> QED BY <1>3, <1>9, <2>2 DEF TriggerNext, ContinuationRefused
<1>10. CASE ScanMiss(f) \/ Exit(f) \/ Rescan(f)
  <2>1. fiber'[f].pc \in {"scan", "missed", "exited"}
    BY <1>1, <1>10, FiberGoes
  <2>2. Slack' = Slack
    BY <1>4, <1>10, <2>1 DEF ScanMiss, Exit, MayExit, Rescan, ClientAt
  <2> QED BY <1>3, <1>10, <2>2 DEF ScanMiss, Exit, MayExit, Rescan, ContinuationRefused
<1>11. CASE \/ ReleaseCell(f) \/ RunBody(f) \/ SignalDone(f) \/ LockContinuations(f)
            \/ CopyContinuations(f) \/ TriggerEnd(f) \/ PublishContinuation(f)
  <2>1. fiber'[f].pc \in {"body", "signal", "copy", "copying", "trigger", "retire"}
    BY <1>1, <1>11, FiberGoes
  <2>2. Slack' = Slack
    BY <1>4, <1>11, <2>1
    DEF ReleaseCell, RunBody, SignalDone, LockContinuations, CopyContinuations, TriggerEnd,
        PublishContinuation, ClientAt
  <2> QED
    BY <1>3, <1>11, <2>2
    DEF ReleaseCell, RunBody, SignalDone, LockContinuations, CopyContinuations, TriggerEnd,
        PublishContinuation, ContinuationRefused
<1>12. CASE Notify(f)
  <2>1. fiber'[f].pc = "scan"
    BY <1>1, <1>12, FiberGoes
  <2>2. ClientAt("enqueue")' <=> ClientAt("enqueue")
    BY <1>12 DEF Notify, ClientAt, TypeOK
  <2>3. Slack' = Slack
    BY <1>4, <1>12, <2>1, <2>2 DEF Notify
  <2> QED BY <1>3, <1>12, <2>3 DEF Notify, ContinuationRefused
<1> QED BY <1>5, <1>6, <1>7, <1>8, <1>9, <1>10, <1>11, <1>12, <1>13 DEF FiberStep

(* Nor does a step of the client.                                          *)
LEMMA SlackOfClient ==
  ASSUME TypeOK, Shape, ClientStep
  PROVE  Slack' >= Slack
<1> USE DEF ClientAt, ClientGoto, queues, jobVars, history
<1>1. TypeOK' /\ ClientOK /\ DataOK
  BY ClientTypes, Parts
<1>2. /\ inflight \in Int /\ Queued \in Nat /\ Slack \in Int /\ Cardinality(Working) \in Nat
      /\ Cardinality(Carriers) \in Nat /\ ClientCarries \in Nat
  BY SlackType
<1>3. client = [client EXCEPT !.pc = client.pc]
  BY <1>1 DEF ClientOK
<1>4. ASSUME fiber' = fiber
      PROVE  Cardinality(Working') = Cardinality(Working)
             /\ Cardinality(Carriers') = Cardinality(Carriers)
  BY <1>4 DEF Working, Carriers, At
<1>5. ASSUME UNCHANGED <<queue, inflight, fiber>>, client.pc # "enqueue", client'.pc # "enqueue"
      PROVE  Slack' >= Slack
  <2>1. Queued' = Queued /\ ClientCarries' = 0 /\ ClientCarries = 0
    BY <1>5 DEF Queued, ClientCarries
  <2> QED BY <1>2, <1>4, <1>5, <2>1 DEF Slack
<1>6. CASE CountSubmission
  <2>1. /\ Queued' = Queued /\ ClientCarries' = 1 /\ ClientCarries = 0
        /\ inflight' = inflight + 1 /\ fiber' = fiber
    BY <1>1, <1>6 DEF CountSubmission, Counted, Queued, ClientCarries, ClientOK
  <2> QED BY <1>2, <1>4, <2>1 DEF Slack
<1>7. CASE EnqueueSubmission
  <2> DEFINE p == Priority[client.job]
  <2>1. client.job \in Jobs /\ p \in Prios /\ queue[p] \in Seq(Jobs)
    BY <1>1, <1>7, ConstantsAssumption
    DEF DataOK, ClientOK, EnqueueSubmission, ConstantsAssumption, Prios
  <2>2. Len(Append(queue[p], client.job)) = Len(queue[p]) + 1 /\ Len(queue[p]) \in Nat
    BY <2>1, AppendProperties, LenProperties
  <2>3. /\ queue'[p] = Append(queue[p], client.job)
        /\ \A q \in Prios \ {p} : queue'[q] = queue[q]
    BY <1>1, <1>7, <2>1 DEF EnqueueSubmission, ClaimPush, DataOK
  <2> HIDE DEF p
  <2>5. Queued' = Queued + 1
    <3>1. PICK q \in Prios : q = p
      BY <2>1
    <3>2. Queued' = Queued - LenOf(q) + LenOf(q)'
      BY <1>1, <2>3, <3>1, QueuedChange
    <3>3. LenOf(q) \in Nat /\ LenOf(q)' = LenOf(q) + 1
      BY <2>2, <2>3, <3>1 DEF LenOf
    <3> QED BY <1>2, <3>2, <3>3
  <2>6. /\ ClientCarries' = 0 /\ ClientCarries = 1 /\ inflight' = inflight /\ fiber' = fiber
    BY <1>1, <1>7 DEF EnqueueSubmission, ClientCarries, ClientOK
  <2> QED BY <1>2, <1>4, <2>5, <2>6 DEF Slack
<1>8. CASE SubmissionRefused
  <2>1. /\ Queued' = Queued /\ ClientCarries' = 0 /\ ClientCarries = 1
        /\ inflight' = inflight /\ fiber' = fiber
    BY <1>1, <1>8 DEF SubmissionRefused, Queued, ClientCarries, ClientOK
  <2> QED BY <1>2, <1>4, <2>1 DEF Slack
<1>9. CASE AddContinuation \/ AddCount \/ WaitAllBegin \/ WaitAllTest \/ WaitAllSleep
  BY <1>1, <1>5, <1>9
  DEF AddContinuation, AddCount, WaitAllBegin, WaitAllTest, WaitAllSleep, ClientOK
<1>13. ASSUME NEW d \in Jobs, NEW j \in Jobs, AddBegin(d, j) PROVE Slack' >= Slack
  BY <1>1, <1>5, <1>13 DEF AddBegin, ClientOK
<1>12. ASSUME NEW j \in Jobs, Submit(j) \/ WaitJobBegin(j) PROVE Slack' >= Slack
  BY <1>1, <1>5, <1>12 DEF Submit, WaitJobBegin, ClientOK
<1>10. CASE \/ PublishSubmission \/ WaitJobEnd \/ WaitJobGoOn
            \/ \E j \in Jobs : ResetClear(j)
            \/ ResetSignal \/ ResetFresh \/ StartOver \/ Shutdown \/ Join
  BY <1>1, <1>5, <1>10
  DEF PublishSubmission, WaitJobEnd, WaitJobGoOn, ResetClear, ResetSignal, ResetFresh, StartOver, Shutdown, Join,
      ClientOK
<1>11. CASE Terminated
  BY <1>5, <1>11 DEF Terminated, vars
<1> QED BY <1>6, <1>7, <1>8, <1>9, <1>10, <1>11, <1>12, <1>13 DEF ClientStep

(* Types, locations and the slack, whatever the client does.               *)
THEOREM CoverInvariant == Spec => []CoverInv
<1>1. Init => CoverInv
  <2> SUFFICES ASSUME Init PROVE CoverInv
    OBVIOUS
  <2>1. TypeOK
    <3>1. Scanning \in [pc : FiberPCs, prio : Prios, task : Jobs \cup {NoJob},
                        todo : Seq(Jobs), next : Jobs \cup {NoJob}]
      BY EmptySeq DEF Scanning, FiberPCs, Prios
    <3>2. client \in [pc : ClientPCs, job : Jobs \cup {NoJob}, dep : Jobs \cup {NoJob}]
      BY DEF Init, ClientPCs
    <3>3. <<>> \in Seq(Jobs) /\ 0 \in Nat
      BY EmptySeq
    <3> HIDE DEF Scanning
    <3>5. [i \in 1 .. QueueCapacity |-> NoJob] \in Seq(Jobs \cup {NoJob})
      BY ConstantsAssumption, IsASeq DEF ConstantsAssumption
    <3>4. /\ queue \in [Prios -> Seq(Jobs)] /\ vacant \in [Prios -> Seq(Jobs \cup {NoJob})]
          /\ conts \in [Jobs -> Seq(Jobs)] /\ inflight \in Int /\ remaining \in [Jobs -> Int]
          /\ runs \in [Jobs -> Nat] /\ rounds \in Nat
      BY <3>3, <3>5 DEF Init
    <3> QED BY <3>1, <3>2, <3>4 DEF Init, TypeOK
  <2>2. Shape
    BY DEF Init, Shape, Scanning, Working, At, ClientAt
  <2>3. Working = {} /\ Carriers = {} /\ ClientCarries = 0
    BY DEF Init, Working, Carriers, ClientCarries, Scanning, At, ClientAt
  <2>4. LenOf(0) = 0 /\ LenOf(1) = 0 /\ LenOf(2) = 0
    BY EmptySeq DEF Init, LenOf, Prios
  <2>5. Slack = 0
    BY <2>1, <2>3, <2>4, QueuedSum, FS_EmptySet DEF Slack, Init
  <2> QED BY <2>1, <2>2, <2>5 DEF CoverInv
<1>2. CoverInv /\ [Next]_vars => CoverInv'
  <2> SUFFICES ASSUME CoverInv, [Next]_vars PROVE CoverInv'
    OBVIOUS
  <2>1. TypeOK /\ Shape /\ Slack >= 0 /\ Slack \in Int
    BY SlackType DEF CoverInv
  <2>2. TypeOK' /\ Shape'
    BY <2>1, TypesKept
  <2>3. Slack' \in Int
    <3>1. (TypeOK => Slack \in Int)'
      BY SlackType, PTL
    <3> QED BY <2>2, <3>1
  <2>4. Slack' >= Slack
    <3>1. CASE UNCHANGED vars
      <4>1. Slack' = Slack
        BY <3>1 DEF Slack, vars, queues, Queued, Working, Carriers, ClientCarries, At, ClientAt
      <4> QED BY <2>1, <4>1
    <3> QED BY <2>1, <3>1, SlackOfFiber, SlackOfClient DEF Next
  <2> QED BY <2>1, <2>2, <2>3, <2>4 DEF CoverInv
<1> QED BY <1>1, <1>2, PTL DEF Spec

(* Every variable keeps its type.                                          *)
THEOREM SchedulerTyping == Spec => []TypeOK
<1>1. CoverInv => TypeOK
  BY DEF CoverInv
<1> QED BY <1>1, CoverInvariant, PTL

(* m_inflightTasks never falls short of the work that is queued or in a    *)
(* fiber, for any use of the scheduler: the early reset included.          *)
THEOREM CounterCovers == Spec => []InflightCovers
<1>1. CoverInv => InflightCovers
  BY SlackType DEF CoverInv, InflightCovers, Slack
<1> QED BY <1>1, CoverInvariant, PTL

-----------------------------------------------------------------------------
(* Lists *)

(* An empty list has no elements.                                          *)
LEMMA EmptyList == ElementsOf(<<>>) = {} /\ Distinct(<<>>)
BY DEF ElementsOf, Distinct

(* A list has elements of its type, and none only when it is empty.        *)
LEMMA ListType ==
  ASSUME NEW S, NEW s \in Seq(S)
  PROVE  ElementsOf(s) \subseteq S /\ (s = <<>> <=> ElementsOf(s) = {})
<1>1. DOMAIN s = 1 .. Len(s) /\ Len(s) \in Nat /\ (s # <<>> => Len(s) > 0)
  BY LenProperties, EmptySeq
<1>2. \A i \in DOMAIN s : s[i] \in S
  BY <1>1, ElementOfSeq
<1>3. s # <<>> => s[1] \in ElementsOf(s)
  BY <1>1 DEF ElementsOf
<1> QED BY <1>2, <1>3, EmptyList DEF ElementsOf

(* A list that gets one more element.                                      *)
LEMMA ListAppend ==
  ASSUME NEW S, NEW s \in Seq(S), NEW x \in S
  PROVE  /\ ElementsOf(Append(s, x)) = ElementsOf(s) \cup {x}
         /\ Distinct(s) /\ x \notin ElementsOf(s) => Distinct(Append(s, x))
<1> DEFINE t == Append(s, x)
           n == Len(s)
<1>1. /\ t \in Seq(S) /\ n \in Nat /\ DOMAIN s = 1 .. n /\ DOMAIN t = 1 .. n + 1
      /\ \A i \in 1 .. n : t[i] = s[i]
      /\ t[n + 1] = x
  BY AppendProperties, LenProperties
<1> HIDE DEF t, n
<1>2. ElementsOf(t) = ElementsOf(s) \cup {x}
  BY <1>1 DEF ElementsOf
<1>3. ASSUME Distinct(s), x \notin ElementsOf(s) PROVE Distinct(t)
  <2>1. ASSUME NEW i \in DOMAIN t, NEW k \in DOMAIN t, t[i] = t[k] PROVE i = k
    BY <1>1, <1>3, <2>1 DEF Distinct, ElementsOf
  <2> QED BY <2>1 DEF Distinct
<1> QED BY <1>2, <1>3 DEF t

(* A list without its first element.                                       *)
LEMMA ListTail ==
  ASSUME NEW S, NEW s \in Seq(S), s # <<>>
  PROVE  /\ Head(s) \in S /\ Tail(s) \in Seq(S)
         /\ ElementsOf(s) = ElementsOf(Tail(s)) \cup {Head(s)}
         /\ Distinct(s) => Distinct(Tail(s)) /\ Head(s) \notin ElementsOf(Tail(s))
<1> DEFINE t == Tail(s)
           n == Len(s)
<1>1. /\ t \in Seq(S) /\ Head(s) \in S /\ n \in Nat \ {0}
      /\ DOMAIN s = 1 .. n /\ DOMAIN t = 1 .. n - 1
      /\ \A i \in 1 .. n - 1 : t[i] = s[i + 1]
      /\ Head(s) = s[1]
  BY HeadTailProperties, LenProperties, EmptySeq
<1> HIDE DEF t, n
<1>2. ASSUME NEW i \in 1 .. n - 1
      PROVE  i + 1 \in DOMAIN s /\ 1 \in DOMAIN s /\ i + 1 # 1 /\ t[i] = s[i + 1]
  BY <1>1
<1>3. ASSUME NEW x \in ElementsOf(s) PROVE x \in ElementsOf(t) \cup {Head(s)}
  <2>1. PICK i \in 1 .. n : x = s[i]
    BY <1>1 DEF ElementsOf
  <2>2. CASE i = 1 BY <1>1, <2>1, <2>2
  <2>3. CASE i # 1
    <3>1. i - 1 \in 1 .. n - 1 /\ t[i - 1] = s[i]
      BY <1>1, <2>3
    <3> QED BY <1>1, <2>1, <3>1 DEF ElementsOf
  <2> QED BY <2>2, <2>3
<1>4. Head(s) \in ElementsOf(s) /\ \A y \in ElementsOf(t) : y \in ElementsOf(s)
  <2>1. ASSUME NEW y \in ElementsOf(t) PROVE y \in ElementsOf(s)
    <3>1. PICK i \in 1 .. n - 1 : y = t[i]
      BY <1>1, <2>1 DEF ElementsOf
    <3> QED BY <1>2, <3>1 DEF ElementsOf
  <2>2. 1 \in DOMAIN s /\ Head(s) = s[1]
    BY <1>1
  <2> QED BY <2>1, <2>2 DEF ElementsOf
<1>5. Distinct(s) => Distinct(t) /\ Head(s) \notin ElementsOf(t)
  <2> SUFFICES ASSUME Distinct(s) PROVE Distinct(t) /\ Head(s) \notin ElementsOf(t)
    OBVIOUS
  <2>1. Head(s) \notin ElementsOf(t)
    BY <1>1, <1>2 DEF ElementsOf, Distinct
  <2>2. ASSUME NEW i \in DOMAIN t, NEW k \in DOMAIN t, t[i] = t[k] PROVE i = k
    <3>1. i + 1 = k + 1
      BY <1>1, <1>2, <2>2 DEF Distinct
    <3> QED BY <1>1, <3>1
  <2> QED BY <2>1, <2>2 DEF Distinct
<1> QED BY <1>1, <1>3, <1>4, <1>5 DEF t

(* A list without repetitions that misses an element of a finite set is    *)
(* shorter than the set.                                                   *)
LEMMA ListFits ==
  ASSUME NEW S, NEW s \in Seq(S), Distinct(s), NEW T, IsFiniteSet(T),
         ElementsOf(s) \subseteq T, NEW x \in T, x \notin ElementsOf(s)
  PROVE  Len(s) < Cardinality(T)
<1> DEFINE n == Len(s)
           D == 1 .. n
<1>1. n \in Nat /\ DOMAIN s = D /\ s \in [D -> S]
  BY LenProperties
<1>2. s \in [D -> T]
  BY <1>1 DEF ElementsOf
<1>4. IsFiniteSet(D) /\ Cardinality(D) = n
  BY <1>1, FS_Interval
<1> HIDE DEF D, n
<1>3. s \in Injection(D, T) /\ s \notin Surjection(D, T)
  <2>1. \A i, k \in D : s[i] = s[k] => i = k
    BY <1>1 DEF Distinct
  <2>2. ~\E i \in D : s[i] = x
    BY <1>1 DEF ElementsOf
  <2> QED BY <1>2, <2>1, <2>2 DEF Injection, IsInjective, Surjection
<1>5. Cardinality(D) <= Cardinality(T) /\ Cardinality(D) # Cardinality(T)
  BY <1>3, FS_Injection
<1>6. Cardinality(T) \in Nat
  BY FS_CardinalityType
<1> QED BY <1>1, <1>4, <1>5, <1>6 DEF n

-----------------------------------------------------------------------------
(* What a step leaves alone *)

(* What the client is doing with a job is as it was.                       *)
ClientSame ==
  /\ \A l \in {"adding", "addCount"} : client'.pc = l <=> client.pc = l
  /\ client'.pc \in {"count", "enqueue"} <=> client.pc \in {"count", "enqueue"}
  /\ client'.pc = "publish" <=> client.pc = "publish"
  /\ client.pc \in {"adding", "addCount", "count", "enqueue", "publish"} =>
       client'.job = client.job /\ client'.dep = client.dep

(* The other fibers keep their jobs.                                       *)
LEMMA Bystanders ==
  ASSUME NEW f, \A g \in Fibers \ {f} : fiber'[g] = fiber[g]
  PROVE  \A g \in Fibers \ {f} :
           /\ (\A l : At(g, l)' <=> At(g, l)) /\ (Fresh(g)' <=> Fresh(g))
           /\ \A j \in Jobs : (Holds(g, j)' <=> Holds(g, j)) /\ (Carries(g, j)' <=> Carries(g, j))
           /\ \A d, j \in Jobs : Owes(g, d, j)' <=> Owes(g, d, j)
           /\ \A p \in Prios : Sees(g, p)' <=> Sees(g, p)
BY DEF Holds, Carries, Owes, Sees, At, Fresh, Working

(* Graph says nothing but of the continuations and dependencies.           *)
LEMMA GraphFrame ==
  ASSUME Graph, UNCHANGED <<deps, conts>>, ClientSame
  PROVE  Graph'
BY DEF Graph, ClientSame, ClientAt

(* Origin, of jobs that have started or not.                               *)
LEMMA OriginFrame ==
  ASSUME Origin, submitted \subseteq Jobs, UNCHANGED <<deps, submitted>>, ClientSame,
         \A j \in Jobs : Started(j)' <=> Started(j)
  PROVE  Origin'
<1>1. Launched' = Launched
  BY DEF Launched, ClientSame
<1>2. \A U : Closed(U)' <=> Closed(U)
  BY DEF Closed
<1>3. \A j \in Jobs : Untouched(j)' <=> Untouched(j)
  BY DEF Untouched
<1>4. Launched \subseteq Jobs
  BY DEF Launched
<1> USE DEF Origin
<1>5. \A j \in submitted' : deps'[j] = {}
  OBVIOUS
<1>6. \A j \in Launched' : Started(j)'
  BY <1>1, <1>4
<1>7. \A j \in Jobs : client'.pc \in {"count", "enqueue"} /\ client'.job = j =>
        j \in submitted' /\ ~Started(j)'
  BY DEF ClientSame
<1>8. \A j \in Jobs : Started(j)' =>
        \A U \in SUBSET Jobs : j \in U /\ Closed(U)' => U \cap Launched' # {}
  BY <1>1, <1>2
<1>9. \A j \in Jobs : client'.pc \in {"adding", "addCount"} /\ j \in {client'.dep, client'.job} =>
        Untouched(j)'
  BY <1>3 DEF ClientSame
<1>10. client'.pc = "publish" => client'.job \in submitted'
  BY DEF ClientSame, ClientAt
<1> QED BY <1>5, <1>6, <1>7, <1>8, <1>9, <1>10 DEF ClientAt

(* OnePlace, of where jobs are.                                            *)
LEMMA OnePlaceFrame ==
  ASSUME OnePlace, UNCHANGED <<queue, runs>>,
         \A g \in Fibers, j \in Jobs :
           /\ Holds(g, j)' => Holds(g, j) /\ (Fresh(g)' <=> Fresh(g))
           /\ Carries(g, j)' => Carries(g, j),
         \A j \in Jobs : runs[j] > 0 =>
           done'[j] \/ \E g \in Fibers : At(g, "signal")' /\ Holds(g, j)'
  PROVE  OnePlace'
<1> USE DEF OnePlace
<1>1. \A j \in Jobs : /\ InQueue(j)' <=> InQueue(j)
                      /\ Held(j)' => Held(j)
                      /\ Carried(j)' => Carried(j)
  BY DEF InQueue, Held, Carried
<1>2. \A p \in Prios : Distinct(queue'[p]) /\ \A j \in ElementsOf(queue'[p]) : Priority[j] = p
  OBVIOUS
<1>3. \A j \in Jobs : /\ InQueue(j)' => runs'[j] = 0 /\ ~Held(j)' /\ ~Carried(j)'
                      /\ Carried(j)' => runs'[j] = 0 /\ ~Held(j)'
  BY <1>1
<1>4. \A j \in Jobs, f, g \in Fibers :
        (Holds(f, j)' /\ Holds(g, j)') \/ (Carries(f, j)' /\ Carries(g, j)') => f = g
  OBVIOUS
<1>5. \A f \in Fibers, j \in Jobs : Holds(f, j)' =>
        runs'[j] = IF Fresh(f)' THEN 0 ELSE 1
  OBVIOUS
<1>6. /\ \A j \in Jobs : runs'[j] <= 1
      /\ \A j \in Jobs : runs'[j] > 0 => done'[j] \/ \E f \in Fibers : At(f, "signal")' /\ Holds(f, j)'
  OBVIOUS
<1> QED BY <1>2, <1>3, <1>4, <1>5, <1>6

(* Counting, of what holds a job back.                                     *)
LEMMA CountingFrame ==
  ASSUME Counting, UNCHANGED remaining,
         \A j \in Jobs : Waiting(j)' = Waiting(j) /\ (Started(j)' => Started(j)),
         \A g \in Fibers : fiber'[g].pc \in {"trigger", "count", "enqueue", "publish"} =>
           /\ Distinct(fiber'[g].todo)
           /\ ElementsOf(fiber'[g].todo) \subseteq ElementsOf(conts'[fiber'[g].task]),
         \A g \in Fibers, j \in Jobs : Carries(g, j)' => fiber'[g].task \in deps'[j]
  PROVE  Counting'
BY DEF Counting

(* Kept, of lost and of queued continuations.                              *)
LEMMA KeptFrame ==
  ASSUME Kept, queue \in [Prios -> Seq(Jobs)], UNCHANGED <<queue, deps, refused>>,
         \A p \in Prios : queue[p] # <<>> /\ Head(queue[p]) \in submitted =>
           Head(queue[p]) \in submitted',
         Slack \in Int, Slack' \in Int, Slack' >= Slack,
         \A j \in Jobs : Lost(j)' => Lost(j),
         \A p \in Prios : queue[p] # <<>> /\ (\E g \in Fibers : Sees(g, p)) =>
           (\E g \in Fibers : Sees(g, p)') \/ Head(queue[p]) \in submitted
  PROVE  Kept'
<1>1. \A p \in Prios : queue[p] \in Seq(Jobs)
  OBVIOUS
<1>2. \A p \in Prios : \A j \in ElementsOf(queue[p]) : queue[p] # <<>>
  BY <1>1, EmptyList
<1>3. \A p \in Prios : \A j \in ElementsOf(queue'[p]) : deps'[j] # {} =>
        (\E f \in Fibers : Sees(f, p)') \/ Head(queue'[p]) \in submitted'
  BY <1>2 DEF Kept
<1>4. (\E j \in Jobs : Lost(j)') => Slack' > 0
  BY DEF Kept
<1>5. \A j \in Jobs : Lost(j)' => j \in refused'
  BY DEF Kept
<1> QED BY <1>3, <1>4, <1>5 DEF Kept

(* A fiber does nothing to what the client has built.                      *)
LEMMA FiberLeaves ==
  ASSUME TypeOK, NEW f \in Fibers, FiberStep(f)
  PROVE  /\ UNCHANGED <<deps, conts, submitted, rounds, shutdown>> /\ ClientSame
         /\ client' = client \/ (client.pc = "asleep" /\ client'.pc = "waitAll")
<1>1. /\ client' = client \/ client' = [client EXCEPT !.pc = IF @ = "asleep" THEN "waitAll" ELSE @]
      /\ UNCHANGED <<deps, conts, submitted, rounds, shutdown>>
  BY DEF FiberStep, ScanHit, ReleaseCell, ScanMiss, Exit, Rescan, RunBody, SignalDone,
         LockContinuations, CopyContinuations, TriggerNext, TriggerEnd, CountContinuation,
         EnqueueContinuation, PublishContinuation, ContinuationRefused, Retire, Notify, history,
         jobVars, At
<1>2. client \in [pc : ClientPCs, job : Jobs \cup {NoJob}, dep : Jobs \cup {NoJob}]
  BY DEF TypeOK
<1>3. client' = client \/ (client.pc = "asleep" /\ client'.pc = "waitAll")
  BY <1>1, <1>2
<1> QED BY <1>1, <1>3 DEF ClientSame

(* A step that moves one fiber, and no job.                                *)
LEMMA FiberFrame ==
  ASSUME CoverInv, Accounting, NEW f \in Fibers, FiberStep(f),
         UNCHANGED <<queue, remaining, runs, refused>>,
         Fresh(f)' <=> Fresh(f),
         \A j \in Jobs : /\ Holds(f, j)' => Holds(f, j)
                         /\ Holds(f, j) => Holds(f, j)' \/ runs[j] > 0
                         /\ Carries(f, j)' <=> Carries(f, j)
                         /\ Carries(f, j) => fiber'[f].task = fiber[f].task,
         \A d, j \in Jobs : d \in deps[j] => (Owes(f, d, j)' <=> Owes(f, d, j)),
         fiber'[f].pc \in {"trigger", "count", "enqueue", "publish"} =>
           /\ Distinct(fiber'[f].todo)
           /\ ElementsOf(fiber'[f].todo) \subseteq ElementsOf(conts[fiber'[f].task]),
         \A j \in Jobs : /\ done[j] => done'[j]
                         /\ At(f, "signal") /\ Holds(f, j) => done'[j],
         \A p \in Prios : queue[p] # <<>> /\ Sees(f, p) =>
           \/ Sees(f, p)' \/ \E g \in Fibers \ {f} : Sees(g, p)
           \/ Head(queue[p]) \in submitted
  PROVE  Accounting'
<1>1. /\ TypeOK /\ Shape /\ TypeOK' /\ Slack' >= Slack
      /\ FibersOK /\ DataOK
  BY FiberTypes, SlackOfFiber, Parts DEF CoverInv
<1>2. \A g \in Fibers \ {f} : fiber'[g] = fiber[g]
  BY <1>1, FiberGoes
<1>3. \A g \in Fibers \ {f} :
        /\ (\A l : At(g, l)' <=> At(g, l)) /\ (Fresh(g)' <=> Fresh(g))
        /\ \A j \in Jobs : (Holds(g, j)' <=> Holds(g, j)) /\ (Carries(g, j)' <=> Carries(g, j))
        /\ \A d, j \in Jobs : Owes(g, d, j)' <=> Owes(g, d, j)
        /\ \A p \in Prios : Sees(g, p)' <=> Sees(g, p)
  BY <1>2, Bystanders
<1>4. UNCHANGED <<deps, conts, submitted>> /\ ClientSame
  BY <1>1, FiberLeaves
<1>5. \A j \in Jobs : Started(j)' <=> Started(j)
  <2>1. \A j \in Jobs : /\ InQueue(j)' <=> InQueue(j)
                        /\ Held(j)' => Held(j)
                        /\ Held(j) => Held(j)' \/ runs[j] > 0
                        /\ Carried(j)' <=> Carried(j)
    BY <1>3 DEF InQueue, Held, Carried
  <2> QED BY <2>1 DEF Started
<1>6. Graph'
  BY <1>4, GraphFrame DEF Accounting
<1>7. Origin'
  BY <1>1, <1>4, <1>5, OriginFrame DEF Accounting, DataOK
<1>8. OnePlace'
  <2>1. \A g \in Fibers, j \in Jobs :
          /\ Holds(g, j)' => Holds(g, j) /\ (Fresh(g)' <=> Fresh(g))
          /\ Carries(g, j)' => Carries(g, j)
    BY <1>3
  <2>2. ASSUME NEW j \in Jobs, runs[j] > 0
        PROVE  done'[j] \/ \E g \in Fibers : At(g, "signal")' /\ Holds(g, j)'
    <3>1. done[j] \/ \E g \in Fibers : At(g, "signal") /\ Holds(g, j)
      BY <2>2 DEF Accounting, OnePlace
    <3> QED BY <1>3, <3>1
  <2> QED BY <2>1, <2>2, OnePlaceFrame DEF Accounting
<1>9. Counting'
  <2>1. ASSUME NEW j \in Jobs PROVE Waiting(j)' = Waiting(j)
    <3>1. deps[j] \subseteq Jobs
      BY <1>1 DEF DataOK
    <3>2. \A d \in deps[j] : (\E g \in Fibers : Owes(g, d, j)') <=> \E g \in Fibers : Owes(g, d, j)
      BY <1>3, <3>1
    <3> QED BY <1>4, <3>2 DEF Waiting
  <2>2. ASSUME NEW g \in Fibers, fiber'[g].pc \in {"trigger", "count", "enqueue", "publish"}
        PROVE  /\ Distinct(fiber'[g].todo)
               /\ ElementsOf(fiber'[g].todo) \subseteq ElementsOf(conts'[fiber'[g].task])
    BY <1>2, <1>4, <2>2 DEF Accounting, Counting
  <2>3. ASSUME NEW g \in Fibers, NEW j \in Jobs, Carries(g, j)'
        PROVE  fiber'[g].task \in deps'[j]
    BY <1>2, <1>3, <1>4, <2>3 DEF Accounting, Counting
  <2> QED BY <1>5, <2>1, <2>2, <2>3, CountingFrame DEF Accounting
<1>10. Kept'
  <2>1. \A j \in Jobs : Lost(j)' => Lost(j)
    BY <1>4, <1>5 DEF Lost
  <2>2. \A p \in Prios : queue[p] # <<>> /\ (\E g \in Fibers : Sees(g, p)) =>
          (\E g \in Fibers : Sees(g, p)') \/ Head(queue[p]) \in submitted
    BY <1>3
  <2>3. Slack \in Int /\ Slack' \in Int
    <3>1. (TypeOK => Slack \in Int)'
      BY SlackType, PTL
    <3> QED BY <1>1, <3>1, SlackType
  <2> QED BY <1>1, <1>4, <2>1, <2>2, <2>3, KeptFrame DEF Accounting, DataOK
<1> QED BY <1>6, <1>7, <1>8, <1>9, <1>10 DEF Accounting

(* The steps of fiberLoop that move no job.                                *)
LEMMA FiberQuiet ==
  ASSUME CoverInv, Accounting, NEW f \in Fibers, FiberStep(f),
         \/ ReleaseCell(f) \/ ScanMiss(f) \/ Exit(f) \/ Rescan(f) \/ SignalDone(f)
         \/ LockContinuations(f) \/ CopyContinuations(f) \/ TriggerEnd(f)
         \/ CountContinuation(f) \/ PublishContinuation(f) \/ Retire(f) \/ Notify(f)
  PROVE  Accounting'
<1>1. /\ FibersOK /\ DataOK
      /\ fiber \in [Fibers -> Regs]
      /\ fiber[f].pc \in FiberPCs /\ fiber[f].prio \in Prios
      /\ fiber[f].todo \in Seq(Jobs)
      /\ fiber[f].pc \in WorkPCs => fiber[f].task \in Jobs
  BY Parts, FiberRegs DEF CoverInv, FibersOK
<1>2. /\ fiber[f].pc \in {"trigger", "count", "enqueue", "publish"} =>
           /\ Distinct(fiber[f].todo)
           /\ ElementsOf(fiber[f].todo) \subseteq ElementsOf(conts[fiber[f].task])
      /\ \A j \in Jobs : Holds(f, j) /\ ~Fresh(f) => runs[j] = 1
      /\ Graph
  BY DEF Accounting, Counting, OnePlace
<1> DEFINE Moves(loc, prio) ==
             /\ fiber'[f].pc = loc /\ fiber'[f].prio = prio /\ fiber'[f].task = fiber[f].task
             /\ fiber'[f].todo = fiber[f].todo /\ fiber'[f].next = fiber[f].next
\* between two locations that hold the same job and owe the same signals
<1>3. ASSUME NEW loc \in WorkPCs \ {"take", "body"}, Moves(loc, fiber[f].prio),
             fiber[f].pc \in WorkPCs \ {"take", "body"},
             loc \in {"count", "enqueue"} <=> fiber[f].pc \in {"count", "enqueue"},
             \A d, j \in Jobs : d \in deps[j] => (Owes(f, d, j)' <=> Owes(f, d, j)),
             loc \in {"trigger", "count", "enqueue", "publish"} =>
               fiber[f].pc \in {"trigger", "count", "enqueue", "publish"},
             UNCHANGED <<queue, remaining, runs, refused>>,
             \A j \in Jobs : /\ done[j] => done'[j]
                             /\ At(f, "signal") /\ fiber[f].task = j => done'[j]
      PROVE  Accounting'
  <2>1. \A j \in Jobs : /\ Holds(f, j)' => Holds(f, j)
                        /\ Holds(f, j) => Holds(f, j)' \/ runs[j] > 0
                        /\ Carries(f, j)' <=> Carries(f, j)
                        /\ Carries(f, j) => fiber'[f].task = fiber[f].task
    BY <1>3 DEF Holds, Carries, Working, WorkPCs
  <2>2. /\ Fresh(f)' <=> Fresh(f)
        /\ \A p \in Prios : queue[p] # <<>> /\ Sees(f, p) => Sees(f, p)'
        /\ \A j \in Jobs : /\ done[j] => done'[j]
                           /\ At(f, "signal") /\ Holds(f, j) => done'[j]
    BY <1>3 DEF At, Fresh, Sees, Working, WorkPCs, Holds
  <2>3. fiber'[f].pc \in {"trigger", "count", "enqueue", "publish"} =>
           /\ Distinct(fiber'[f].todo)
           /\ ElementsOf(fiber'[f].todo) \subseteq ElementsOf(conts[fiber'[f].task])
    BY <1>2, <1>3
  <2> QED BY <1>3, <2>1, <2>2, <2>3, FiberFrame
\* between two locations that hold no job, or have finished with it
<1>4. ASSUME NEW loc \in {"scan", "missed", "notify", "exited"}, fiber'[f].pc = loc,
             fiber[f].pc \in {"scan", "missed", "notify", "retire"},
             UNCHANGED <<queue, remaining, runs, done, refused>>,
             \A p \in Prios : queue[p] # <<>> /\ Sees(f, p) =>
               \/ Sees(f, p)' \/ \E g \in Fibers \ {f} : Sees(g, p)
               \/ Head(queue[p]) \in submitted
      PROVE  Accounting'
  <2>1. \A j \in Jobs : /\ Holds(f, j)' => Holds(f, j)
                        /\ Holds(f, j) => Holds(f, j)' \/ runs[j] > 0
                        /\ Carries(f, j)' <=> Carries(f, j)
                        /\ Carries(f, j) => fiber'[f].task = fiber[f].task
    BY <1>2, <1>4 DEF Holds, Carries, Working, At, Fresh
  <2>2. /\ Fresh(f)' <=> Fresh(f)
        /\ fiber'[f].pc \notin {"trigger", "count", "enqueue", "publish"}
        /\ \A j \in Jobs : /\ done[j] => done'[j]
                           /\ At(f, "signal") /\ Holds(f, j) => done'[j]
        /\ \A d, j \in Jobs : d \in deps[j] => (Owes(f, d, j)' <=> Owes(f, d, j))
    BY <1>4 DEF At, Fresh, Owes
  <2> QED BY <1>4, <2>1, <2>2, FiberFrame
<1> USE DEF queues, jobVars, history
<1>5. CASE ScanMiss(f)
  <2>1. /\ fiber[f].pc = "scan" /\ fiber'[f].pc \in {"scan", "missed"}
        /\ fiber[f].prio # 2 => fiber'[f].pc = "scan" /\ fiber'[f].prio = fiber[f].prio + 1
        /\ ~HasEntry(fiber[f].prio) /\ f \notin Working
    BY <1>1, <1>5 DEF ScanMiss, LastMiss, At, Regs, Working
  <2>2. \A p \in Prios : Sees(f, p) /\ p # fiber[f].prio => Sees(f, p)'
    BY <1>1, <2>1 DEF Sees, Working, Prios
  <2>3. ASSUME NEW p \in Prios, p = fiber[f].prio, queue[p] # <<>>
        PROVE  Head(queue[p]) \in submitted \/ \E g \in Fibers \ {f} : Sees(g, p)
    <3>1. Unpublished(Head(queue[p]))
      BY <2>1, <2>3 DEF HasEntry
    <3>2. CASE ClientAt("publish") /\ client.job = Head(queue[p])
      BY <3>2 DEF Accounting, Origin
    <3>3. CASE \E g \in Fibers : At(g, "publish")
      <4>1. PICK g \in Fibers : At(g, "publish")
        BY <3>3
      <4>2. g \in Working /\ g # f
        BY <2>1, <4>1 DEF Working, At
      <4> QED BY <4>2 DEF Sees
    <3> QED BY <3>1, <3>2, <3>3 DEF Unpublished
  <2> QED BY <1>4, <1>5, <2>1, <2>2, <2>3 DEF ScanMiss
<1>6. CASE Exit(f) \/ Rescan(f)
  <2>1. fiber[f].pc = "missed" /\ fiber'[f].pc \in {"scan", "exited"}
    BY <1>1, <1>6 DEF Exit, Rescan, At, Regs, MayExit, FiberGoto
  <2>2. \A p \in Prios : ~Sees(f, p)
    BY <2>1 DEF Sees, Working
  <2> QED BY <1>4, <1>6, <2>1, <2>2 DEF Exit, Rescan
<1>14. CASE ReleaseCell(f)
  <2>1. fiber[f].pc = "take" /\ Moves("body", fiber[f].prio)
    BY <1>1, <1>14 DEF ReleaseCell, At, Regs, FiberGoto
  <2>2. \A d, j \in Jobs : Owes(f, d, j)' <=> Owes(f, d, j)
    BY <2>1 DEF Owes, At
  <2>3. \A j \in Jobs : /\ Holds(f, j)' <=> Holds(f, j)
                        /\ Carries(f, j)' <=> Carries(f, j)
                        /\ Carries(f, j) => fiber'[f].task = fiber[f].task
    BY <2>1 DEF Holds, Carries, Working
  <2>4. /\ Fresh(f)' <=> Fresh(f)
        /\ \A p \in Prios : queue[p] # <<>> /\ Sees(f, p) => Sees(f, p)'
        /\ \A j \in Jobs : /\ done[j] => done'[j]
                           /\ At(f, "signal") /\ Holds(f, j) => done'[j]
        /\ fiber'[f].pc \notin {"trigger", "count", "enqueue", "publish"}
    BY <1>14, <2>1 DEF At, Fresh, Sees, Working, ReleaseCell
  <2> QED BY <1>14, <2>2, <2>3, <2>4, FiberFrame DEF ReleaseCell
<1>15. CASE PublishContinuation(f)
  <2>1. /\ fiber[f].pc = "publish" /\ fiber'[f].pc = "trigger"
        /\ fiber'[f].task = fiber[f].task /\ fiber'[f].todo = fiber[f].todo
    BY <1>1, <1>15 DEF PublishContinuation, At, Regs
  <2>2. \A d, j \in Jobs : Owes(f, d, j)' <=> Owes(f, d, j)
    BY <2>1 DEF Owes, At
  <2>3. \A j \in Jobs : /\ Holds(f, j)' <=> Holds(f, j)
                        /\ Carries(f, j)' <=> Carries(f, j)
                        /\ Carries(f, j) => fiber'[f].task = fiber[f].task
    BY <2>1 DEF Holds, Carries, Working
  <2>4. /\ Fresh(f)' <=> Fresh(f)
        /\ \A p \in Prios : queue[p] # <<>> /\ Sees(f, p) => Sees(f, p)'
        /\ \A j \in Jobs : /\ done[j] => done'[j]
                           /\ At(f, "signal") /\ Holds(f, j) => done'[j]
    BY <1>15, <2>1 DEF At, Fresh, Sees, Working, PublishContinuation
  <2>5. Distinct(fiber'[f].todo)
        /\ ElementsOf(fiber'[f].todo) \subseteq ElementsOf(conts[fiber'[f].task])
    BY <1>2, <2>1
  <2> QED BY <1>15, <2>2, <2>3, <2>4, <2>5, FiberFrame DEF PublishContinuation
<1>7. CASE Retire(f)
  <2>1. fiber[f].pc = "retire" /\ fiber'[f].pc \in {"scan", "notify"} /\ fiber'[f].prio = 0
    BY <1>1, <1>7 DEF Retire, At, Regs, Scanning
  <2>2. \A p \in Prios : queue[p] # <<>> /\ Sees(f, p) => Sees(f, p)'
    BY <2>1 DEF Sees, Prios
  <2> QED BY <1>4, <1>7, <2>1, <2>2 DEF Retire
<1>8. CASE Notify(f)
  <2>1. fiber[f].pc = "notify" /\ fiber'[f].pc = "scan" /\ fiber'[f].prio = fiber[f].prio
    BY <1>1, <1>8 DEF Notify, At, Regs, FiberGoto
  <2>2. \A p \in Prios : queue[p] # <<>> /\ Sees(f, p) => Sees(f, p)'
    BY <2>1 DEF Sees, Working
  <2> QED BY <1>4, <1>8, <2>1, <2>2 DEF Notify
<1>9. CASE SignalDone(f)
  <2>1. fiber[f].pc = "signal" /\ Moves("copy", fiber[f].prio)
    BY <1>1, <1>9 DEF SignalDone, At, Regs, FiberGoto
  <2>2. \A d, j \in Jobs : Owes(f, d, j)' <=> Owes(f, d, j)
    BY <2>1 DEF Owes, At
  <2>3. \A j \in Jobs : /\ done[j] => done'[j]
                        /\ At(f, "signal") /\ fiber[f].task = j => done'[j]
    BY <1>1, <1>9 DEF SignalDone, DataOK
  <2> QED BY <1>3, <1>9, <2>1, <2>2, <2>3 DEF SignalDone, WorkPCs
<1>10. CASE LockContinuations(f)
  <2>1. fiber[f].pc = "copy" /\ Moves("copying", fiber[f].prio)
    BY <1>1, <1>10 DEF LockContinuations, At, Regs, FiberGoto
  <2>2. \A d, j \in Jobs : Owes(f, d, j)' <=> Owes(f, d, j)
    BY <2>1 DEF Owes, At
  <2> QED BY <1>3, <1>10, <2>1, <2>2 DEF LockContinuations, WorkPCs, At
<1>11. CASE CountContinuation(f)
  <2>1. fiber[f].pc = "count" /\ Moves("enqueue", fiber[f].prio)
    BY <1>1, <1>11 DEF CountContinuation, At, Regs, FiberGoto
  <2>2. \A d, j \in Jobs : Owes(f, d, j)' <=> Owes(f, d, j)
    BY <2>1 DEF Owes, At
  <2> QED BY <1>3, <1>11, <2>1, <2>2 DEF CountContinuation, WorkPCs, At
<1>12. CASE TriggerEnd(f)
  <2>1. fiber[f].pc = "trigger" /\ Moves("retire", fiber[f].prio) /\ fiber[f].todo = <<>>
    BY <1>1, <1>12 DEF TriggerEnd, At, Regs, FiberGoto
  <2>2. \A d, j \in Jobs : Owes(f, d, j)' <=> Owes(f, d, j)
    BY <2>1, EmptyList DEF Owes, At
  <2> QED BY <1>3, <1>12, <2>1, <2>2 DEF TriggerEnd, WorkPCs, At
<1>13. CASE CopyContinuations(f)
  <2>1. /\ fiber[f].pc = "copying" /\ fiber'[f].pc = "trigger" /\ fiber'[f].task = fiber[f].task
        /\ fiber[f].task \in Jobs
        /\ fiber'[f].todo = conts[fiber[f].task] /\ fiber'[f].next = fiber[f].next
    BY <1>1, <1>13 DEF CopyContinuations, At, Regs, WorkPCs
  <2>2. \A d, j \in Jobs : d \in deps[j] => (Owes(f, d, j)' <=> Owes(f, d, j))
    BY <1>2, <2>1 DEF Owes, At, Graph
  <2>3. \A j \in Jobs : /\ Holds(f, j)' => Holds(f, j)
                        /\ Holds(f, j) => Holds(f, j)' \/ runs[j] > 0
                        /\ Carries(f, j)' <=> Carries(f, j)
                        /\ Carries(f, j) => fiber'[f].task = fiber[f].task
    BY <2>1 DEF Holds, Carries, Working
  <2>4. /\ Fresh(f)' <=> Fresh(f)
        /\ \A p \in Prios : queue[p] # <<>> /\ Sees(f, p) => Sees(f, p)'
        /\ \A j \in Jobs : /\ done[j] => done'[j]
                           /\ At(f, "signal") /\ Holds(f, j) => done'[j]
    BY <1>13, <2>1 DEF At, Fresh, Sees, Working, CopyContinuations
  <2>5. Distinct(fiber'[f].todo)
        /\ ElementsOf(fiber'[f].todo) \subseteq ElementsOf(conts[fiber'[f].task])
    BY <1>2, <2>1 DEF Graph
  <2> QED BY <1>13, <2>2, <2>3, <2>4, <2>5, FiberFrame DEF CopyContinuations
<1> QED
  BY <1>5, <1>6, <1>7, <1>8, <1>9, <1>10, <1>11, <1>12, <1>13, <1>14, <1>15

(* Kept, when a fiber is at work: it will look into every queue.           *)
LEMMA KeptWorking ==
  ASSUME Kept, UNCHANGED <<deps, refused>>, Slack \in Int, Slack' \in Int, Slack' >= Slack,
         \A j \in Jobs : Lost(j)' => Lost(j),
         NEW f \in Fibers, f \in Working'
  PROVE  Kept'
<1>1. \A p \in Prios : Sees(f, p)'
  BY DEF Sees
<1>2. (\E j \in Jobs : Lost(j)') => Slack' > 0
  BY DEF Kept
<1>3. \A j \in Jobs : Lost(j)' => j \in refused'
  BY DEF Kept
<1> QED BY <1>1, <1>2, <1>3 DEF Kept

(* What every step of a fiber leaves to the other fibers and the client.   *)
LEMMA FiberContext ==
  ASSUME CoverInv, NEW f \in Fibers, FiberStep(f)
  PROVE  /\ FibersOK /\ DataOK /\ ClientOK /\ fiber \in [Fibers -> Regs]
         /\ fiber[f].pc \in FiberPCs /\ fiber[f].prio \in Prios /\ fiber[f].todo \in Seq(Jobs)
         /\ fiber[f].pc \in WorkPCs => fiber[f].task \in Jobs
         /\ fiber[f].pc \in {"count", "enqueue", "publish"} => fiber[f].next \in Jobs
         /\ Slack \in Int /\ Slack' \in Int /\ Slack' >= Slack /\ Slack >= 0
         /\ UNCHANGED <<deps, conts, submitted>> /\ ClientSame
         /\ \A g \in Fibers \ {f} :
              /\ fiber'[g] = fiber[g]
              /\ (\A l : At(g, l)' <=> At(g, l)) /\ (Fresh(g)' <=> Fresh(g))
              /\ \A j \in Jobs : /\ Holds(g, j)' <=> Holds(g, j)
                                 /\ Carries(g, j)' <=> Carries(g, j)
              /\ \A d, j \in Jobs : Owes(g, d, j)' <=> Owes(g, d, j)
<1>1. TypeOK /\ Shape /\ TypeOK' /\ FibersOK /\ DataOK /\ ClientOK
  BY FiberTypes, Parts DEF CoverInv
<1>2. (TypeOK => Slack \in Int)'
  BY SlackType, PTL
<1>3. Slack \in Int /\ Slack' \in Int /\ Slack' >= Slack /\ Slack >= 0
  BY <1>1, <1>2, SlackType, SlackOfFiber DEF CoverInv
<1>4. UNCHANGED <<deps, conts, submitted>> /\ ClientSame
  BY <1>1, FiberLeaves
<1>5. \A g \in Fibers \ {f} : fiber'[g] = fiber[g]
  BY <1>1, FiberGoes
<1>6. \A g \in Fibers \ {f} :
        /\ (\A l : At(g, l)' <=> At(g, l)) /\ (Fresh(g)' <=> Fresh(g))
        /\ \A j \in Jobs : (Holds(g, j)' <=> Holds(g, j)) /\ (Carries(g, j)' <=> Carries(g, j))
        /\ \A d, j \in Jobs : Owes(g, d, j)' <=> Owes(g, d, j)
  BY <1>5, Bystanders
<1> QED BY <1>1, <1>3, <1>4, <1>5, <1>6, FiberRegs DEF FibersOK

(* A fiber takes a job from a queue.                                       *)
LEMMA FiberHit ==
  ASSUME CoverInv, Accounting, NEW f \in Fibers, FiberStep(f), ScanHit(f)
  PROVE  Accounting'
<1> DEFINE p == fiber[f].prio
           h == Head(queue[p])
<1>1. /\ FibersOK /\ DataOK /\ fiber \in [Fibers -> Regs] /\ p \in Prios
      /\ Slack \in Int /\ Slack' \in Int /\ Slack' >= Slack
      /\ UNCHANGED <<deps, conts, submitted>> /\ ClientSame
      /\ submitted \subseteq Jobs /\ deps \in [Jobs -> SUBSET Jobs]
  BY FiberContext DEF DataOK
<1>2. \A g \in Fibers \ {f} :
        /\ fiber'[g] = fiber[g]
        /\ (\A l : At(g, l)' <=> At(g, l)) /\ (Fresh(g)' <=> Fresh(g))
        /\ \A j \in Jobs : (Holds(g, j)' <=> Holds(g, j)) /\ (Carries(g, j)' <=> Carries(g, j))
        /\ \A d, j \in Jobs : Owes(g, d, j)' <=> Owes(g, d, j)
  BY FiberContext
<1>3. fiber[f].pc = "scan" /\ fiber'[f].pc = "take" /\ fiber'[f].task = h
  BY <1>1 DEF ScanHit, At, Regs
<1>4. /\ queue'[p] = Tail(queue[p]) /\ \A q \in Prios \ {p} : queue'[q] = queue[q]
      /\ queue[p] \in Seq(Jobs) /\ queue[p] # <<>>
      /\ UNCHANGED <<remaining, runs, done, refused>>
  BY <1>1 DEF ScanHit, ClaimPop, HasEntry, DataOK, jobVars, history
<1>5. /\ h \in Jobs /\ Tail(queue[p]) \in Seq(Jobs)
      /\ ElementsOf(queue[p]) = ElementsOf(Tail(queue[p])) \cup {h}
      /\ Distinct(queue[p]) => Distinct(Tail(queue[p])) /\ h \notin ElementsOf(Tail(queue[p]))
  BY <1>4, ListTail
<1> HIDE DEF p, h
<1>6. \A j \in Jobs : /\ Holds(f, j)' <=> j = h
                      /\ ~Holds(f, j) /\ ~Carries(f, j) /\ ~Carries(f, j)'
                      /\ \A d \in Jobs : ~Owes(f, d, j) /\ ~Owes(f, d, j)'
  BY <1>3 DEF Holds, Carries, Owes, At, Working
<1>7. \A q \in Prios : Distinct(queue[q]) /\ \A j \in ElementsOf(queue[q]) : Priority[j] = q
  BY DEF Accounting, OnePlace
<1>8. \A j \in Jobs : InQueue(j)' <=> InQueue(j) /\ j # h
  BY <1>1, <1>4, <1>5, <1>7 DEF InQueue
<1>9. InQueue(h)
  BY <1>1, <1>5 DEF InQueue
<1>10. \A j \in Jobs : /\ Held(j)' <=> Held(j) \/ j = h
                       /\ Carried(j)' <=> Carried(j)
  BY <1>2, <1>6 DEF Held, Carried
<1>11. \A j \in Jobs : Started(j)' <=> Started(j)
  BY <1>4, <1>8, <1>9, <1>10 DEF Started
<1>12. Graph'
  BY <1>1, GraphFrame DEF Accounting
<1>13. Origin'
  BY <1>1, <1>11, OriginFrame DEF Accounting
<1>14. OnePlace'
  <2>1. runs[h] = 0 /\ ~Held(h) /\ ~Carried(h)
    BY <1>5, <1>9 DEF Accounting, OnePlace
  <2>2. \A q \in Prios : Distinct(queue'[q]) /\ \A j \in ElementsOf(queue'[q]) : Priority[j] = q
    BY <1>4, <1>5, <1>7
  <2>3. \A j \in Jobs : /\ InQueue(j)' => runs'[j] = 0 /\ ~Held(j)' /\ ~Carried(j)'
                        /\ Carried(j)' => runs'[j] = 0 /\ ~Held(j)'
    BY <1>4, <1>8, <1>10, <2>1 DEF Accounting, OnePlace
  <2>4. \A j \in Jobs, g, k \in Fibers :
          (Holds(g, j)' /\ Holds(k, j)') \/ (Carries(g, j)' /\ Carries(k, j)') => g = k
    BY <1>2, <1>6, <2>1 DEF Held, Accounting, OnePlace
  <2>5. \A g \in Fibers, j \in Jobs : Holds(g, j)' =>
          runs'[j] = IF Fresh(g)' THEN 0 ELSE 1
    <3>1. Fresh(f)'
      BY <1>3 DEF Fresh
    <3> QED BY <1>2, <1>4, <1>6, <2>1, <3>1 DEF Accounting, OnePlace
  <2>6. ~At(f, "signal")
    BY <1>3 DEF At
  <2>7. /\ \A j \in Jobs : runs'[j] <= 1
        /\ \A j \in Jobs : runs'[j] > 0 =>
             done'[j] \/ \E g \in Fibers : At(g, "signal")' /\ Holds(g, j)'
    BY <1>2, <1>4, <1>6 DEF Accounting, OnePlace
  <2> QED BY <2>2, <2>3, <2>4, <2>5, <2>7 DEF OnePlace
<1>15. Counting'
  <2>1. ASSUME NEW j \in Jobs PROVE Waiting(j)' = Waiting(j)
    <3>1. \A d \in deps[j] : (\E g \in Fibers : Owes(g, d, j)') <=> \E g \in Fibers : Owes(g, d, j)
      BY <1>1, <1>2, <1>6
    <3> QED BY <1>1, <1>4, <3>1 DEF Waiting
  <2>2. ASSUME NEW g \in Fibers, fiber'[g].pc \in {"trigger", "count", "enqueue", "publish"}
        PROVE  /\ Distinct(fiber'[g].todo)
               /\ ElementsOf(fiber'[g].todo) \subseteq ElementsOf(conts'[fiber'[g].task])
    BY <1>1, <1>2, <1>3, <2>2 DEF Accounting, Counting
  <2>3. ASSUME NEW g \in Fibers, NEW j \in Jobs, Carries(g, j)'
        PROVE  fiber'[g].task \in deps'[j]
    BY <1>1, <1>2, <1>6, <2>3 DEF Accounting, Counting
  <2> QED BY <1>4, <1>11, <2>1, <2>2, <2>3, CountingFrame DEF Accounting
<1>16. Kept'
  <2>1. \A j \in Jobs : Lost(j)' => Lost(j)
    BY <1>1, <1>4, <1>11 DEF Lost
  <2>2. f \in Working'
    BY <1>3 DEF Working
  <2> QED BY <1>1, <1>4, <2>1, <2>2, KeptWorking DEF Accounting
<1> QED BY <1>12, <1>13, <1>14, <1>15, <1>16 DEF Accounting

(* The function of a job returns.                                          *)
LEMMA FiberRuns ==
  ASSUME CoverInv, Accounting, NEW f \in Fibers, FiberStep(f), RunBody(f)
  PROVE  Accounting'
<1> DEFINE h == fiber[f].task
<1>1. /\ FibersOK /\ DataOK /\ fiber \in [Fibers -> Regs]
      /\ fiber[f].pc \in WorkPCs => h \in Jobs
      /\ Slack \in Int /\ Slack' \in Int /\ Slack' >= Slack
      /\ UNCHANGED <<deps, conts, submitted>> /\ ClientSame
      /\ submitted \subseteq Jobs /\ deps \in [Jobs -> SUBSET Jobs] /\ runs \in [Jobs -> Nat]
  BY FiberContext DEF DataOK
<1>2. \A g \in Fibers \ {f} :
        /\ fiber'[g] = fiber[g]
        /\ (\A l : At(g, l)' <=> At(g, l)) /\ (Fresh(g)' <=> Fresh(g))
        /\ \A j \in Jobs : (Holds(g, j)' <=> Holds(g, j)) /\ (Carries(g, j)' <=> Carries(g, j))
        /\ \A d, j \in Jobs : Owes(g, d, j)' <=> Owes(g, d, j)
  BY FiberContext
<1>3. fiber[f].pc = "body" /\ fiber'[f].pc = "signal" /\ fiber'[f].task = h
  BY <1>1 DEF RunBody, At, Regs, FiberGoto
<1>4. /\ h \in Jobs /\ UNCHANGED <<queue, remaining, done, refused>>
      /\ runs'[h] = runs[h] + 1 /\ \A j \in Jobs \ {h} : runs'[j] = runs[j]
  BY <1>1, <1>3 DEF RunBody, queues, jobVars, WorkPCs
<1> HIDE DEF h
<1>5. \A j \in Jobs : /\ Holds(f, j)' <=> j = h
                      /\ Holds(f, j) <=> j = h
                      /\ ~Carries(f, j) /\ ~Carries(f, j)'
                      /\ \A d \in Jobs : ~Owes(f, d, j) /\ (Owes(f, d, j)' <=> d = h)
  BY <1>3 DEF Holds, Carries, Owes, At, Working, h
<1>6. runs[h] = 0 /\ runs'[h] = 1 /\ Held(h)
  <2>1. Fresh(f)
    BY <1>3 DEF Fresh
  <2> QED BY <1>4, <1>5, <2>1 DEF Held, Accounting, OnePlace
<1>7. \A j \in Jobs : /\ InQueue(j)' <=> InQueue(j)
                      /\ Held(j)' <=> Held(j)
                      /\ Carried(j)' <=> Carried(j)
  BY <1>2, <1>4, <1>5 DEF InQueue, Held, Carried
<1>8. \A j \in Jobs : Started(j)' <=> Started(j)
  BY <1>4, <1>6, <1>7 DEF Started
<1>9. Graph'
  BY <1>1, GraphFrame DEF Accounting
<1>10. Origin'
  BY <1>1, <1>8, OriginFrame DEF Accounting
<1>11. OnePlace'
  <2> USE DEF Accounting, OnePlace
  <2>1. \A q \in Prios : Distinct(queue'[q]) /\ \A j \in ElementsOf(queue'[q]) : Priority[j] = q
    BY <1>4
  <2>2. \A j \in Jobs : /\ InQueue(j)' => runs'[j] = 0 /\ ~Held(j)' /\ ~Carried(j)'
                        /\ Carried(j)' => runs'[j] = 0 /\ ~Held(j)'
    BY <1>4, <1>6, <1>7
  <2>3. \A j \in Jobs, g, k \in Fibers :
          (Holds(g, j)' /\ Holds(k, j)') \/ (Carries(g, j)' /\ Carries(k, j)') => g = k
    BY <1>2, <1>5
  <2>4. ~Fresh(f)' /\ At(f, "signal")'
    BY <1>3 DEF At, Fresh
  <2>5. \A g \in Fibers, j \in Jobs : Holds(g, j)' =>
          runs'[j] = IF Fresh(g)' THEN 0 ELSE 1
    BY <1>2, <1>4, <1>5, <1>6, <2>4
  <2>6. \A j \in Jobs : runs'[j] <= 1
    BY <1>4, <1>6
  <2>7. \A j \in Jobs : runs'[j] > 0 =>
          done'[j] \/ \E g \in Fibers : At(g, "signal")' /\ Holds(g, j)'
    BY <1>2, <1>4, <1>5, <2>4
  <2> QED BY <2>1, <2>2, <2>3, <2>5, <2>6, <2>7
<1>12. Counting'
  <2>1. ASSUME NEW j \in Jobs PROVE Waiting(j)' = Waiting(j)
    <3>1. \A d \in deps[j] \ {h} :
            /\ (\E g \in Fibers : Owes(g, d, j)') <=> \E g \in Fibers : Owes(g, d, j)
            /\ runs'[d] = runs[d]
      BY <1>1, <1>2, <1>4, <1>5
    <3>2. \A d \in deps[j] : d = h => runs[d] = 0 /\ \E g \in Fibers : Owes(g, d, j)'
      BY <1>1, <1>5, <1>6
    <3> QED BY <1>1, <1>6, <3>1, <3>2 DEF Waiting
  <2>2. ASSUME NEW g \in Fibers, fiber'[g].pc \in {"trigger", "count", "enqueue", "publish"}
        PROVE  /\ Distinct(fiber'[g].todo)
               /\ ElementsOf(fiber'[g].todo) \subseteq ElementsOf(conts'[fiber'[g].task])
    BY <1>1, <1>2, <1>3, <2>2 DEF Accounting, Counting
  <2>3. ASSUME NEW g \in Fibers, NEW j \in Jobs, Carries(g, j)'
        PROVE  fiber'[g].task \in deps'[j]
    BY <1>1, <1>2, <1>5, <2>3 DEF Accounting, Counting
  <2> QED BY <1>4, <1>8, <2>1, <2>2, <2>3, CountingFrame DEF Accounting
<1>13. Kept'
  <2>1. \A j \in Jobs : Lost(j)' => Lost(j)
    BY <1>1, <1>4, <1>8 DEF Lost
  <2>2. f \in Working'
    BY <1>3 DEF Working
  <2> QED BY <1>1, <1>4, <2>1, <2>2, KeptWorking DEF Accounting
<1> QED BY <1>9, <1>10, <1>11, <1>12, <1>13 DEF Accounting

(* A fiber, done with job d, tells the continuation c.                     *)
LEMMA FiberTriggers ==
  ASSUME CoverInv, Accounting, NEW f \in Fibers, FiberStep(f), TriggerNext(f)
  PROVE  Accounting'
<1>1. /\ FibersOK /\ DataOK /\ ClientOK /\ fiber \in [Fibers -> Regs]
      /\ fiber[f].pc = "trigger" /\ fiber[f].task \in Jobs
      /\ fiber[f].todo \in Seq(Jobs) /\ fiber[f].todo # <<>>
      /\ Slack \in Int /\ Slack' \in Int /\ Slack' >= Slack
      /\ UNCHANGED <<deps, conts, submitted>> /\ ClientSame
      /\ submitted \subseteq Jobs /\ deps \in [Jobs -> SUBSET Jobs] /\ remaining \in [Jobs -> Int]
  BY FiberContext DEF DataOK, TriggerNext, At, WorkPCs
<1>2. \A g \in Fibers \ {f} :
        /\ fiber'[g] = fiber[g]
        /\ (\A l : At(g, l)' <=> At(g, l)) /\ (Fresh(g)' <=> Fresh(g))
        /\ \A j \in Jobs : (Holds(g, j)' <=> Holds(g, j)) /\ (Carries(g, j)' <=> Carries(g, j))
        /\ \A d, j \in Jobs : Owes(g, d, j)' <=> Owes(g, d, j)
  BY FiberContext
<1> DEFINE t == Tail(fiber[f].todo)
<1>3. /\ Head(fiber[f].todo) \in Jobs /\ t \in Seq(Jobs)
      /\ ElementsOf(fiber[f].todo) = ElementsOf(t) \cup {Head(fiber[f].todo)}
      /\ Distinct(fiber[f].todo) => Distinct(t) /\ Head(fiber[f].todo) \notin ElementsOf(t)
  BY <1>1, ListTail
<1>4. PICK c \in Jobs, d \in Jobs : c = Head(fiber[f].todo) /\ d = fiber[f].task
  BY <1>1, <1>3
<1>5. /\ fiber'[f].task = d /\ fiber'[f].todo = t
      /\ remaining[c] = 1 => fiber'[f].pc = "count" /\ fiber'[f].next = c
      /\ remaining[c] # 1 => fiber'[f].pc = "trigger"
      /\ UNCHANGED <<queue, runs, done, refused>>
      /\ remaining'[c] = remaining[c] - 1
      /\ \A j \in Jobs \ {c} : remaining'[j] = remaining[j]
  BY <1>1, <1>4 DEF TriggerNext, Ready, Regs, queues, history
<1> HIDE DEF t
<1>6. /\ Distinct(t) /\ c \notin ElementsOf(t)
      /\ ElementsOf(fiber[f].todo) = ElementsOf(t) \cup {c}
      /\ ElementsOf(fiber[f].todo) \subseteq ElementsOf(conts[d])
  BY <1>1, <1>3, <1>4 DEF Accounting, Counting
<1>7. \A j \in Jobs : /\ Holds(f, j)' <=> j = d
                      /\ Holds(f, j) <=> j = d
                      /\ ~Carries(f, j)
                      /\ Carries(f, j)' <=> j = c /\ remaining[c] = 1
                      /\ \A e \in Jobs : /\ Owes(f, e, j) <=> e = d /\ j \in ElementsOf(t) \cup {c}
                                         /\ Owes(f, e, j)' <=> e = d /\ j \in ElementsOf(t)
  BY <1>1, <1>4, <1>5, <1>6 DEF Holds, Carries, Owes, At, Working
<1>8. ~Fresh(f) /\ ~At(f, "signal") /\ ~Fresh(f)' /\ ~At(f, "signal")'
  BY <1>1, <1>5 DEF At, Fresh
<1>9. runs[d] = 1 /\ Started(d)
  BY <1>7, <1>8 DEF Started, Held, Accounting, OnePlace
\* a job that depends on d is being told, not one the client is wiring up
<1>10. d \in deps[c]
  <2>1. d \in deps[c] \/ (ClientAt("addCount") /\ client.dep = d)
    BY <1>6 DEF Accounting, Graph
  <2>2. ASSUME ClientAt("addCount"), client.dep = d PROVE FALSE
    <3>1. Untouched(d)
      BY <2>2 DEF Accounting, Origin, ClientAt
    <3>2. PICK U \in SUBSET Jobs : d \in U /\ U \cap submitted = {} /\ Closed(U)
      BY <3>1 DEF Untouched, Closed
    <3>3. U \cap Launched # {} /\ Launched \subseteq submitted
      BY <1>9, <3>2 DEF Accounting, Origin, Launched
    <3> QED BY <3>2, <3>3
  <2> QED BY <2>1, <2>2
\* no other fiber has d to tell about
<1>11. \A g \in Fibers \ {f}, j \in Jobs : ~Owes(g, d, j) /\ ~Owes(g, d, j)'
  <2>1. \A g \in Fibers \ {f} : ~Holds(g, d)
    BY <1>7 DEF Accounting, OnePlace
  <2>2. \A g \in Fibers \ {f}, j \in Jobs : ~Owes(g, d, j)
    BY <2>1 DEF Owes, Holds, Working, At
  <2> QED BY <1>2, <2>2
<1>12. /\ Waiting(c)' = Waiting(c) \ {d} /\ d \in Waiting(c)
       /\ \A j \in Jobs \ {c} : Waiting(j)' = Waiting(j)
  <2>1. \A j \in Jobs : \A e \in deps[j] \ {d} :
          (\E g \in Fibers : Owes(g, e, j)') <=> \E g \in Fibers : Owes(g, e, j)
    BY <1>1, <1>2, <1>7
  <2>2. \A j \in Jobs : /\ (\E g \in Fibers : Owes(g, d, j)') <=> j \in ElementsOf(t)
                        /\ (\E g \in Fibers : Owes(g, d, j)) <=> j \in ElementsOf(t) \cup {c}
    BY <1>7, <1>11
  <2>3. \A j \in Jobs : Waiting(j)' = {e \in deps[j] : runs[e] = 0 \/ \E g \in Fibers : Owes(g, e, j)'}
    BY <1>1, <1>5 DEF Waiting
  <2> QED BY <1>6, <1>9, <1>10, <2>1, <2>2, <2>3 DEF Waiting
<1>13. /\ \A j \in Jobs : remaining'[j] = Cardinality(Waiting(j)') /\ remaining[j] \in Nat
       /\ remaining[c] > 0
  <2>1. \A j \in Jobs : remaining[j] = Cardinality(Waiting(j))
    BY DEF Accounting, Counting
  <2>2. ASSUME NEW j \in Jobs
        PROVE  IsFiniteSet(Waiting(j)) /\ Cardinality(Waiting(j)) \in Nat
    <3>1. Waiting(j) \in SUBSET Jobs
      BY <1>1 DEF Waiting
    <3> QED BY <3>1, ConstantsAssumption, FS_Subset, FS_CardinalityType DEF ConstantsAssumption
  <2>3. Cardinality(Waiting(c) \ {d}) = Cardinality(Waiting(c)) - 1
    BY <1>12, <2>2, FS_RemoveElement
  <2>4. Cardinality(Waiting(c)) # 0
    BY <1>12, <2>2, FS_EmptySet
  <2>5. ASSUME NEW j \in Jobs PROVE remaining'[j] = Cardinality(Waiting(j)')
    <3>1. CASE j = c
      <4>1. Waiting(j)' = Waiting(c) \ {d}
        BY <1>12, <3>1
      <4> QED BY <1>5, <2>1, <2>3, <3>1, <4>1
    <3>2. CASE j # c
      BY <1>5, <1>12, <2>1, <3>2
    <3> QED BY <3>1, <3>2
  <2> QED BY <2>1, <2>2, <2>4, <2>5
<1>14. ~Started(c)
  BY <1>13 DEF Accounting, Counting
<1>15. \A j \in Jobs : /\ InQueue(j)' <=> InQueue(j)
                       /\ Held(j)' <=> Held(j)
                       /\ Carried(j)' <=> Carried(j) \/ (j = c /\ remaining[c] = 1)
  BY <1>2, <1>5, <1>7 DEF InQueue, Held, Carried
<1>16. \A j \in Jobs : Started(j)' <=> Started(j) \/ (j = c /\ remaining[c] = 1)
  BY <1>5, <1>15 DEF Started
<1>17. Graph'
  BY <1>1, GraphFrame DEF Accounting
<1>18. Origin'
  <2> USE DEF Accounting, Origin
  <2>1. Launched' = Launched /\ Launched \subseteq Jobs
    BY <1>1 DEF Launched, ClientSame
  <2>2. \A U : Closed(U)' <=> Closed(U)
    BY <1>1 DEF Closed
  <2>3. \A j \in Jobs : Untouched(j)' <=> Untouched(j)
    BY <1>1 DEF Untouched
  <2>4. \A j \in submitted' : deps'[j] = {}
    BY <1>1
  <2>5. \A j \in Launched' : Started(j)'
    BY <1>16, <2>1
  <2>6. \A j \in Jobs : client'.pc \in {"count", "enqueue"} /\ client'.job = j =>
          j \in submitted' /\ ~Started(j)'
    <3>1. c \notin submitted
      BY <1>10
    <3> QED BY <1>1, <1>16, <3>1 DEF ClientSame
  <2>7. ASSUME NEW j \in Jobs, Started(j)', NEW U \in SUBSET Jobs, j \in U, Closed(U)'
        PROVE  U \cap Launched' # {}
    <3>1. CASE Started(j)
      BY <2>1, <2>2, <2>7, <3>1
    <3>2. CASE j = c
      <4>1. d \in U
        BY <1>10, <2>2, <2>7, <3>2 DEF Closed
      <4> QED BY <1>9, <2>1, <2>2, <2>7, <4>1
    <3> QED BY <1>16, <2>7, <3>1, <3>2
  <2>8. \A j \in Jobs : client'.pc \in {"adding", "addCount"} /\ j \in {client'.dep, client'.job} =>
          Untouched(j)'
    BY <1>1, <2>3 DEF ClientSame
  <2>9. client'.pc = "publish" => client'.job \in submitted'
    BY <1>1 DEF ClientSame, ClientAt
  <2> QED BY <2>4, <2>5, <2>6, <2>7, <2>8, <2>9 DEF ClientAt
<1>19. OnePlace'
  <2> USE DEF Accounting, OnePlace
  <2>1. \A q \in Prios : Distinct(queue'[q]) /\ \A j \in ElementsOf(queue'[q]) : Priority[j] = q
    BY <1>5
  <2>2. ~InQueue(c) /\ ~Held(c) /\ ~Carried(c) /\ ~(runs[c] > 0) /\ runs[c] \in Nat
    BY <1>1, <1>14 DEF Started, DataOK
  <2>3. \A j \in Jobs : /\ InQueue(j)' => runs'[j] = 0 /\ ~Held(j)' /\ ~Carried(j)'
                        /\ Carried(j)' => runs'[j] = 0 /\ ~Held(j)'
    BY <1>5, <1>15, <2>2
  <2>4. \A j \in Jobs, g, k \in Fibers :
          (Holds(g, j)' /\ Holds(k, j)') \/ (Carries(g, j)' /\ Carries(k, j)') => g = k
    BY <1>2, <1>7, <2>2 DEF Carried
  <2>5. \A g \in Fibers, j \in Jobs : Holds(g, j)' =>
          runs'[j] = IF Fresh(g)' THEN 0 ELSE 1
    BY <1>2, <1>5, <1>7, <1>8
  <2>6. \A j \in Jobs : runs'[j] <= 1
    BY <1>5
  <2>7. \A j \in Jobs : runs'[j] > 0 =>
          done'[j] \/ \E g \in Fibers : At(g, "signal")' /\ Holds(g, j)'
    BY <1>2, <1>5, <1>8
  <2> QED BY <2>1, <2>3, <2>4, <2>5, <2>6, <2>7
<1>20. Counting'
  <2>1. \A j \in Jobs : Started(j)' => remaining'[j] = 0
    BY <1>5, <1>13, <1>14, <1>16 DEF Accounting, Counting
  <2>2. ASSUME NEW g \in Fibers, fiber'[g].pc \in {"trigger", "count", "enqueue", "publish"}
        PROVE  /\ Distinct(fiber'[g].todo)
               /\ ElementsOf(fiber'[g].todo) \subseteq ElementsOf(conts'[fiber'[g].task])
    <3>1. CASE g = f
      BY <1>1, <1>5, <1>6, <3>1
    <3>2. CASE g # f
      BY <1>1, <1>2, <2>2, <3>2 DEF Accounting, Counting
    <3> QED BY <3>1, <3>2
  <2>3. ASSUME NEW g \in Fibers, NEW j \in Jobs, Carries(g, j)'
        PROVE  fiber'[g].task \in deps'[j]
    <3>1. CASE g = f
      BY <1>1, <1>5, <1>7, <1>10, <2>3, <3>1
    <3>2. CASE g # f
      BY <1>1, <1>2, <2>3, <3>2 DEF Accounting, Counting
    <3> QED BY <3>1, <3>2
  <2> QED BY <1>13, <2>1, <2>2, <2>3 DEF Counting
<1>21. Kept'
  <2>1. \A j \in Jobs : Lost(j)' => Lost(j)
    BY <1>1, <1>5, <1>13, <1>16 DEF Lost
  <2>2. f \in Working'
    BY <1>5 DEF Working
  <2> QED BY <1>1, <1>5, <2>1, <2>2, KeptWorking DEF Accounting
<1> QED BY <1>17, <1>18, <1>19, <1>20, <1>21 DEF Accounting

(* A fiber claims a cell for a continuation.                               *)
LEMMA FiberEnqueues ==
  ASSUME CoverInv, Accounting, NEW f \in Fibers, FiberStep(f), EnqueueContinuation(f)
  PROVE  Accounting'
<1>1. /\ FibersOK /\ DataOK /\ ClientOK /\ fiber \in [Fibers -> Regs]
      /\ fiber[f].pc = "enqueue" /\ fiber[f].task \in Jobs /\ fiber[f].next \in Jobs
      /\ Slack \in Int /\ Slack' \in Int /\ Slack' >= Slack /\ Slack >= 0
      /\ UNCHANGED <<deps, conts, submitted>> /\ ClientSame
      /\ submitted \subseteq Jobs /\ deps \in [Jobs -> SUBSET Jobs]
      /\ queue \in [Prios -> Seq(Jobs)] /\ runs \in [Jobs -> Nat]
      /\ \A j \in Jobs : Priority[j] \in Prios
  BY FiberContext, ConstantsAssumption
  DEF DataOK, EnqueueContinuation, At, WorkPCs, ConstantsAssumption, Prios
<1>2. \A g \in Fibers \ {f} :
        /\ fiber'[g] = fiber[g]
        /\ (\A l : At(g, l)' <=> At(g, l)) /\ (Fresh(g)' <=> Fresh(g))
        /\ \A j \in Jobs : (Holds(g, j)' <=> Holds(g, j)) /\ (Carries(g, j)' <=> Carries(g, j))
        /\ \A d, j \in Jobs : Owes(g, d, j)' <=> Owes(g, d, j)
  BY FiberContext
<1>3. PICK c \in Jobs, d \in Jobs, p \in Prios :
        c = fiber[f].next /\ d = fiber[f].task /\ p = Priority[c]
  BY <1>1
<1>4. /\ fiber'[f].pc = "publish" /\ fiber'[f].task = d /\ fiber'[f].todo = fiber[f].todo
      /\ UNCHANGED <<remaining, runs, done, refused>>
      /\ queue' = [queue EXCEPT ![p] = Append(@, c)]
  BY <1>1, <1>3 DEF EnqueueContinuation, ClaimPush, FiberGoto, Regs, history, jobVars
<1>5. \A j \in Jobs : /\ Holds(f, j)' <=> j = d
                      /\ Holds(f, j) <=> j = d
                      /\ Carries(f, j) <=> j = c
                      /\ ~Carries(f, j)'
                      /\ \A e \in Jobs : Owes(f, e, j)' <=> Owes(f, e, j)
  BY <1>1, <1>3, <1>4 DEF Holds, Carries, Owes, At, Working
<1>6. ~Fresh(f) /\ ~At(f, "signal") /\ ~Fresh(f)' /\ ~At(f, "signal")'
  BY <1>1, <1>4 DEF At, Fresh
<1>7. d \in deps[c]
  BY <1>3, <1>5 DEF Accounting, Counting
<1>8. /\ Carried(c) /\ ~InQueue(c) /\ ~Held(c) /\ runs[c] = 0
      /\ \A g \in Fibers \ {f} : ~Carries(g, c)
  BY <1>5 DEF Carried, Accounting, OnePlace
<1>9. \A j \in Jobs : /\ Held(j)' <=> Held(j)
                      /\ Carried(j)' <=> Carried(j) /\ j # c
  BY <1>2, <1>5, <1>8 DEF Held, Carried
<1>10. \A j \in Jobs : Waiting(j)' = Waiting(j)
  <2>1. \A j \in Jobs : \A e \in deps[j] :
          (\E g \in Fibers : Owes(g, e, j)') <=> \E g \in Fibers : Owes(g, e, j)
    BY <1>1, <1>2, <1>5
  <2> QED BY <1>1, <1>4, <2>1 DEF Waiting
<1>11. Graph'
  BY <1>1, GraphFrame DEF Accounting
<1>12. ASSUME \A j \in Jobs : Started(j)' => Started(j)
       PROVE  Counting'
  <2>1. ASSUME NEW g \in Fibers, fiber'[g].pc \in {"trigger", "count", "enqueue", "publish"}
        PROVE  /\ Distinct(fiber'[g].todo)
               /\ ElementsOf(fiber'[g].todo) \subseteq ElementsOf(conts'[fiber'[g].task])
    BY <1>1, <1>2, <1>3, <1>4, <2>1 DEF Accounting, Counting
  <2>2. ASSUME NEW g \in Fibers, NEW j \in Jobs, Carries(g, j)'
        PROVE  fiber'[g].task \in deps'[j]
    BY <1>1, <1>2, <1>5, <2>2 DEF Accounting, Counting
  <2> QED BY <1>4, <1>10, <1>12, <2>1, <2>2, CountingFrame DEF Accounting
<1>13. /\ queue'[p] = Append(queue[p], c) /\ queue[p] \in Seq(Jobs)
       /\ \A q \in Prios \ {p} : queue'[q] = queue[q]
  BY <1>1, <1>4
<1>14. /\ ElementsOf(queue'[p]) = ElementsOf(queue[p]) \cup {c}
       /\ Distinct(queue[p]) /\ c \notin ElementsOf(queue[p]) => Distinct(queue'[p])
  BY <1>13, ListAppend
<1>15. \A j \in Jobs : InQueue(j)' <=> InQueue(j) \/ j = c
  BY <1>3, <1>13, <1>14 DEF InQueue
<1>16. \A j \in Jobs : Started(j)' <=> Started(j)
  BY <1>4, <1>8, <1>9, <1>15 DEF Started
<1>17. Origin'
  BY <1>1, <1>16, OriginFrame DEF Accounting
<1>18. OnePlace'
  <2> USE DEF Accounting, OnePlace
  <2>1. ASSUME NEW q \in Prios
        PROVE  Distinct(queue'[q]) /\ \A j \in ElementsOf(queue'[q]) : Priority[j] = q
    <3>1. c \notin ElementsOf(queue[p])
      BY <1>3, <1>8 DEF InQueue
    <3> QED BY <1>3, <1>13, <1>14, <3>1
  <2>2. \A j \in Jobs : /\ InQueue(j)' => runs'[j] = 0 /\ ~Held(j)' /\ ~Carried(j)'
                        /\ Carried(j)' => runs'[j] = 0 /\ ~Held(j)'
    BY <1>4, <1>8, <1>9, <1>15
  <2>3. \A j \in Jobs, g, k \in Fibers :
          (Holds(g, j)' /\ Holds(k, j)') \/ (Carries(g, j)' /\ Carries(k, j)') => g = k
    BY <1>2, <1>5
  <2>4. \A g \in Fibers, j \in Jobs : Holds(g, j)' =>
          runs'[j] = IF Fresh(g)' THEN 0 ELSE 1
    BY <1>2, <1>4, <1>5, <1>6
  <2>5. \A j \in Jobs : runs'[j] <= 1
    BY <1>4
  <2>6. \A j \in Jobs : runs'[j] > 0 =>
          done'[j] \/ \E g \in Fibers : At(g, "signal")' /\ Holds(g, j)'
    BY <1>2, <1>4, <1>6
  <2> QED BY <2>1, <2>2, <2>3, <2>4, <2>5, <2>6
<1>19. Counting'
  BY <1>12, <1>16
<1>20. Kept'
  <2>1. \A j \in Jobs : Lost(j)' => Lost(j)
    BY <1>1, <1>4, <1>16 DEF Lost
  <2>2. f \in Working'
    BY <1>4 DEF Working
  <2> QED BY <1>1, <1>4, <2>1, <2>2, KeptWorking DEF Accounting
<1> QED BY <1>11, <1>17, <1>18, <1>19, <1>20 DEF Accounting

(* A continuation is refused, and lost.                                    *)
LEMMA FiberRefused ==
  ASSUME CoverInv, Accounting, NEW f \in Fibers, FiberStep(f), ContinuationRefused(f)
  PROVE  Accounting'
<1>1. /\ FibersOK /\ DataOK /\ ClientOK /\ fiber \in [Fibers -> Regs]
      /\ fiber[f].pc = "enqueue" /\ fiber[f].task \in Jobs /\ fiber[f].next \in Jobs
      /\ Slack \in Int /\ Slack' \in Int /\ Slack' >= Slack /\ Slack >= 0
      /\ UNCHANGED <<deps, conts, submitted>> /\ ClientSame
      /\ submitted \subseteq Jobs /\ deps \in [Jobs -> SUBSET Jobs]
      /\ queue \in [Prios -> Seq(Jobs)] /\ runs \in [Jobs -> Nat]
      /\ \A j \in Jobs : Priority[j] \in Prios
  BY FiberContext, ConstantsAssumption
  DEF DataOK, ContinuationRefused, At, WorkPCs, ConstantsAssumption, Prios
<1>2. \A g \in Fibers \ {f} :
        /\ fiber'[g] = fiber[g]
        /\ (\A l : At(g, l)' <=> At(g, l)) /\ (Fresh(g)' <=> Fresh(g))
        /\ \A j \in Jobs : (Holds(g, j)' <=> Holds(g, j)) /\ (Carries(g, j)' <=> Carries(g, j))
        /\ \A d, j \in Jobs : Owes(g, d, j)' <=> Owes(g, d, j)
  BY FiberContext
<1>3. PICK c \in Jobs, d \in Jobs, p \in Prios :
        c = fiber[f].next /\ d = fiber[f].task /\ p = Priority[c]
  BY <1>1
<1>4. /\ fiber'[f].pc = "trigger" /\ fiber'[f].task = d /\ fiber'[f].todo = fiber[f].todo
      /\ UNCHANGED <<remaining, runs, done, queue>>
      /\ refused' = refused \cup {c}
  BY <1>1, <1>3 DEF ContinuationRefused, Regs, queues, jobVars
<1>5. \A j \in Jobs : /\ Holds(f, j)' <=> j = d
                      /\ Holds(f, j) <=> j = d
                      /\ Carries(f, j) <=> j = c
                      /\ ~Carries(f, j)'
                      /\ \A e \in Jobs : Owes(f, e, j)' <=> Owes(f, e, j)
  BY <1>1, <1>3, <1>4 DEF Holds, Carries, Owes, At, Working
<1>6. ~Fresh(f) /\ ~At(f, "signal") /\ ~Fresh(f)' /\ ~At(f, "signal")'
  BY <1>1, <1>4 DEF At, Fresh
<1>7. d \in deps[c]
  BY <1>3, <1>5 DEF Accounting, Counting
<1>8. /\ Carried(c) /\ ~InQueue(c) /\ ~Held(c) /\ runs[c] = 0
      /\ \A g \in Fibers \ {f} : ~Carries(g, c)
  BY <1>5 DEF Carried, Accounting, OnePlace
<1>9. \A j \in Jobs : /\ Held(j)' <=> Held(j)
                      /\ Carried(j)' <=> Carried(j) /\ j # c
  BY <1>2, <1>5, <1>8 DEF Held, Carried
<1>10. \A j \in Jobs : Waiting(j)' = Waiting(j)
  <2>1. \A j \in Jobs : \A e \in deps[j] :
          (\E g \in Fibers : Owes(g, e, j)') <=> \E g \in Fibers : Owes(g, e, j)
    BY <1>1, <1>2, <1>5
  <2> QED BY <1>1, <1>4, <2>1 DEF Waiting
<1>11. Graph'
  BY <1>1, GraphFrame DEF Accounting
<1>12. ASSUME \A j \in Jobs : Started(j)' => Started(j)
       PROVE  Counting'
  <2>1. ASSUME NEW g \in Fibers, fiber'[g].pc \in {"trigger", "count", "enqueue", "publish"}
        PROVE  /\ Distinct(fiber'[g].todo)
               /\ ElementsOf(fiber'[g].todo) \subseteq ElementsOf(conts'[fiber'[g].task])
    BY <1>1, <1>2, <1>3, <1>4, <2>1 DEF Accounting, Counting
  <2>2. ASSUME NEW g \in Fibers, NEW j \in Jobs, Carries(g, j)'
        PROVE  fiber'[g].task \in deps'[j]
    BY <1>1, <1>2, <1>5, <2>2 DEF Accounting, Counting
  <2> QED BY <1>4, <1>10, <1>12, <2>1, <2>2, CountingFrame DEF Accounting
<1>13. queue' = queue /\ \A j \in Jobs : InQueue(j)' <=> InQueue(j)
  BY <1>4 DEF InQueue
<1>14. \A j \in Jobs : Started(j)' <=> Started(j) /\ j # c
  BY <1>4, <1>8, <1>9, <1>13 DEF Started
<1>15. Origin'
  <2> USE DEF Accounting, Origin
  <2>1. Launched' = Launched /\ Launched \subseteq submitted
    BY <1>1 DEF Launched, ClientSame
  <2>2. \A U : Closed(U)' <=> Closed(U)
    BY <1>1 DEF Closed
  <2>3. \A j \in Jobs : Untouched(j)' <=> Untouched(j)
    BY <1>1 DEF Untouched
  <2>4. \A j \in submitted' : deps'[j] = {}
    BY <1>1
  <2>5. \A j \in Launched' : Started(j)'
    BY <1>1, <1>7, <1>14, <2>1
  <2>6. \A j \in Jobs : client'.pc \in {"count", "enqueue"} /\ client'.job = j =>
          j \in submitted' /\ ~Started(j)'
    BY <1>1, <1>14 DEF ClientSame
  <2>7. \A j \in Jobs : Started(j)' =>
          \A U \in SUBSET Jobs : j \in U /\ Closed(U)' => U \cap Launched' # {}
    BY <1>14, <2>1, <2>2
  <2>8. \A j \in Jobs :
          client'.pc \in {"adding", "addCount"} /\ j \in {client'.dep, client'.job} =>
            Untouched(j)'
    BY <1>1, <2>3 DEF ClientSame
  <2>9. client'.pc = "publish" => client'.job \in submitted'
    BY <1>1 DEF ClientSame, ClientAt
  <2> QED BY <2>4, <2>5, <2>6, <2>7, <2>8, <2>9 DEF ClientAt
<1>16. OnePlace'
  <2>1. \A g \in Fibers, j \in Jobs :
          /\ Holds(g, j)' => Holds(g, j) /\ (Fresh(g)' <=> Fresh(g))
          /\ Carries(g, j)' => Carries(g, j)
    BY <1>2, <1>5, <1>6
  <2>2. \A j \in Jobs : runs[j] > 0 =>
          done'[j] \/ \E g \in Fibers : At(g, "signal")' /\ Holds(g, j)'
    BY <1>2, <1>4, <1>6 DEF Accounting, OnePlace
  <2> QED BY <1>4, <1>13, <2>1, <2>2, OnePlaceFrame DEF Accounting
<1>17. Counting'
  BY <1>12, <1>14
<1>18. Kept'
  <2>1. Slack' > 0
    BY <1>1, SlackOfFiber DEF CoverInv
  <2>2. \A q \in Prios : Sees(f, q)'
    BY <1>4 DEF Sees, Working
  <2>3. \A j \in Jobs : Lost(j)' => j \in refused'
    BY <1>1, <1>4, <1>14 DEF Lost, Accounting, Kept
  <2> QED BY <2>1, <2>2, <2>3 DEF Kept
<1> QED BY <1>11, <1>15, <1>16, <1>17, <1>18 DEF Accounting

(* A step of a fiber keeps the accounts.                                   *)
LEMMA FiberAccounting ==
  ASSUME CoverInv, Accounting, NEW f \in Fibers, FiberStep(f)
  PROVE  Accounting'
BY FiberQuiet, FiberHit, FiberRuns, FiberTriggers, FiberEnqueues, FiberRefused DEF FiberStep

-----------------------------------------------------------------------------
(* Steps of the client while it builds and waits *)

(* What a step of the client leaves to the fibers.                         *)
LEMMA ClientContext ==
  ASSUME CoverInv, ClientStep, fiber' = fiber
  PROVE  /\ FibersOK /\ DataOK /\ ClientOK
         /\ Slack \in Int /\ Slack' \in Int /\ Slack' >= Slack
         /\ \A j \in Jobs : (Held(j)' <=> Held(j)) /\ (Carried(j)' <=> Carried(j))
         /\ \A g \in Fibers :
              /\ (\A l : At(g, l)' <=> At(g, l)) /\ (Fresh(g)' <=> Fresh(g))
              /\ \A j \in Jobs : /\ Holds(g, j)' <=> Holds(g, j)
                                 /\ Carries(g, j)' <=> Carries(g, j)
              /\ \A d, j \in Jobs : Owes(g, d, j)' <=> Owes(g, d, j)
              /\ \A p \in Prios : Sees(g, p)' <=> Sees(g, p)
<1>1. TypeOK /\ Shape /\ TypeOK' /\ FibersOK /\ DataOK /\ ClientOK
  BY ClientTypes, Parts DEF CoverInv
<1>2. (TypeOK => Slack \in Int)'
  BY SlackType, PTL
<1>3. Slack \in Int /\ Slack' \in Int /\ Slack' >= Slack
  BY <1>1, <1>2, SlackType, SlackOfClient DEF CoverInv
<1>4. \A g \in Fibers :
        /\ (\A l : At(g, l)' <=> At(g, l)) /\ (Fresh(g)' <=> Fresh(g))
        /\ \A j \in Jobs : (Holds(g, j)' <=> Holds(g, j)) /\ (Carries(g, j)' <=> Carries(g, j))
        /\ \A d, j \in Jobs : Owes(g, d, j)' <=> Owes(g, d, j)
        /\ \A p \in Prios : Sees(g, p)' <=> Sees(g, p)
  BY DEF Holds, Carries, Owes, Sees, At, Fresh, Working
<1>5. \A j \in Jobs : (Held(j)' <=> Held(j)) /\ (Carried(j)' <=> Carried(j))
  BY <1>4 DEF Held, Carried
<1> QED BY <1>1, <1>3, <1>4, <1>5

(* The head of a queue is a job that has started.                          *)
LEMMA HeadStarted ==
  ASSUME queue \in [Prios -> Seq(Jobs)], NEW p \in Prios, queue[p] # <<>>
  PROVE  Head(queue[p]) \in Jobs /\ Started(Head(queue[p]))
<1>1. /\ queue[p] \in Seq(Jobs) /\ 1 \in DOMAIN queue[p]
      /\ Head(queue[p]) = queue[p][1] /\ queue[p][1] \in Jobs
  OBVIOUS
<1>2. Head(queue[p]) \in ElementsOf(queue[p])
  BY <1>1 DEF ElementsOf
<1> QED BY <1>1, <1>2 DEF Started, InQueue

(* A step that leaves the jobs where they are.                             *)
LEMMA ClientFrame ==
  ASSUME CoverInv, Accounting, ClientStep,
         UNCHANGED <<fiber, queue, remaining, runs, done, deps, conts, refused>>,
         \A j \in Jobs : Started(j) /\ j \in submitted => j \in submitted'
  PROVE  /\ OnePlace' /\ Counting' /\ Kept'
         /\ \A j \in Jobs : Started(j)' <=> Started(j)
<1>1. /\ FibersOK /\ DataOK
      /\ Slack \in Int /\ Slack' \in Int /\ Slack' >= Slack
      /\ \A j \in Jobs : (Held(j)' <=> Held(j)) /\ (Carried(j)' <=> Carried(j))
      /\ \A g \in Fibers :
           /\ (\A l : At(g, l)' <=> At(g, l)) /\ (Fresh(g)' <=> Fresh(g))
           /\ \A j \in Jobs : (Holds(g, j)' <=> Holds(g, j)) /\ (Carries(g, j)' <=> Carries(g, j))
           /\ \A d, j \in Jobs : Owes(g, d, j)' <=> Owes(g, d, j)
           /\ \A p \in Prios : Sees(g, p)' <=> Sees(g, p)
  BY ClientContext
<1>2. \A j \in Jobs : Started(j)' <=> Started(j)
  BY <1>1 DEF Started, InQueue
<1>3. OnePlace'
  <2>1. \A g \in Fibers, j \in Jobs :
          /\ Holds(g, j)' => Holds(g, j) /\ (Fresh(g)' <=> Fresh(g))
          /\ Carries(g, j)' => Carries(g, j)
    BY <1>1
  <2>2. \A j \in Jobs : runs[j] > 0 =>
          done'[j] \/ \E g \in Fibers : At(g, "signal")' /\ Holds(g, j)'
    BY <1>1 DEF Accounting, OnePlace
  <2> QED BY <2>1, <2>2, OnePlaceFrame DEF Accounting
<1>4. Counting'
  <2>1. ASSUME NEW j \in Jobs PROVE Waiting(j)' = Waiting(j)
    <3>1. deps[j] \subseteq Jobs
      BY <1>1 DEF DataOK
    <3> QED BY <1>1, <3>1 DEF Waiting
  <2>2. \A g \in Fibers : fiber'[g].pc \in {"trigger", "count", "enqueue", "publish"} =>
           /\ Distinct(fiber'[g].todo)
           /\ ElementsOf(fiber'[g].todo) \subseteq ElementsOf(conts'[fiber'[g].task])
    BY DEF Accounting, Counting
  <2>3. \A g \in Fibers, j \in Jobs : Carries(g, j)' => fiber'[g].task \in deps'[j]
    BY <1>1 DEF Accounting, Counting
  <2> QED BY <1>2, <2>1, <2>2, <2>3, CountingFrame DEF Accounting
<1>5. Kept'
  <2>1. \A j \in Jobs : Lost(j)' => Lost(j)
    BY <1>2 DEF Lost
  <2>2. \A p \in Prios : queue[p] # <<>> /\ (\E g \in Fibers : Sees(g, p)) =>
          (\E g \in Fibers : Sees(g, p)') \/ Head(queue[p]) \in submitted
    BY <1>1
  <2>3. ASSUME NEW p \in Prios, queue[p] # <<>>, Head(queue[p]) \in submitted
        PROVE  Head(queue[p]) \in submitted'
    BY <1>1, <2>3, HeadStarted DEF DataOK
  <2> QED BY <1>1, <2>1, <2>2, <2>3, KeptFrame DEF Accounting, DataOK
<1> QED BY <1>2, <1>3, <1>4, <1>5

(* The steps that change only the location of the client, or the counter.  *)
LEMMA ClientQuiet ==
  ASSUME CoverInv, Accounting, ClientStep,
         UNCHANGED <<fiber, queue, remaining, runs, done, deps, conts, submitted, refused>>,
         ClientSame
  PROVE  Accounting'
<1>1. OnePlace' /\ Counting' /\ Kept' /\ \A j \in Jobs : Started(j)' <=> Started(j)
  BY ClientFrame
<1>2. submitted \subseteq Jobs
  BY DEF CoverInv, TypeOK
<1> QED BY <1>1, <1>2, GraphFrame, OriginFrame DEF Accounting

(* The client begins to declare that j depends on d.                       *)
LEMMA ClientAddBegin ==
  ASSUME CoverInv, Accounting, NEW d \in Jobs, NEW j \in Jobs, AddBegin(d, j)
  PROVE  Accounting'
<1>1. ClientStep /\ submitted \subseteq Jobs
  BY DEF ClientStep, CoverInv, TypeOK
<1>2. /\ UNCHANGED <<fiber, queue, remaining, runs, done, deps, conts, submitted, refused>>
      /\ client.pc = "build" /\ client' = [pc |-> "adding", job |-> j, dep |-> d]
      /\ Untouched(d) /\ Untouched(j)
  BY DEF AddBegin, ClientAt, queues, jobVars, history
<1>3. OnePlace' /\ Counting' /\ Kept' /\ \A i \in Jobs : Started(i)' <=> Started(i)
  BY <1>1, <1>2, ClientFrame
<1>4. Graph'
  BY <1>2 DEF Accounting, Graph, ClientAt
<1>5. Origin'
  <2>1. Launched' = submitted /\ Launched = submitted
    BY <1>2 DEF Launched
  <2>2. \A U : Closed(U)' <=> Closed(U)
    BY <1>2 DEF Closed
  <2>3. \A i \in Jobs : Untouched(i)' <=> Untouched(i)
    BY <1>2 DEF Untouched
  <2>4. /\ \A i \in submitted' : deps'[i] = {}
        /\ \A i \in Launched' : Started(i)'
        /\ \A i \in Jobs : Started(i)' =>
             \A U \in SUBSET Jobs : i \in U /\ Closed(U)' => U \cap Launched' # {}
    BY <1>1, <1>2, <1>3, <2>1, <2>2 DEF Accounting, Origin
  <2>5. /\ client'.pc = "adding" /\ \A i \in Jobs : i \in {client'.dep, client'.job} => Untouched(i)'
    BY <1>2, <2>3
  <2> QED BY <2>4, <2>5 DEF Origin, ClientAt
<1> QED BY <1>3, <1>4, <1>5 DEF Accounting

(* The client appends the job to the continuations of its dependency.      *)
LEMMA ClientAddContinuation ==
  ASSUME CoverInv, Accounting, AddContinuation
  PROVE  Accounting'
<1>1. ClientStep
  BY DEF ClientStep
<1>2. /\ UNCHANGED <<fiber, queue, remaining, runs, done, deps, submitted, refused>>
      /\ client.pc = "adding" /\ fiber' = fiber
  BY DEF AddContinuation, ClientAt, queues, history
<1>3. /\ FibersOK /\ DataOK /\ ClientOK
      /\ Slack \in Int /\ Slack' \in Int /\ Slack' >= Slack
      /\ \A i \in Jobs : (Held(i)' <=> Held(i)) /\ (Carried(i)' <=> Carried(i))
      /\ \A g \in Fibers :
           /\ (\A l : At(g, l)' <=> At(g, l)) /\ (Fresh(g)' <=> Fresh(g))
           /\ \A i \in Jobs : (Holds(g, i)' <=> Holds(g, i)) /\ (Carries(g, i)' <=> Carries(g, i))
           /\ \A e, i \in Jobs : Owes(g, e, i)' <=> Owes(g, e, i)
           /\ \A p \in Prios : Sees(g, p)' <=> Sees(g, p)
  BY <1>1, <1>2, ClientContext
<1>4. client.dep \in Jobs /\ client.job \in Jobs /\ client.dep \notin deps[client.job]
  BY <1>2, <1>3, ConstantsAssumption DEF ClientOK, ConstantsAssumption
<1>5. PICK d \in Jobs, j \in Jobs : d = client.dep /\ j = client.job
  BY <1>4
<1>6. /\ client'.pc = "addCount" /\ client'.dep = d /\ client'.job = j
      /\ conts'[d] = Append(conts[d], j) /\ conts[d] \in Seq(Jobs)
      /\ \A e \in Jobs \ {d} : conts'[e] = conts[e]
  BY <1>3, <1>5 DEF AddContinuation, ClientGoto, ClientOK, DataOK
<1>7. /\ ElementsOf(conts'[d]) = ElementsOf(conts[d]) \cup {j}
      /\ Distinct(conts[d]) /\ j \notin ElementsOf(conts[d]) => Distinct(conts'[d])
  BY <1>6, ListAppend
<1>8. Graph'
  <2> USE DEF Accounting, Graph
  <2>1. \A i \in Jobs : \A e \in deps'[i] : <<e, i>> \in Edges
    BY <1>2
  <2>2. \A e, i \in Jobs : i \in ElementsOf(conts[e]) <=> e \in deps[i]
    BY <1>2 DEF ClientAt
  <2>3. \A e, i \in Jobs : i \in ElementsOf(conts'[e]) <=> e \in deps'[i] \/ (e = d /\ i = j)
    BY <1>2, <1>6, <1>7, <2>2
  <2>4. \A e \in Jobs : Distinct(conts'[e])
    BY <1>4, <1>5, <1>6, <1>7, <2>2
  <2> QED BY <1>6, <2>1, <2>3, <2>4 DEF ClientAt
<1>9. \A i \in Jobs : Started(i)' <=> Started(i)
  BY <1>2, <1>3 DEF Started, InQueue
<1>10. Origin'
  <2>1. Launched' = submitted /\ Launched = submitted
    BY <1>2, <1>6 DEF Launched
  <2>2. \A U : Closed(U)' <=> Closed(U)
    BY <1>2 DEF Closed
  <2>3. \A i \in Jobs : Untouched(i)' <=> Untouched(i)
    BY <1>2 DEF Untouched
  <2>4. /\ \A i \in submitted' : deps'[i] = {}
        /\ \A i \in Launched' : Started(i)'
        /\ \A i \in Jobs : Started(i)' =>
             \A U \in SUBSET Jobs : i \in U /\ Closed(U)' => U \cap Launched' # {}
    BY <1>2, <1>3, <1>9, <2>1, <2>2 DEF Accounting, Origin, DataOK
  <2>5. client'.pc = "addCount" /\ \A i \in Jobs : i \in {client'.dep, client'.job} => Untouched(i)'
    BY <1>2, <1>5, <1>6, <2>3 DEF Accounting, Origin
  <2> QED BY <2>4, <2>5 DEF Origin, ClientAt
<1>11. OnePlace'
  <2>1. \A g \in Fibers, i \in Jobs :
          /\ Holds(g, i)' => Holds(g, i) /\ (Fresh(g)' <=> Fresh(g))
          /\ Carries(g, i)' => Carries(g, i)
    BY <1>3
  <2>2. \A i \in Jobs : runs[i] > 0 =>
          done'[i] \/ \E g \in Fibers : At(g, "signal")' /\ Holds(g, i)'
    BY <1>2, <1>3 DEF Accounting, OnePlace
  <2> QED BY <1>2, <2>1, <2>2, OnePlaceFrame DEF Accounting
<1>12. Counting'
  <2>1. ASSUME NEW i \in Jobs PROVE Waiting(i)' = Waiting(i)
    <3>1. deps[i] \subseteq Jobs
      BY <1>3 DEF DataOK
    <3> QED BY <1>2, <1>3, <3>1 DEF Waiting
  <2>2. ASSUME NEW g \in Fibers, fiber'[g].pc \in {"trigger", "count", "enqueue", "publish"}
        PROVE  /\ Distinct(fiber'[g].todo)
               /\ ElementsOf(fiber'[g].todo) \subseteq ElementsOf(conts'[fiber'[g].task])
    <3>1. fiber[g].task \in Jobs
      BY <1>2, <1>3, <2>2, FiberRegs DEF WorkPCs
    <3>2. \A e \in Jobs : ElementsOf(conts[e]) \subseteq ElementsOf(conts'[e])
      BY <1>6, <1>7
    <3> QED BY <1>2, <2>2, <3>1, <3>2 DEF Accounting, Counting
  <2>3. \A g \in Fibers, i \in Jobs : Carries(g, i)' => fiber'[g].task \in deps'[i]
    BY <1>2, <1>3 DEF Accounting, Counting
  <2> QED BY <1>2, <1>9, <2>1, <2>2, <2>3, CountingFrame DEF Accounting
<1>13. Kept'
  <2>1. \A i \in Jobs : Lost(i)' => Lost(i)
    BY <1>2, <1>9 DEF Lost
  <2>2. \A p \in Prios : queue[p] # <<>> /\ (\E g \in Fibers : Sees(g, p)) =>
          (\E g \in Fibers : Sees(g, p)') \/ Head(queue[p]) \in submitted
    BY <1>3
  <2> QED BY <1>2, <1>3, <2>1, <2>2, KeptFrame DEF Accounting, DataOK
<1> QED BY <1>8, <1>10, <1>11, <1>12, <1>13 DEF Accounting

(* A job the client may still wire up has not started, nor has any job it  *)
(* depends on.                                                             *)
LEMMA UntouchedIdle ==
  ASSUME Origin, deps \in [Jobs -> SUBSET Jobs], NEW j \in Jobs, Untouched(j)
  PROVE  /\ ~Started(j) /\ j \notin submitted
         /\ \A d \in deps[j] : ~Started(d)
<1>1. PICK U \in SUBSET Jobs : j \in U /\ U \cap submitted = {} /\ Closed(U)
  BY DEF Untouched, Closed
<1>2. Launched \subseteq submitted /\ deps[j] \subseteq U
  BY <1>1 DEF Launched, Closed
<1>3. \A i \in Jobs : Started(i) /\ i \in U => U \cap Launched # {}
  BY <1>1 DEF Origin
<1> QED BY <1>1, <1>2, <1>3

(* The client counts the dependency it has declared.                       *)
LEMMA ClientAddCount ==
  ASSUME CoverInv, Accounting, AddCount
  PROVE  Accounting'
<1>1. ClientStep
  BY DEF ClientStep
<1>2. /\ UNCHANGED <<fiber, queue, runs, done, conts, submitted, refused>>
      /\ client.pc = "addCount"
  BY DEF AddCount, ClientAt, queues
<1>3. /\ FibersOK /\ DataOK /\ ClientOK
      /\ Slack \in Int /\ Slack' \in Int /\ Slack' >= Slack
      /\ \A i \in Jobs : (Held(i)' <=> Held(i)) /\ (Carried(i)' <=> Carried(i))
      /\ \A g \in Fibers :
           /\ (\A l : At(g, l)' <=> At(g, l)) /\ (Fresh(g)' <=> Fresh(g))
           /\ \A i \in Jobs : (Holds(g, i)' <=> Holds(g, i)) /\ (Carries(g, i)' <=> Carries(g, i))
           /\ \A e, i \in Jobs : Owes(g, e, i)' <=> Owes(g, e, i)
           /\ \A p \in Prios : Sees(g, p)' <=> Sees(g, p)
  BY <1>1, <1>2, ClientContext
<1>4. /\ client.dep \in Jobs /\ client.job \in Jobs /\ client.dep \notin deps[client.job]
      /\ <<client.dep, client.job>> \in Edges
  BY <1>2, <1>3, ConstantsAssumption DEF ClientOK, ConstantsAssumption
<1>5. PICK d \in Jobs, j \in Jobs : d = client.dep /\ j = client.job
  BY <1>4
<1>6. /\ client'.pc = "build"
      /\ deps'[j] = deps[j] \cup {d} /\ \A i \in Jobs \ {j} : deps'[i] = deps[i]
      /\ remaining'[j] = remaining[j] + 1 /\ \A i \in Jobs \ {j} : remaining'[i] = remaining[i]
      /\ deps \in [Jobs -> SUBSET Jobs] /\ runs \in [Jobs -> Nat] /\ submitted \subseteq Jobs
      /\ queue \in [Prios -> Seq(Jobs)]
  BY <1>3, <1>5 DEF AddCount, ClientGoto, ClientOK, DataOK
<1>7. Untouched(d) /\ Untouched(j)
  BY <1>2, <1>5 DEF Accounting, Origin
<1>8. ~Started(d) /\ ~Started(j) /\ j \notin submitted /\ runs[d] = 0
  <2>1. ~Started(d) /\ ~Started(j) /\ j \notin submitted
    BY <1>6, <1>7, UntouchedIdle DEF Accounting
  <2> QED BY <1>6, <2>1 DEF Started
<1>9. Graph'
  <2> USE DEF Accounting, Graph
  <2>1. \A i \in Jobs : \A e \in deps'[i] : <<e, i>> \in Edges
    BY <1>4, <1>5, <1>6
  <2>2. \A e, i \in Jobs : i \in ElementsOf(conts[e]) <=> e \in deps[i] \/ (e = d /\ i = j)
    BY <1>2, <1>5 DEF ClientAt
  <2>3. \A e, i \in Jobs : i \in ElementsOf(conts'[e]) <=> e \in deps'[i]
    BY <1>2, <1>6, <2>2
  <2>4. \A e \in Jobs : Distinct(conts'[e])
    BY <1>2
  <2> QED BY <1>6, <2>1, <2>3, <2>4 DEF ClientAt
<1>10. \A i \in Jobs : Started(i)' <=> Started(i)
  BY <1>2, <1>3 DEF Started, InQueue
<1>11. Origin'
  <2>1. Launched' = submitted /\ Launched = submitted
    BY <1>2, <1>6 DEF Launched
  <2>2. \A U \in SUBSET Jobs : Closed(U)' => Closed(U)
    BY <1>6 DEF Closed
  <2>3. /\ \A i \in submitted' : deps'[i] = {}
        /\ \A i \in Launched' : Started(i)'
        /\ \A i \in Jobs : Started(i)' =>
             \A U \in SUBSET Jobs : i \in U /\ Closed(U)' => U \cap Launched' # {}
    BY <1>2, <1>6, <1>8, <1>10, <2>1, <2>2 DEF Accounting, Origin
  <2> QED BY <1>6, <2>3 DEF Origin, ClientAt
<1>12. OnePlace'
  <2>1. \A g \in Fibers, i \in Jobs :
          /\ Holds(g, i)' => Holds(g, i) /\ (Fresh(g)' <=> Fresh(g))
          /\ Carries(g, i)' => Carries(g, i)
    BY <1>3
  <2>2. \A i \in Jobs : runs[i] > 0 =>
          done'[i] \/ \E g \in Fibers : At(g, "signal")' /\ Holds(g, i)'
    BY <1>2, <1>3 DEF Accounting, OnePlace
  <2> QED BY <1>2, <2>1, <2>2, OnePlaceFrame DEF Accounting
<1>13. \A i \in Jobs : remaining[i] = Cardinality(Waiting(i)) /\ remaining[i] \in Nat
                       /\ IsFiniteSet(Waiting(i))
  <2>1. \A i \in Jobs : remaining[i] = Cardinality(Waiting(i))
    BY DEF Accounting, Counting
  <2>2. ASSUME NEW i \in Jobs
        PROVE  IsFiniteSet(Waiting(i)) /\ Cardinality(Waiting(i)) \in Nat
    <3>1. Waiting(i) \in SUBSET Jobs
      BY <1>6 DEF Waiting
    <3> QED BY <3>1, ConstantsAssumption, FS_Subset, FS_CardinalityType DEF ConstantsAssumption
  <2> QED BY <2>1, <2>2
<1>14. Counting'
  <2>1. /\ Waiting(j)' = Waiting(j) \cup {d} /\ d \notin Waiting(j)
        /\ \A i \in Jobs \ {j} : Waiting(i)' = Waiting(i)
    <3>1. \A i \in Jobs, e \in Jobs :
            (\E g \in Fibers : Owes(g, e, i)') <=> \E g \in Fibers : Owes(g, e, i)
      BY <1>3
    <3> QED BY <1>2, <1>4, <1>5, <1>6, <1>8, <3>1 DEF Waiting
  <2>2. Cardinality(Waiting(j) \cup {d}) = Cardinality(Waiting(j)) + 1
    BY <1>13, <2>1, FS_AddElement
  <2>3. ASSUME NEW i \in Jobs PROVE remaining'[i] = Cardinality(Waiting(i)')
    <3>1. CASE i = j
      <4>1. Waiting(i)' = Waiting(j) \cup {d}
        BY <2>1, <3>1
      <4> QED BY <1>6, <1>13, <2>2, <3>1, <4>1
    <3>2. CASE i # j
      BY <1>6, <1>13, <2>1, <3>2
    <3> QED BY <3>1, <3>2
  <2>4. \A i \in Jobs : Started(i)' => remaining'[i] = 0
    BY <1>6, <1>8, <1>10 DEF Accounting, Counting
  <2>5. \A g \in Fibers : fiber'[g].pc \in {"trigger", "count", "enqueue", "publish"} =>
           /\ Distinct(fiber'[g].todo)
           /\ ElementsOf(fiber'[g].todo) \subseteq ElementsOf(conts'[fiber'[g].task])
    BY <1>2 DEF Accounting, Counting
  <2>6. \A g \in Fibers, i \in Jobs : Carries(g, i)' => fiber'[g].task \in deps'[i]
    BY <1>2, <1>3, <1>6 DEF Accounting, Counting
  <2> QED BY <2>3, <2>4, <2>5, <2>6 DEF Counting
<1>15. Kept'
  <2>1. \A i \in Jobs : Lost(i)' => Lost(i)
    BY <1>6, <1>10, <1>13 DEF Lost
  <2>2. ASSUME NEW p \in Prios, NEW i \in ElementsOf(queue'[p]), deps'[i] # {}
        PROVE  (\E f \in Fibers : Sees(f, p)') \/ Head(queue'[p]) \in submitted'
    <3>1. i \in Jobs /\ InQueue(i)
      <4>1. queue[p] \in Seq(Jobs) /\ i \in ElementsOf(queue[p])
        BY <1>2, <1>6, <2>2
      <4>2. ElementsOf(queue[p]) \subseteq Jobs
        BY <4>1, ListType
      <4> QED BY <4>1, <4>2 DEF InQueue
    <3>2. i # j
      BY <1>8, <3>1 DEF Started
    <3> QED BY <1>2, <1>3, <1>6, <2>2, <3>1, <3>2 DEF Accounting, Kept
  <2>3. (\E i \in Jobs : Lost(i)') => Slack' > 0
    BY <1>3, <2>1 DEF Accounting, Kept
  <2>4. \A i \in Jobs : Lost(i)' => i \in refused'
    BY <1>2, <2>1 DEF Accounting, Kept
  <2> QED BY <2>2, <2>3, <2>4 DEF Kept
<1> QED BY <1>9, <1>11, <1>12, <1>14, <1>15 DEF Accounting

(* The client submits a job that waits for nothing, so depends on nothing. *)
LEMMA ClientSubmits ==
  ASSUME CoverInv, Accounting, NEW j \in Jobs, Submit(j)
  PROVE  Accounting'
<1>1. ClientStep /\ deps \in [Jobs -> SUBSET Jobs] /\ runs \in [Jobs -> Nat]
      /\ submitted \subseteq Jobs
      /\ client \in [pc : ClientPCs, job : Jobs \cup {NoJob}, dep : Jobs \cup {NoJob}]
  BY DEF ClientStep, CoverInv, TypeOK
<1>2. /\ UNCHANGED <<fiber, queue, remaining, runs, done, deps, conts, refused>>
      /\ client.pc = "build" /\ client'.pc = "count" /\ client'.job = j
      /\ submitted' = submitted \cup {j} /\ remaining[j] = 0 /\ Untouched(j)
  BY <1>1 DEF Submit, Submittable, ClientAt, queues, jobVars
<1>3. OnePlace' /\ Counting' /\ Kept' /\ \A i \in Jobs : Started(i)' <=> Started(i)
  BY <1>1, <1>2, ClientFrame
<1>4. Graph'
  BY <1>2 DEF Accounting, Graph, ClientAt
<1>5. ~Started(j) /\ j \notin submitted /\ \A d \in deps[j] : ~Started(d)
  BY <1>1, <1>2, UntouchedIdle DEF Accounting
<1>6. deps[j] = {}
  <2>1. Waiting(j) = {}
    <3>1. Waiting(j) \in SUBSET Jobs
      BY <1>1 DEF Waiting
    <3>2. IsFiniteSet(Waiting(j))
      BY <3>1, ConstantsAssumption, FS_Subset DEF ConstantsAssumption
    <3>3. Cardinality(Waiting(j)) = 0
      BY <1>2 DEF Accounting, Counting
    <3> QED BY <3>2, <3>3, FS_EmptySet
  <2>2. \A d \in deps[j] : runs[d] # 0 /\ runs[d] \in Nat
    BY <1>1, <2>1 DEF Waiting
  <2> QED BY <1>5, <2>2 DEF Started
<1>7. Origin'
  <2>1. Launched' = submitted /\ Launched = submitted
    BY <1>2, <1>5 DEF Launched
  <2>2. \A U : Closed(U)' <=> Closed(U)
    BY <1>2 DEF Closed
  <2>3. /\ \A i \in submitted' : deps'[i] = {}
        /\ \A i \in Launched' : Started(i)'
        /\ \A i \in Jobs : Started(i)' =>
             \A U \in SUBSET Jobs : i \in U /\ Closed(U)' => U \cap Launched' # {}
    BY <1>1, <1>2, <1>3, <1>6, <2>1, <2>2 DEF Accounting, Origin
  <2>4. \A i \in Jobs : client'.job = i => i \in submitted' /\ ~Started(i)'
    BY <1>2, <1>3, <1>5
  <2> QED BY <1>2, <2>3, <2>4 DEF Origin, ClientAt
<1> QED BY <1>3, <1>4, <1>7 DEF Accounting

(* The client claims a cell for a submitted job.                           *)
LEMMA ClientEnqueues ==
  ASSUME CoverInv, Accounting, EnqueueSubmission
  PROVE  Accounting'
<1>1. ClientStep
  BY DEF ClientStep
<1>2. /\ UNCHANGED <<fiber, remaining, runs, done, deps, conts, submitted, refused>>
      /\ client.pc = "enqueue"
  BY DEF EnqueueSubmission, ClientAt, jobVars, history
<1>3. /\ FibersOK /\ DataOK /\ ClientOK
      /\ Slack \in Int /\ Slack' \in Int /\ Slack' >= Slack
      /\ \A i \in Jobs : (Held(i)' <=> Held(i)) /\ (Carried(i)' <=> Carried(i))
      /\ \A g \in Fibers :
           /\ (\A l : At(g, l)' <=> At(g, l)) /\ (Fresh(g)' <=> Fresh(g))
           /\ \A i \in Jobs : (Holds(g, i)' <=> Holds(g, i)) /\ (Carries(g, i)' <=> Carries(g, i))
           /\ \A e, i \in Jobs : Owes(g, e, i)' <=> Owes(g, e, i)
           /\ \A p \in Prios : Sees(g, p)' <=> Sees(g, p)
  BY <1>1, <1>2, ClientContext
<1>4. PICK j \in Jobs, p \in Prios : j = client.job /\ p = Priority[j]
  BY <1>2, <1>3, ConstantsAssumption DEF ClientOK, ConstantsAssumption, Prios
<1>5. /\ client'.pc = "publish" /\ client'.job = j
      /\ queue'[p] = Append(queue[p], j) /\ queue[p] \in Seq(Jobs)
      /\ \A q \in Prios \ {p} : queue'[q] = queue[q]
      /\ deps \in [Jobs -> SUBSET Jobs] /\ runs \in [Jobs -> Nat] /\ submitted \subseteq Jobs
      /\ queue \in [Prios -> Seq(Jobs)]
  BY <1>3, <1>4 DEF EnqueueSubmission, ClaimPush, ClientGoto, ClientOK, DataOK
<1>6. j \in submitted /\ ~Started(j) /\ deps[j] = {}
  BY <1>2, <1>4 DEF Accounting, Origin
<1>7. /\ ElementsOf(queue'[p]) = ElementsOf(queue[p]) \cup {j}
      /\ Distinct(queue[p]) /\ j \notin ElementsOf(queue[p]) => Distinct(queue'[p])
  BY <1>5, ListAppend
<1>8. \A i \in Jobs : InQueue(i)' <=> InQueue(i) \/ i = j
  BY <1>5, <1>7 DEF InQueue
<1>9. \A i \in Jobs : Started(i)' <=> Started(i) \/ i = j
  BY <1>2, <1>3, <1>8 DEF Started
<1>10. Graph'
  BY <1>2, <1>5 DEF Accounting, Graph, ClientAt
<1>11. Origin'
  <2>1. Launched' = submitted /\ Launched = submitted \ {j}
    BY <1>2, <1>4, <1>5 DEF Launched
  <2>2. \A U : Closed(U)' <=> Closed(U)
    BY <1>2 DEF Closed
  <2>3. /\ \A i \in submitted' : deps'[i] = {}
        /\ \A i \in Launched' : Started(i)'
    BY <1>2, <1>5, <1>9, <2>1 DEF Accounting, Origin
  <2>4. \A i \in Jobs : Started(i)' =>
          \A U \in SUBSET Jobs : i \in U /\ Closed(U)' => U \cap Launched' # {}
    BY <1>6, <1>9, <2>1, <2>2 DEF Accounting, Origin
  <2>5. client'.pc = "publish" /\ client'.job \in submitted'
    BY <1>2, <1>4, <1>5, <1>6
  <2> QED BY <2>3, <2>4, <2>5 DEF Origin, ClientAt
<1>12. OnePlace'
  <2> USE DEF Accounting, OnePlace
  <2>1. ~InQueue(j) /\ ~Held(j) /\ ~Carried(j) /\ runs[j] = 0
    BY <1>5, <1>6 DEF Started
  <2>2. ASSUME NEW q \in Prios
        PROVE  Distinct(queue'[q]) /\ \A i \in ElementsOf(queue'[q]) : Priority[i] = q
    <3>1. j \notin ElementsOf(queue[p])
      BY <2>1 DEF InQueue
    <3>2. CASE q = p
      BY <1>4, <1>7, <3>1, <3>2
    <3>3. CASE q # p
      BY <1>5, <3>3
    <3> QED BY <3>2, <3>3
  <2>3. \A i \in Jobs : /\ InQueue(i)' => runs'[i] = 0 /\ ~Held(i)' /\ ~Carried(i)'
                        /\ Carried(i)' => runs'[i] = 0 /\ ~Held(i)'
    BY <1>2, <1>3, <1>8, <2>1
  <2>4. \A i \in Jobs, g, k \in Fibers :
          (Holds(g, i)' /\ Holds(k, i)') \/ (Carries(g, i)' /\ Carries(k, i)') => g = k
    BY <1>3
  <2>5. \A g \in Fibers, i \in Jobs : Holds(g, i)' =>
          runs'[i] = IF Fresh(g)' THEN 0 ELSE 1
    BY <1>2, <1>3
  <2>6. \A i \in Jobs : runs'[i] <= 1
    BY <1>2
  <2>7. \A i \in Jobs : runs'[i] > 0 =>
          done'[i] \/ \E g \in Fibers : At(g, "signal")' /\ Holds(g, i)'
    BY <1>2, <1>3
  <2> QED BY <2>2, <2>3, <2>4, <2>5, <2>6, <2>7
<1>13. Counting'
  <2>1. \A i \in Jobs : Waiting(i)' = Waiting(i)
    <3>1. \A i \in Jobs, e \in Jobs :
            (\E g \in Fibers : Owes(g, e, i)') <=> \E g \in Fibers : Owes(g, e, i)
      BY <1>3
    <3> QED BY <1>2, <1>5, <3>1 DEF Waiting
  <2>2. remaining[j] = 0
    <3>1. Waiting(j) = {}
      BY <1>6 DEF Waiting
    <3> QED BY <3>1, FS_EmptySet DEF Accounting, Counting
  <2>3. \A i \in Jobs : remaining'[i] = Cardinality(Waiting(i)') /\ (Started(i)' => remaining'[i] = 0)
    BY <1>2, <1>9, <2>1, <2>2 DEF Accounting, Counting
  <2>4. \A g \in Fibers : fiber'[g].pc \in {"trigger", "count", "enqueue", "publish"} =>
           /\ Distinct(fiber'[g].todo)
           /\ ElementsOf(fiber'[g].todo) \subseteq ElementsOf(conts'[fiber'[g].task])
    BY <1>2 DEF Accounting, Counting
  <2>5. \A g \in Fibers, i \in Jobs : Carries(g, i)' => fiber'[g].task \in deps'[i]
    BY <1>2, <1>3 DEF Accounting, Counting
  <2> QED BY <2>3, <2>4, <2>5 DEF Counting
<1>14. Kept'
  <2>1. \A i \in Jobs : Lost(i)' => Lost(i)
    BY <1>2, <1>9 DEF Lost
  <2>2. ASSUME NEW q \in Prios, NEW i \in ElementsOf(queue'[q]), deps'[i] # {}
        PROVE  (\E f \in Fibers : Sees(f, q)') \/ Head(queue'[q]) \in submitted'
    <3>1. i \in ElementsOf(queue[q])
      BY <1>2, <1>5, <1>6, <1>7, <2>2
    <3>2. queue[q] \in Seq(Jobs) /\ queue[q] # <<>>
      BY <1>5, <3>1, EmptyList
    <3>3. Head(queue'[q]) = Head(queue[q])
      <4>1. CASE q = p
        <5>1. Len(queue[q]) >= 1 /\ Append(queue[q], j)[1] = queue[q][1]
          BY <3>2, <1>4
        <5>2. Append(queue[q], j) \in Seq(Jobs) /\ Append(queue[q], j) # <<>>
          BY <3>2, <1>4
        <5> QED BY <1>5, <3>2, <4>1, <5>1, <5>2
      <4>2. CASE q # p
        BY <1>5, <4>2
      <4> QED BY <4>1, <4>2
    <3>4. (\E f \in Fibers : Sees(f, q)) \/ Head(queue[q]) \in submitted
      BY <1>2, <2>2, <3>1 DEF Accounting, Kept
    <3> QED BY <1>2, <1>3, <3>3, <3>4
  <2>3. (\E i \in Jobs : Lost(i)') => Slack' > 0
    BY <1>3, <2>1 DEF Accounting, Kept
  <2>4. \A i \in Jobs : Lost(i)' => i \in refused'
    BY <1>2, <2>1 DEF Accounting, Kept
  <2> QED BY <2>2, <2>3, <2>4 DEF Kept
<1> QED BY <1>10, <1>11, <1>12, <1>13, <1>14 DEF Accounting

(* The client hands the cell over.                                         *)
LEMMA ClientPublishes ==
  ASSUME CoverInv, Accounting, PublishSubmission
  PROVE  Accounting'
<1>1. /\ ClientStep /\ submitted \subseteq Jobs
      /\ client \in [pc : ClientPCs, job : Jobs \cup {NoJob}, dep : Jobs \cup {NoJob}]
  BY DEF ClientStep, CoverInv, TypeOK
<1>2. /\ UNCHANGED <<fiber, queue, remaining, runs, done, deps, conts, submitted, refused>>
      /\ client.pc = "publish" /\ client'.pc = "build"
  BY <1>1 DEF PublishSubmission, ClientAt, ClientGoto, queues, jobVars, history
<1>3. OnePlace' /\ Counting' /\ Kept' /\ \A i \in Jobs : Started(i)' <=> Started(i)
  BY <1>1, <1>2, ClientFrame
<1>4. Graph'
  BY <1>2 DEF Accounting, Graph, ClientAt
<1>5. Origin'
  <2>1. Launched' = Launched /\ Launched \subseteq Jobs
    BY <1>1, <1>2 DEF Launched
  <2>2. \A U : Closed(U)' <=> Closed(U)
    BY <1>2 DEF Closed
  <2>3. /\ \A i \in submitted' : deps'[i] = {}
        /\ \A i \in Launched' : Started(i)'
        /\ \A i \in Jobs : Started(i)' =>
             \A U \in SUBSET Jobs : i \in U /\ Closed(U)' => U \cap Launched' # {}
    BY <1>2, <1>3, <2>1, <2>2 DEF Accounting, Origin
  <2> QED BY <1>2, <2>3 DEF Origin, ClientAt
<1> QED BY <1>3, <1>4, <1>5 DEF Accounting

(* The push of a submitted job is refused.                                 *)
LEMMA ClientRefused ==
  ASSUME CoverInv, Accounting, SubmissionRefused
  PROVE  Accounting'
<1>1. /\ ClientStep /\ submitted \subseteq Jobs
      /\ client \in [pc : ClientPCs, job : Jobs \cup {NoJob}, dep : Jobs \cup {NoJob}]
  BY DEF ClientStep, CoverInv, TypeOK
<1>2. /\ UNCHANGED <<fiber, queue, remaining, runs, done, deps, conts, refused>>
      /\ client.pc = "enqueue"
      /\ \/ client'.pc = "count" /\ client'.job = client.job /\ client'.dep = client.dep
            /\ submitted' = submitted
         \/ client'.pc = "build" /\ submitted' = submitted \ {client.job}
  BY <1>1 DEF SubmissionRefused, ClientAt, ClientGoto, queues, jobVars
<1>3. CASE client'.pc = "count" /\ client'.job = client.job /\ client'.dep = client.dep
           /\ submitted' = submitted
  BY <1>1, <1>2, <1>3, ClientQuiet DEF ClientSame
<1>4. CASE client'.pc = "build" /\ submitted' = submitted \ {client.job}
  <2>1. OnePlace' /\ Counting' /\ Kept' /\ \A i \in Jobs : Started(i)' <=> Started(i)
    <3>1. \A i \in Jobs : Started(i) /\ i \in submitted => i \in submitted'
      BY <1>2, <1>4 DEF Accounting, Origin
    <3> QED BY <1>1, <1>2, <3>1, ClientFrame
  <2>2. Graph'
    BY <1>2, <1>4 DEF Accounting, Graph, ClientAt
  <2>3. Origin'
    <3>1. Launched' = Launched /\ Launched \subseteq Jobs
      BY <1>1, <1>2, <1>4 DEF Launched
    <3>2. \A U : Closed(U)' <=> Closed(U)
      BY <1>2 DEF Closed
    <3>3. /\ \A i \in submitted' : deps'[i] = {}
          /\ \A i \in Launched' : Started(i)'
          /\ \A i \in Jobs : Started(i)' =>
               \A U \in SUBSET Jobs : i \in U /\ Closed(U)' => U \cap Launched' # {}
      BY <1>2, <1>4, <2>1, <3>1, <3>2 DEF Accounting, Origin
    <3> QED BY <1>4, <3>3 DEF Origin, ClientAt
  <2> QED BY <2>1, <2>2, <2>3 DEF Accounting
<1> QED BY <1>2, <1>3, <1>4

-----------------------------------------------------------------------------
(* Nothing left, and starting over *)

(* Settled is about the fibers and jobs, not about the client.             *)
LEMMA SettledFrame ==
  ASSUME Settled, UNCHANGED <<queue, inflight, fiber, runs, done, deps, remaining, submitted>>
  PROVE  Settled'
BY DEF Settled, Working, Due

(* When all is done, the fibers only look into empty queues, or exit.      *)
LEMMA SettledFiber ==
  ASSUME CoverInv, Settled, NEW f \in Fibers, FiberStep(f)
  PROVE  Settled'
<1>1. /\ FibersOK /\ fiber[f].prio \in Prios /\ fiber[f].pc \in FiberPCs
      /\ \A g \in Fibers \ {f} : fiber'[g] = fiber[g]
  BY FiberContext
<1>2. fiber[f].pc \notin WorkPCs /\ queue[fiber[f].prio] = <<>>
  BY <1>1 DEF Settled, Working, WorkPCs
<1>3. fiber[f].pc \in {"scan", "missed", "notify", "exited"}
  BY <1>1, <1>2 DEF FiberPCs, WorkPCs
<1>4. ScanMiss(f) \/ Exit(f) \/ Rescan(f) \/ Notify(f)
  BY <1>1, <1>2, <1>3, FiberGoes DEF FiberStep, ScanHit, ClaimPop, HasEntry
<1>5. fiber'[f].pc \in {"scan", "missed", "exited"}
  BY <1>1, <1>4, FiberGoes
<1>6. Working' = {}
  BY <1>1, <1>5 DEF Settled, Working
<1>7. UNCHANGED <<queue, inflight, runs, done, deps, remaining, submitted>>
  BY <1>4 DEF ScanMiss, Exit, Rescan, Notify, queues, jobVars, history
<1> QED BY <1>6, <1>7 DEF Settled, Due

(* waitUntilAllTasksDone finds the counter at zero: nothing is left.       *)
LEMMA WaitSettles ==
  ASSUME CoverInv, Accounting, client.pc = "waitAll", inflight = 0
  PROVE  Settled
<1>1. /\ TypeOK /\ Slack >= 0 /\ queue \in [Prios -> Seq(Jobs)]
      /\ deps \in [Jobs -> SUBSET Jobs] /\ runs \in [Jobs -> Nat]
  BY DEF CoverInv, TypeOK
<1>2. Queued = 0 /\ Cardinality(Working) = 0 /\ Slack = 0
  BY <1>1, SlackType DEF Slack
<1>3. Working = {}
  <2>1. IsFiniteSet(Working)
    BY ConstantsAssumption, FS_Subset DEF ConstantsAssumption, Working
  <2> QED BY <1>2, <2>1, FS_EmptySet
<1>4. \A p \in Prios : queue[p] = <<>>
  <2>1. LenOf(0) = 0 /\ LenOf(1) = 0 /\ LenOf(2) = 0
    BY <1>1, <1>2, QueuedSum
  <2>2. \A p \in Prios : LenOf(p) = 0
    BY <2>1 DEF Prios
  <2>3. \A p \in Prios : queue[p] \in Seq(Jobs) /\ Len(queue[p]) = 0
    BY <1>1, <2>2 DEF LenOf
  <2> QED BY <2>3, EmptySeq
<1>5. \A j \in Jobs : /\ ~InQueue(j) /\ ~Held(j) /\ ~Carried(j)
                      /\ \A f \in Fibers : ~Holds(f, j) /\ \A d \in Jobs : ~Owes(f, d, j)
  <2>1. \A f \in Fibers : fiber[f].pc \notin WorkPCs
    BY <1>3 DEF Working, WorkPCs
  <2> QED BY <1>3, <1>4, <2>1, EmptyList
          DEF InQueue, Held, Carried, Holds, Carries, Owes, At, WorkPCs
<1>6. \A j \in Jobs : Started(j) => runs[j] > 0
  BY <1>5 DEF Started
<1>7. \A j \in Jobs : (\A d \in deps[j] : runs[d] > 0) => Waiting(j) = {} /\ remaining[j] = 0
  <2>1. \A j \in Jobs : (\A d \in deps[j] : runs[d] > 0) => Waiting(j) = {}
    BY <1>1, <1>5 DEF Waiting
  <2> QED BY <2>1, FS_EmptySet DEF Accounting, Counting
<1>8. ASSUME NEW j \in Jobs
      PROVE  /\ runs[j] <= 1
             /\ runs[j] > 0 => done[j]
             /\ Due(j) => runs[j] > 0
             /\ deps[j] = {} => remaining[j] = 0
  <2>1. runs[j] <= 1 /\ (runs[j] > 0 => done[j])
    BY <1>5 DEF Accounting, OnePlace
  <2>2. j \in submitted => runs[j] > 0
    BY <1>6 DEF Accounting, Origin, Launched
  <2>3. ~Lost(j)
    BY <1>2 DEF Accounting, Kept
  <2>4. deps[j] # {} /\ (\A d \in deps[j] : runs[d] > 0) => runs[j] > 0
    BY <1>6, <1>7, <2>3 DEF Lost
  <2> QED BY <1>7, <2>1, <2>2, <2>4 DEF Due
<1> QED BY <1>3, <1>4, <1>8 DEF Settled

(* reset, one job after the other.                                         *)
LEMMA SettledReset ==
  ASSUME CoverInv, Settled, ResetSignal \/ ResetFresh
  PROVE  Settled'
<1>1. /\ client.job \in Jobs /\ runs \in [Jobs -> Nat] /\ remaining \in [Jobs -> Int]
      /\ done \in [Jobs -> BOOLEAN] /\ deps \in [Jobs -> SUBSET Jobs]
  BY DEF CoverInv, TypeOK, Shape, ResetSignal, ResetFresh, ClientAt
<1>2. UNCHANGED <<queue, inflight, fiber>>
  BY DEF ResetSignal, ResetFresh, queues
<1>3. Working' = {}
  BY <1>2 DEF Settled, Working
<1>4. CASE ResetSignal
  <2>1. /\ UNCHANGED <<runs, deps, remaining, submitted>>
        /\ \A j \in Jobs : done[j] => done'[j]
    BY <1>1, <1>4 DEF ResetSignal, history
  <2> QED BY <1>2, <1>3, <2>1 DEF Settled, Due
<1>5. CASE ResetFresh
  <2>1. PICK i \in Jobs : i = client.job
    BY <1>1
  <2>2. /\ done'[i] = FALSE /\ remaining'[i] = 0 /\ deps'[i] = {} /\ runs'[i] = 0
        /\ \A j \in Jobs \ {i} : /\ done'[j] = done[j] /\ remaining'[j] = remaining[j]
                                 /\ deps'[j] = deps[j] /\ runs'[j] = runs[j]
        /\ submitted' = submitted \ {i}
    BY <1>1, <1>5, <2>1 DEF ResetFresh
  <2>3. ~Due(i)'
    BY <2>2 DEF Due
  <2>4. ASSUME NEW j \in Jobs \ {i}, Due(j)' PROVE Due(j)
    <3>1. deps'[j] = deps[j] /\ deps[j] \subseteq Jobs
      BY <1>1, <2>2
    <3>2. \A d \in deps[j] : runs'[d] > 0 => runs[d] > 0
      BY <2>2, <3>1
    <3> QED BY <2>2, <2>4, <3>1, <3>2 DEF Due
  <2>5. ASSUME NEW j \in Jobs
        PROVE  /\ runs'[j] <= 1
               /\ runs'[j] > 0 => done'[j]
               /\ Due(j)' => runs'[j] > 0
               /\ deps'[j] = {} => remaining'[j] = 0
    <3>1. CASE j = i
      BY <2>2, <2>3, <3>1
    <3>2. CASE j # i
      BY <2>2, <2>4, <3>2 DEF Settled
    <3> QED BY <3>1, <3>2
  <2> QED BY <1>2, <1>3, <2>5 DEF Settled
<1> QED BY <1>4, <1>5

(* Nothing is submitted, declared, queued or run.                          *)
Blank ==
  /\ \A p \in Prios : queue[p] = <<>>
  /\ Working = {} /\ submitted = {} /\ client.pc = "build"
  /\ \A j \in Jobs : deps[j] = {} /\ conts[j] = <<>> /\ runs[j] = 0 /\ remaining[j] = 0

(* Then there is nothing to account for.                                   *)
LEMMA BlankAccounts == Blank => Accounting
<1> SUFFICES ASSUME Blank PROVE Accounting
  OBVIOUS
<1>1. \A f \in Fibers : fiber[f].pc \notin WorkPCs
  BY DEF Blank, Working, WorkPCs
<1>2. \A j \in Jobs : /\ ~InQueue(j) /\ ~Held(j) /\ ~Carried(j) /\ ~Started(j)
                      /\ \A f \in Fibers : ~Holds(f, j) /\ ~Carries(f, j)
  BY <1>1, EmptyList
  DEF Blank, InQueue, Held, Carried, Started, Holds, Carries, WorkPCs
<1>3. Graph
  BY EmptyList DEF Blank, Graph, ClientAt
<1>4. Launched = {}
  BY DEF Blank, Launched
<1>5. Origin
  BY <1>2, <1>4 DEF Blank, Origin, ClientAt
<1>6. OnePlace
  BY <1>2, EmptyList DEF Blank, OnePlace
<1>7. Counting
  <2>1. \A j \in Jobs : Waiting(j) = {}
    BY DEF Blank, Waiting
  <2>2. \A f \in Fibers : fiber[f].pc \notin {"trigger", "count", "enqueue", "publish"}
    BY <1>1 DEF WorkPCs
  <2> QED BY <1>2, <2>1, <2>2, FS_EmptySet DEF Blank, Counting
<1>8. Kept
  BY EmptyList DEF Blank, Kept, Lost
<1> QED BY <1>3, <1>5, <1>6, <1>7, <1>8 DEF Accounting

-----------------------------------------------------------------------------
(* The scheduler *)

(* A step of the client keeps the invariant.                               *)
LEMMA ClientSched ==
  ASSUME ~EarlyReset, SchedInv, CoverInv', ClientStep
  PROVE  SchedInv'
<1> DEFINE Over == {"waitedAll", "resetSignal", "resetFresh", "joining", "joined"}
<1>1. /\ CoverInv
      /\ client \in [pc : ClientPCs, job : Jobs \cup {NoJob}, dep : Jobs \cup {NoJob}]
      /\ client = [client EXCEPT !.pc = client.pc] /\ NoJob \notin Jobs
  BY ConstantsAssumption DEF SchedInv, CoverInv, TypeOK, ConstantsAssumption
<1>2. /\ client.pc \in {"resetSignal", "resetFresh"} => client.dep = NoJob
      /\ client.pc \in {"waitedAll", "resetSignal", "resetFresh"} => Settled
      /\ client.pc \in {"joining", "joined"} => Accounting \/ Settled
      /\ client.pc \notin Over => Accounting
  BY DEF SchedInv
<1>3. ASSUME client'.pc \notin Over, Accounting' PROVE SchedInv'
  BY <1>3 DEF SchedInv
<1> USE DEF ClientAt, ClientGoto, queues, jobVars, history
<1>4. ASSUME NEW d \in Jobs, NEW j \in Jobs, AddBegin(d, j) PROVE SchedInv'
  <2>1. client.pc = "build" /\ client'.pc = "adding"
    BY <1>4 DEF AddBegin
  <2> QED BY <1>1, <1>2, <1>3, <1>4, <2>1, ClientAddBegin
<1>5. CASE AddContinuation
  <2>1. client.pc = "adding" /\ client'.pc = "addCount"
    BY <1>1, <1>5 DEF AddContinuation
  <2> QED BY <1>1, <1>2, <1>3, <1>5, <2>1, ClientAddContinuation
<1>6. CASE AddCount
  <2>1. client.pc = "addCount" /\ client'.pc = "build"
    BY <1>1, <1>6 DEF AddCount
  <2> QED BY <1>1, <1>2, <1>3, <1>6, <2>1, ClientAddCount
<1>7. ASSUME NEW j \in Jobs, Submit(j) PROVE SchedInv'
  <2>1. client.pc = "build" /\ client'.pc = "count"
    BY <1>1, <1>7 DEF Submit
  <2> QED BY <1>1, <1>2, <1>3, <1>7, <2>1, ClientSubmits
<1>8. CASE EnqueueSubmission
  <2>1. client.pc = "enqueue" /\ client'.pc = "publish"
    BY <1>1, <1>8 DEF EnqueueSubmission
  <2> QED BY <1>1, <1>2, <1>3, <1>8, <2>1, ClientEnqueues
<1>9. CASE SubmissionRefused
  <2>1. client.pc = "enqueue" /\ client'.pc \in {"count", "build"}
    BY <1>1, <1>9 DEF SubmissionRefused
  <2> QED BY <1>1, <1>2, <1>3, <1>9, <2>1, ClientRefused
\* the steps of the client that only move it on, or count
<1>10. CASE CountSubmission \/ WaitAllBegin \/ WaitAllSleep \/ WaitJobEnd \/ WaitJobGoOn
            \/ (\E j \in Jobs : WaitJobBegin(j)) \/ (WaitAllTest /\ inflight # 0)
  <2>1. /\ client.pc \notin Over /\ client'.pc \notin Over /\ ClientSame
        /\ UNCHANGED <<fiber, queue, remaining, runs, done, deps, conts, submitted, refused>>
    BY <1>1, <1>10
    DEF CountSubmission, WaitAllBegin, WaitAllSleep, WaitAllTest, WaitJobEnd, WaitJobGoOn,
        WaitJobBegin, ClientSame
  <2> QED BY <1>1, <1>2, <1>3, <2>1, ClientQuiet
<1>11. CASE WaitAllTest /\ inflight = 0
  <2>1. /\ client.pc = "waitAll" /\ client'.pc = "waitedAll"
        /\ UNCHANGED <<queue, inflight, fiber, runs, done, deps, remaining, submitted>>
    BY <1>1, <1>11 DEF WaitAllTest
  <2>2. Settled
    BY <1>1, <1>2, <1>11, <2>1, WaitSettles
  <2>3. Settled'
    BY <2>1, <2>2, SettledFrame
  <2> QED BY <2>1, <2>3 DEF SchedInv
<1>12. ASSUME NEW j \in Jobs, ResetClear(j) PROVE SchedInv'
  <2>1. /\ client.pc = "waitedAll" /\ client'.pc = "resetSignal" /\ client'.dep = NoJob
        /\ UNCHANGED <<queue, inflight, fiber, runs, done, deps, remaining, submitted>>
    BY <1>12 DEF ResetClear
  <2>2. Settled'
    BY <1>2, <2>1, SettledFrame
  <2> QED BY <2>1, <2>2 DEF SchedInv
<1>13. CASE ResetSignal
  <2>1. client.pc = "resetSignal" /\ client'.pc = "resetFresh" /\ client'.dep = client.dep
    BY <1>1, <1>13 DEF ResetSignal
  <2>2. Settled'
    BY <1>1, <1>2, <1>13, <2>1, SettledReset
  <2> QED BY <1>2, <2>1, <2>2 DEF SchedInv
<1>14. CASE ResetFresh
  <2>1. client.pc = "resetFresh" /\ client'.pc = "waitedAll"
    BY <1>1, <1>2, <1>14 DEF ResetFresh
  <2>2. Settled'
    BY <1>1, <1>2, <1>14, <2>1, SettledReset
  <2> QED BY <2>1, <2>2 DEF SchedInv
<1>15. CASE StartOver
  <2>1. /\ client.pc = "waitedAll" /\ client'.pc = "build" /\ \A j \in Jobs : ~Used(j)
        /\ UNCHANGED <<queue, fiber, conts, remaining, deps, submitted, runs>>
    BY <1>1, <1>15 DEF StartOver
  <2>2. Settled /\ submitted \subseteq Jobs /\ runs \in [Jobs -> Nat]
    BY <1>1, <1>2, <2>1 DEF CoverInv, TypeOK
  <2>3. \A j \in Jobs : j \notin submitted /\ deps[j] = {} /\ conts[j] = <<>> /\ ~done[j]
    BY <2>1 DEF Used
  <2>4. submitted = {} /\ \A j \in Jobs : runs[j] = 0 /\ remaining[j] = 0
    BY <2>2, <2>3 DEF Settled
  <2>5. Blank'
    BY <2>1, <2>2, <2>3, <2>4 DEF Blank, Settled, Working
  <2>6. (Blank => Accounting)'
    BY BlankAccounts, PTL
  <2> QED BY <1>3, <2>1, <2>5, <2>6
<1>16. CASE Shutdown \/ Join
  <2>1. /\ client.pc \in {"waitedAll", "build", "joining"} /\ client'.pc \in {"joining", "joined"}
        /\ UNCHANGED <<queue, inflight, fiber, runs, done, deps, remaining, submitted, conts,
                       refused>>
        /\ ClientSame
    BY <1>1, <1>16 DEF Shutdown, Join, ClientSame
  <2>2. Accounting => Accounting'
    BY <1>1, <2>1, ClientQuiet
  <2>3. Settled => Settled'
    BY <2>1, SettledFrame
  <2> QED BY <1>2, <2>1, <2>2, <2>3 DEF SchedInv
<1>17. CASE Terminated
  <2>1. /\ client.pc = "joined" /\ client'.pc = "joined" /\ ClientSame
        /\ UNCHANGED <<queue, inflight, fiber, runs, done, deps, remaining, submitted, conts,
                       refused>>
    BY <1>17 DEF Terminated, vars, ClientSame
  <2>2. Accounting => Accounting'
    BY <1>1, <2>1, ClientQuiet
  <2>3. Settled => Settled'
    BY <2>1, SettledFrame
  <2> QED BY <1>2, <2>1, <2>2, <2>3 DEF SchedInv
<1>18. CASE PublishSubmission
  <2>1. client.pc = "publish" /\ client'.pc = "build"
    BY <1>1, <1>18 DEF PublishSubmission
  <2> QED BY <1>1, <1>2, <1>3, <1>18, <2>1, ClientPublishes
<1> QED
  BY <1>4, <1>5, <1>6, <1>7, <1>8, <1>9, <1>10, <1>11, <1>12, <1>13, <1>14, <1>15, <1>16, <1>17,
     <1>18
  DEF ClientStep

(* The invariant, for a client that resets jobs only when all are done.    *)
THEOREM SchedInvariant ==
  ASSUME ~EarlyReset
  PROVE  Spec => []SchedInv
<1>1. CoverInv /\ Init => SchedInv
  <2> SUFFICES ASSUME CoverInv, Init PROVE SchedInv
    OBVIOUS
  <2>1. Blank
    BY DEF Init, Blank, Working, Scanning
  <2> QED BY <2>1, BlankAccounts DEF SchedInv, Blank
<1>2. CoverInv /\ CoverInv' /\ SchedInv /\ [Next]_vars => SchedInv'
  <2> SUFFICES ASSUME CoverInv, CoverInv', SchedInv, [Next]_vars PROVE SchedInv'
    OBVIOUS
  <2>1. CASE UNCHANGED vars
    <3>1. UNCHANGED <<queue, inflight, shutdown, conts, remaining, done, fiber, client, deps,
                      submitted, runs, refused, rounds>>
      BY <2>1 DEF vars, queues, jobVars, history
    <3>2. Settled => Settled'
      BY <3>1, SettledFrame
    <3>3. ASSUME Accounting PROVE Accounting'
      <4>1. /\ \A g \in Fibers :
                 /\ (\A l : At(g, l)' <=> At(g, l)) /\ (Fresh(g)' <=> Fresh(g))
                 /\ \A j \in Jobs : /\ Holds(g, j)' <=> Holds(g, j)
                                    /\ Carries(g, j)' <=> Carries(g, j)
                 /\ \A d, j \in Jobs : Owes(g, d, j)' <=> Owes(g, d, j)
                 /\ \A p \in Prios : Sees(g, p)' <=> Sees(g, p)
            /\ ClientSame /\ Slack' = Slack
        BY <3>1 DEF Holds, Carries, Owes, Sees, At, Fresh, Working, ClientSame, Slack, Queued, Carriers,
                    ClientCarries, ClientAt
      <4>2. \A j \in Jobs : Started(j)' <=> Started(j)
        BY <3>1, <4>1 DEF Started, InQueue, Held, Carried
      <4>3. /\ queue \in [Prios -> Seq(Jobs)] /\ submitted \subseteq Jobs
            /\ deps \in [Jobs -> SUBSET Jobs] /\ Slack \in Int
        BY SlackType DEF CoverInv, TypeOK
      <4>4. Graph' /\ Origin'
        BY <3>1, <3>3, <4>1, <4>2, <4>3, GraphFrame, OriginFrame DEF Accounting
      <4>5. OnePlace'
        BY <3>1, <3>3, <4>1, OnePlaceFrame DEF Accounting, OnePlace
      <4>6. Counting'
        <5>1. \A j \in Jobs : Waiting(j)' = Waiting(j)
          BY <3>1, <4>1, <4>3 DEF Waiting
        <5> QED BY <3>1, <3>3, <4>1, <4>2, <5>1, CountingFrame DEF Accounting, Counting
      <4>7. Kept'
        <5>1. \A j \in Jobs : Lost(j)' => Lost(j)
          BY <3>1, <4>2 DEF Lost
        <5> QED BY <3>1, <3>3, <4>1, <4>3, <5>1, KeptFrame DEF Accounting
      <4> QED BY <4>4, <4>5, <4>6, <4>7 DEF Accounting
    <3> QED BY <3>1, <3>2, <3>3 DEF SchedInv
  <2>2. ASSUME NEW f \in Fibers, FiberStep(f) PROVE SchedInv'
    <3>1. client' = client \/ (client.pc = "asleep" /\ client'.pc = "waitAll")
      BY <2>2, FiberLeaves DEF CoverInv
    <3>2. Accounting => Accounting'
      BY <2>2, FiberAccounting
    <3>3. Settled => Settled'
      BY <2>2, SettledFiber
    <3> QED BY <3>1, <3>2, <3>3 DEF SchedInv
  <2>3. CASE ClientStep
    BY <2>3, ClientSched
  <2> QED BY <2>1, <2>2, <2>3 DEF Next
<1> QED BY <1>1, <1>2, CoverInvariant, PTL DEF Spec

(* The function of a job starts only when the functions of all the jobs it *)
(* depends on have returned.                                               *)
THEOREM DependenciesFirst ==
  ASSUME ~EarlyReset
  PROVE  Spec => []DependencyOrder
<1>1. SchedInv => DependencyOrder
  <2> SUFFICES ASSUME SchedInv, NEW f \in Fibers, At(f, "body"), NEW d \in deps[fiber[f].task]
               PROVE  runs[d] > 0
    BY DEF DependencyOrder
  <2>1. f \in Working /\ fiber[f].task \in Jobs
    BY DEF SchedInv, CoverInv, Shape, Working, At
  <2>2. Accounting
    BY <2>1 DEF SchedInv, Settled
  <2>3. PICK j \in Jobs : j = fiber[f].task
    BY <2>1
  <2>4. Started(j)
    BY <2>1, <2>3 DEF Started, Held, Holds
  <2>5. deps[j] \subseteq Jobs /\ runs \in [Jobs -> Nat]
    BY DEF SchedInv, CoverInv, TypeOK
  <2>6. Waiting(j) = {}
    <3>1. Cardinality(Waiting(j)) = 0
      BY <2>2, <2>4 DEF Accounting, Counting
    <3>2. Waiting(j) \in SUBSET Jobs
      BY <2>5 DEF Waiting
    <3> QED BY <3>1, <3>2, ConstantsAssumption, FS_Subset, FS_EmptySet DEF ConstantsAssumption
  <2>7. runs[d] # 0 /\ runs[d] \in Nat
    BY <2>3, <2>5, <2>6 DEF Waiting
  <2> QED BY <2>7
<1> QED BY <1>1, SchedInvariant, PTL

(* No job runs twice between two resets.                                   *)
THEOREM JobsRunOnce ==
  ASSUME ~EarlyReset
  PROVE  Spec => []RunsOnce
<1>1. SchedInv => RunsOnce
  BY DEF SchedInv, RunsOnce, Accounting, OnePlace, Settled
<1> QED BY <1>1, SchedInvariant, PTL

(* waitUntilAllTasksDone returns when nothing is left to run.              *)
THEOREM WaitAllIsSound ==
  ASSUME ~EarlyReset
  PROVE  Spec => []WaitAllSound
<1>1. SchedInv => WaitAllSound
  BY DEF SchedInv, WaitAllSound, Settled, ClientAt
<1> QED BY <1>1, SchedInvariant, PTL

(* Even a shutdown that does not wait keeps every continuation that was    *)
(* accepted, but those behind a job the client submitted.                  *)
THEOREM ShutdownAbandonsNone ==
  ASSUME ~EarlyReset
  PROVE  Spec => []ShutdownKeepsContinuations
<1>1. SchedInv => ShutdownKeepsContinuations
  <2> SUFFICES ASSUME SchedInv, ClientAt("joined"), NEW j \in Jobs, deps[j] # {},
                      \A d \in deps[j] : runs[d] > 0, ~(runs[j] > 0), j \notin refused
               PROVE  \E i \in DOMAIN queue[Priority[j]] :
                        queue[Priority[j]][i] = j /\ Head(queue[Priority[j]]) \in submitted
    BY DEF ShutdownKeepsContinuations
  <2>1. CASE Settled
    BY <2>1 DEF Settled, Due
  <2>2. CASE Accounting
    <3>1. /\ \A f \in Fibers : fiber[f].pc = "exited"
          /\ deps \in [Jobs -> SUBSET Jobs] /\ runs \in [Jobs -> Nat]
      BY DEF SchedInv, CoverInv, Shape, TypeOK, At
    <3>2. /\ ~Held(j) /\ ~Carried(j)
          /\ \A f \in Fibers : /\ \A d \in Jobs : ~Owes(f, d, j)
                               /\ \A p \in Prios : ~Sees(f, p)
      BY <3>1 DEF Held, Carried, Holds, Carries, Owes, Sees, Working, At
    <3>3. Waiting(j) = {}
      BY <3>1, <3>2 DEF Waiting
    <3>4. remaining[j] = 0
      BY <2>2, <3>3, FS_EmptySet DEF Accounting, Counting
    <3>5. Started(j)
      BY <2>2, <3>4 DEF Accounting, Kept, Lost
    <3>6. PICK p \in Prios : j \in ElementsOf(queue[p])
      BY <3>2, <3>5 DEF Started, InQueue
    <3>7. p = Priority[j]
      BY <2>2, <3>6 DEF Accounting, OnePlace
    <3>8. Head(queue[p]) \in submitted
      BY <2>2, <3>2, <3>6 DEF Accounting, Kept
    <3>9. PICK i \in DOMAIN queue[p] : queue[p][i] = j
      BY <3>6 DEF ElementsOf
    <3> QED BY <3>7, <3>8, <3>9
  <2> QED BY <2>1, <2>2 DEF SchedInv, ClientAt
<1> QED BY <1>1, SchedInvariant, PTL

-----------------------------------------------------------------------------
(* The cells of the queues *)

(* The jobs of priority p that have been popped.                           *)
Gone(p) == {j \in Jobs : Priority[j] = p /\ (Held(j) \/ runs[j] > 0)}

(* The jobs a pop is taking out of their cell.                             *)
Taken(p) == {fiber[f].task : f \in {g \in Fibers : At(g, "take") /\ fiber[g].prio = p}}

(* Every cell is queued or vacant.  A pop that is still taking a job out   *)
(* of its cell holds back the cells vacated after it, and for each of them *)
(* another job has been popped.                                            *)
CellsOf(p) ==
  /\ Len(queue[p]) + Len(vacant[p]) = QueueCapacity
  /\ \A i \in DOMAIN vacant[p] : vacant[p][i] # NoJob =>
       /\ vacant[p][i] \in Taken(p)
       /\ Len(vacant[p]) - i + 1 <= Cardinality(Gone(p))

CellsInv == \A p \in Prios : CellsOf(p)

(* Each queue with continuations has a cell for every job of its priority. *)
ContinuationsFit ==
  \A e \in Edges : Cardinality({j \in Jobs : Priority[j] = Priority[e[2]]}) <= QueueCapacity

(* The popped jobs can be counted, and more of them count more.            *)
LEMMA GoneFinite ==
  ASSUME NEW p
  PROVE  /\ IsFiniteSet(Gone(p)) /\ Cardinality(Gone(p)) \in Nat
         /\ \A T : IsFiniteSet(T) /\ Gone(p) \subseteq T =>
              Cardinality(T) \in Nat /\ Cardinality(Gone(p)) <= Cardinality(T)
<1>1. Gone(p) \subseteq Jobs
  BY DEF Gone
<1>2. IsFiniteSet(Gone(p))
  BY <1>1, ConstantsAssumption, FS_Subset DEF ConstantsAssumption
<1> QED BY <1>2, FS_CardinalityType, FS_Subset

(* A step that leaves the cells of a queue alone.                          *)
LEMMA CellsFrame ==
  ASSUME NEW p, CellsOf(p), vacant[p] \in Seq(Jobs \cup {NoJob}),
         queue'[p] = queue[p], vacant'[p] = vacant[p],
         Taken(p) \subseteq Taken(p)',
         Gone(p) \subseteq Gone(p)'
  PROVE  CellsOf(p)'
<1>1. (IsFiniteSet(Gone(p)) /\ Cardinality(Gone(p)) \in Nat)'
  BY GoneFinite, PTL
<1>2. Cardinality(Gone(p)) \in Nat /\ Cardinality(Gone(p)) <= Cardinality(Gone(p)')
  BY <1>1, GoneFinite
<1>3. ASSUME NEW i \in DOMAIN vacant[p], vacant[p][i] # NoJob
      PROVE  vacant[p][i] \in Taken(p)' /\ Len(vacant[p]) - i + 1 <= Cardinality(Gone(p)')
  <2>1. vacant[p][i] \in Taken(p) /\ Len(vacant[p]) - i + 1 <= Cardinality(Gone(p))
    BY <1>3 DEF CellsOf
  <2>2. Len(vacant[p]) \in Nat /\ i \in Nat
    BY LenProperties
  <2> QED BY <1>1, <1>2, <2>1, <2>2
<1> QED BY <1>3 DEF CellsOf

(* A push takes the first vacant cell.                                     *)
LEMMA CellsPush ==
  ASSUME TypeOK, NEW c \in Jobs, NEW p \in Prios, p = Priority[c], CellsOf(p), ClaimPush(c),
         Taken(p) \subseteq Taken(p)',
         Gone(p) \subseteq Gone(p)'
  PROVE  CellsOf(p)'
<1>1. /\ queue[p] \in Seq(Jobs) /\ vacant[p] \in Seq(Jobs \cup {NoJob}) /\ vacant[p] # <<>>
      /\ queue'[p] = Append(queue[p], c) /\ vacant'[p] = Tail(vacant[p])
  BY DEF TypeOK, ClaimPush, HasRoom
<1> DEFINE n == Len(vacant[p])
<1>2. /\ Len(queue'[p]) = Len(queue[p]) + 1 /\ Len(queue[p]) \in Nat
      /\ n \in Nat \ {0} /\ Len(vacant'[p]) = n - 1
      /\ DOMAIN vacant[p] = 1 .. n /\ DOMAIN vacant'[p] = 1 .. n - 1
      /\ \A i \in 1 .. n - 1 : vacant'[p][i] = vacant[p][i + 1]
  BY <1>1, AppendProperties, HeadTailProperties, LenProperties, EmptySeq
<1> HIDE DEF n
<1>3. (IsFiniteSet(Gone(p)) /\ Cardinality(Gone(p)) \in Nat)'
  BY GoneFinite, PTL
<1>4. Cardinality(Gone(p)) \in Nat /\ Cardinality(Gone(p)) <= Cardinality(Gone(p)')
  BY <1>3, GoneFinite
<1>5. Len(queue[p]) + n = QueueCapacity
  BY DEF CellsOf, n
<1>6. ASSUME NEW i \in 1 .. n - 1, vacant'[p][i] # NoJob
      PROVE  vacant'[p][i] \in Taken(p)' /\ (n - 1) - i + 1 <= Cardinality(Gone(p)')
  <2>1. i + 1 \in DOMAIN vacant[p] /\ vacant'[p][i] = vacant[p][i + 1] /\ i \in Nat
    BY <1>2
  <2>2. vacant[p][i + 1] \in Taken(p) /\ n - (i + 1) + 1 <= Cardinality(Gone(p))
    BY <1>6, <2>1 DEF CellsOf, n
  <2>3. (n - 1) - i + 1 <= Cardinality(Gone(p)')
    BY <1>2, <1>3, <1>4, <2>1, <2>2
  <2> QED BY <2>1, <2>2, <2>3
<1> QED BY <1>2, <1>5, <1>6 DEF CellsOf

(* A pop puts the cell of the head behind the vacant ones.                 *)
LEMMA CellsPop ==
  ASSUME TypeOK, NEW p \in Prios, CellsOf(p), ClaimPop(p),
         Taken(p) \subseteq Taken(p)',
         Head(queue[p]) \in Taken(p)',
         Gone(p) \subseteq Gone(p)', Head(queue[p]) \in Gone(p)', Head(queue[p]) \notin Gone(p)
  PROVE  CellsOf(p)'
<1>1. /\ queue[p] \in Seq(Jobs) /\ vacant[p] \in Seq(Jobs \cup {NoJob}) /\ queue[p] # <<>>
      /\ queue'[p] = Tail(queue[p]) /\ vacant'[p] = Append(vacant[p], Head(queue[p]))
  BY DEF TypeOK, ClaimPop, HasEntry
<1> DEFINE n == Len(vacant[p])
           h == Head(queue[p])
<1>2. /\ Len(queue'[p]) = Len(queue[p]) - 1 /\ Len(queue[p]) \in Nat \ {0} /\ h \in Jobs
  BY <1>1, HeadTailProperties, LenProperties, EmptySeq
<1>3. /\ n \in Nat /\ Len(vacant'[p]) = n + 1
      /\ DOMAIN vacant[p] = 1 .. n /\ DOMAIN vacant'[p] = 1 .. n + 1
      /\ \A i \in 1 .. n : vacant'[p][i] = vacant[p][i]
      /\ vacant'[p][n + 1] = h
  BY <1>1, <1>2, AppendProperties, LenProperties
<1> HIDE DEF n
<1>4. (IsFiniteSet(Gone(p)) /\ Cardinality(Gone(p)) \in Nat)'
  BY GoneFinite, PTL
<1>5. Cardinality(Gone(p)) \in Nat /\ Cardinality(Gone(p)) + 1 <= Cardinality(Gone(p)')
  <2>1. Gone(p) \cup {h} \subseteq Gone(p)'
    OBVIOUS
  <2>2. /\ IsFiniteSet(Gone(p)) /\ Cardinality(Gone(p)) \in Nat
        /\ Cardinality(Gone(p) \cup {h}) = Cardinality(Gone(p)) + 1
    BY GoneFinite, FS_AddElement
  <2>3. Cardinality(Gone(p) \cup {h}) <= Cardinality(Gone(p)')
    BY <1>4, <2>1, FS_Subset
  <2> QED BY <2>2, <2>3
<1>6. Len(queue[p]) + n = QueueCapacity
  BY DEF CellsOf, n
<1>7. ASSUME NEW i \in 1 .. n + 1, vacant'[p][i] # NoJob
      PROVE  vacant'[p][i] \in Taken(p)' /\ (n + 1) - i + 1 <= Cardinality(Gone(p)')
  <2>1. CASE i = n + 1
    BY <1>3, <1>4, <1>5, <2>1
  <2>2. CASE i \in 1 .. n
    <3>1. vacant[p][i] \in Taken(p) /\ n - i + 1 <= Cardinality(Gone(p))
      BY <1>3, <1>7, <2>2 DEF CellsOf, n
    <3> QED BY <1>3, <1>4, <1>5, <2>2, <3>1
  <2> QED BY <1>3, <2>1, <2>2
<1>8. Len(queue'[p]) + Len(vacant'[p]) = QueueCapacity
  <2>1. \A k, m \in Nat : (k - 1) + (m + 1) = k + m
    OBVIOUS
  <2>2. Len(queue[p]) \in Nat /\ n \in Nat
    BY <1>2, <1>3
  <2>3. Len(queue'[p]) + Len(vacant'[p]) = (Len(queue[p]) - 1) + (n + 1)
    BY <1>2, <1>3
  <2> QED BY <1>6, <2>1, <2>2, <2>3
<1> QED BY <1>3, <1>7, <1>8 DEF CellsOf

(* A pop releases its cell.                                                *)
LEMMA CellsRelease ==
  ASSUME TypeOK, NEW p \in Prios, NEW h, CellsOf(p), queue'[p] = queue[p],
         vacant'[p] = Released(vacant[p], h),
         Taken(p) \ {h} \subseteq Taken(p)',
         Gone(p) \subseteq Gone(p)'
  PROVE  CellsOf(p)'
<1>1. vacant[p] \in Seq(Jobs \cup {NoJob})
  BY DEF TypeOK
<1> DEFINE n == Len(vacant[p])
<1>2. n \in Nat /\ DOMAIN vacant[p] = 1 .. n
  BY <1>1, LenProperties
<1>3. /\ vacant'[p] = [i \in 1 .. n |-> IF vacant[p][i] = h THEN NoJob ELSE vacant[p][i]]
  BY <1>2 DEF Released
<1> HIDE DEF n
<1>4. DOMAIN vacant'[p] = 1 .. n /\ Len(vacant'[p]) = n
  <2>1. \A i \in 1 .. n : (IF vacant[p][i] = h THEN NoJob ELSE vacant[p][i]) \in Jobs \cup {NoJob}
    BY <1>1, <1>2, ElementOfSeq DEF n
  <2>2. vacant'[p] \in Seq(Jobs \cup {NoJob})
    BY <1>2, <1>3, <2>1, IsASeq
  <2> QED BY <1>2, <1>3, <2>2, LenProperties
<1>5. (IsFiniteSet(Gone(p)) /\ Cardinality(Gone(p)) \in Nat)'
  BY GoneFinite, PTL
<1>6. Cardinality(Gone(p)) \in Nat /\ Cardinality(Gone(p)) <= Cardinality(Gone(p)')
  BY <1>5, GoneFinite
<1>7. ASSUME NEW i \in 1 .. n, vacant'[p][i] # NoJob
      PROVE  vacant'[p][i] \in Taken(p)' /\ n - i + 1 <= Cardinality(Gone(p)')
  <2>1. vacant'[p][i] = vacant[p][i] /\ vacant[p][i] # h
    BY <1>3, <1>7
  <2>2. vacant[p][i] \in Taken(p) /\ n - i + 1 <= Cardinality(Gone(p))
    BY <1>2, <1>7, <2>1 DEF CellsOf, n
  <2> QED BY <1>2, <1>5, <1>6, <2>1, <2>2
<1>8. Len(queue[p]) + n = QueueCapacity
  BY DEF CellsOf, n
<1> QED BY <1>4, <1>7, <1>8 DEF CellsOf

(* A fiber holds on to its job until it retires.                           *)
LEMMA HeldOn ==
  ASSUME FibersOK, NEW f \in Fibers, FiberStep(f), ~Retire(f), fiber[f].pc \in WorkPCs
  PROVE  fiber'[f].pc \in WorkPCs /\ fiber'[f].task = fiber[f].task
<1>1. fiber \in [Fibers -> Regs]
  BY DEF FibersOK
<1>2. ~ScanHit(f) /\ ~ScanMiss(f) /\ ~Exit(f) /\ ~Rescan(f) /\ ~Notify(f)
  BY FiberGoes DEF WorkPCs
<1>3. ASSUME NEW loc, NEW todo, NEW next, loc \in WorkPCs,
             Becomes(f, Reg(loc, fiber[f].prio, fiber[f].task, todo, next))
      PROVE  fiber'[f].pc \in WorkPCs /\ fiber'[f].task = fiber[f].task
  BY <1>3 DEF Becomes, Reg
<1>4. CASE TriggerNext(f)
  <2>1. \E loc \in {"count", "trigger"}, next \in {NoJob, Head(fiber[f].todo)} :
          Becomes(f, Reg(loc, fiber[f].prio, fiber[f].task, Tail(fiber[f].todo), next))
    BY <1>1, <1>4, FiberMoves
  <2> QED BY <1>3, <2>1 DEF WorkPCs
<1>5. CASE ~TriggerNext(f)
  <2>1. \E loc \in WorkPCs, todo \in {fiber[f].todo, conts[fiber[f].task]},
           next \in {NoJob, fiber[f].next} :
          Becomes(f, Reg(loc, fiber[f].prio, fiber[f].task, todo, next))
    <3>1. \/ ReleaseCell(f) \/ RunBody(f) \/ SignalDone(f) \/ LockContinuations(f)
          \/ CopyContinuations(f) \/ TriggerEnd(f) \/ CountContinuation(f)
          \/ EnqueueContinuation(f) \/ PublishContinuation(f) \/ ContinuationRefused(f)
      BY <1>2, <1>5 DEF FiberStep
    <3> QED BY <1>1, <3>1, FiberMoves DEF WorkPCs
  <2> QED BY <1>3, <2>1
<1> QED BY <1>4, <1>5

(* What is popped stays so, but for the jobs the client resets.            *)
LEMMA GoneGrows ==
  ASSUME SchedInv, [Next]_vars, ~ResetFresh
  PROVE  \A p \in Prios : Gone(p) \subseteq Gone(p)'
<1> SUFFICES ASSUME NEW j \in Jobs, Held(j) \/ runs[j] > 0
             PROVE  Held(j)' \/ runs'[j] > 0
  BY DEF Gone
<1>1. CoverInv /\ FibersOK /\ DataOK /\ runs \in [Jobs -> Nat]
  BY Parts DEF SchedInv, CoverInv, DataOK
<1>2. CASE UNCHANGED vars
  BY <1>2 DEF vars, history, Held, Holds, Working
<1>3. CASE ClientStep
  <2>1. UNCHANGED <<fiber, runs>>
    BY <1>3
    DEF ClientStep, AddBegin, AddContinuation, AddCount, Submit, CountSubmission,
        EnqueueSubmission, PublishSubmission, SubmissionRefused, WaitAllBegin, WaitAllTest,
        WaitAllSleep, WaitJobBegin, WaitJobEnd, WaitJobGoOn, ResetClear, ResetSignal, StartOver,
        Shutdown, Join, Terminated, vars, history
  <2> QED BY <2>1 DEF Held, Holds, Working
<1>4. ASSUME NEW f \in Fibers, FiberStep(f)
      PROVE  Held(j)' \/ runs'[j] > 0
  <2>1. /\ fiber \in [Fibers -> Regs]
        /\ \A g \in Fibers \ {f} : Holds(g, j)' <=> Holds(g, j)
    BY <1>1, <1>4, FiberContext
  <2>2. runs[j] > 0 => runs'[j] > 0
    <3>1. CASE RunBody(f)
      BY <1>1, <3>1 DEF RunBody
    <3>2. CASE ~RunBody(f)
      <4>1. runs' = runs
        BY <1>4, <3>2
        DEF FiberStep, ScanHit, ReleaseCell, ScanMiss, Exit, Rescan, SignalDone,
            LockContinuations, CopyContinuations, TriggerNext, TriggerEnd, CountContinuation,
            EnqueueContinuation, PublishContinuation, ContinuationRefused, Retire, Notify, history
      <4> QED BY <4>1
    <3> QED BY <3>1, <3>2
  <2>3. ASSUME Holds(f, j) PROVE Holds(f, j)' \/ runs[j] > 0
    <3>1. fiber[f].pc \in WorkPCs /\ fiber[f].task = j
      BY <2>3 DEF Holds, Working, WorkPCs
    <3>2. CASE Retire(f)
      <4>1. fiber[f].pc = "retire" /\ f \in Working
        BY <1>1, <1>4, <3>2, FiberGoes DEF Working
      <4>2. Accounting
        BY <4>1 DEF SchedInv, Settled
      <4>3. runs[j] = 1
        BY <2>3, <4>1, <4>2 DEF Accounting, OnePlace, Fresh
      <4> QED BY <4>3
    <3>3. CASE ~Retire(f)
      <4>1. fiber'[f].pc \in WorkPCs /\ fiber'[f].task = fiber[f].task
        BY <1>1, <1>4, <2>1, <3>1, <3>3, HeldOn
      <4> QED BY <3>1, <4>1 DEF Holds, Working, WorkPCs
    <3> QED BY <3>2, <3>3
  <2> QED BY <2>1, <2>2, <2>3 DEF Held
<1> QED BY <1>2, <1>3, <1>4 DEF Next

(* No step hides a job that a pop is taking, but the end of that pop.      *)
LEMMA TakenStays ==
  ASSUME CoverInv, [Next]_vars, NEW p \in Prios
  PROVE  \/ Taken(p) \subseteq Taken(p)'
         \/ \E f \in Fibers : /\ ReleaseCell(f) /\ fiber[f].prio = p
                              /\ Taken(p) \ {fiber[f].task} \subseteq Taken(p)'
<1>1. FibersOK /\ fiber \in [Fibers -> Regs]
  BY Parts DEF CoverInv, FibersOK
<1>2. CASE fiber' = fiber
  BY <1>2 DEF Taken, At
<1>3. ASSUME NEW f \in Fibers, FiberStep(f)
      PROVE  \/ Taken(p) \subseteq Taken(p)'
             \/ /\ ReleaseCell(f) /\ fiber[f].prio = p
                /\ Taken(p) \ {fiber[f].task} \subseteq Taken(p)'
  <2>1. \A g \in Fibers \ {f} : fiber'[g] = fiber[g]
    BY <1>1, <1>3, FiberGoes
  <2>2. CASE ReleaseCell(f)
    BY <2>1, <2>2 DEF Taken, At
  <2>3. CASE ~ReleaseCell(f)
    <3>1. fiber[f].pc # "take"
      BY <1>1, <1>3, <2>3, FiberGoes DEF FiberStep
    <3> QED BY <2>1, <3>1 DEF Taken, At
  <2> QED BY <2>2, <2>3
<1>4. ClientStep => fiber' = fiber
  BY DEF ClientStep, AddBegin, AddContinuation, AddCount, Submit, CountSubmission,
         EnqueueSubmission, PublishSubmission, SubmissionRefused, WaitAllBegin, WaitAllTest,
         WaitAllSleep, WaitJobBegin, WaitJobEnd, WaitJobGoOn, ResetClear, ResetSignal,
         ResetFresh, StartOver, Shutdown, Join, Terminated, vars
<1>5. UNCHANGED vars => fiber' = fiber
  BY DEF vars
<1> QED BY <1>2, <1>3, <1>4, <1>5 DEF Next

(* What each step does to the cells.                                       *)
LEMMA CellsMoves ==
  ASSUME CoverInv, [Next]_vars
  PROVE  \/ UNCHANGED queues
         \/ \E c \in Jobs : ClaimPush(c)
         \/ \E f \in Fibers : ScanHit(f) \/ ReleaseCell(f)
<1>1. CASE UNCHANGED vars
  BY <1>1 DEF vars
<1>2. CASE ClientStep
  <2>1. CASE EnqueueSubmission
    BY <2>1 DEF EnqueueSubmission, CoverInv, Shape, ClientAt
  <2>2. CASE ~EnqueueSubmission
    BY <1>2, <2>2
    DEF ClientStep, AddBegin, AddContinuation, AddCount, Submit, CountSubmission,
        PublishSubmission, SubmissionRefused, WaitAllBegin, WaitAllTest, WaitAllSleep,
        WaitJobBegin, WaitJobEnd, WaitJobGoOn, ResetClear, ResetSignal, ResetFresh, StartOver,
        Shutdown, Join, Terminated, vars
  <2> QED BY <2>1, <2>2
<1>3. ASSUME NEW f \in Fibers, FiberStep(f)
      PROVE  UNCHANGED queues \/ (\E c \in Jobs : ClaimPush(c)) \/ ScanHit(f) \/ ReleaseCell(f)
  <2>1. CASE EnqueueContinuation(f)
    BY <2>1 DEF EnqueueContinuation, CoverInv, Shape, At
  <2>2. CASE ~EnqueueContinuation(f)
    BY <1>3, <2>2
    DEF FiberStep, ScanMiss, Exit, Rescan, RunBody, SignalDone, LockContinuations,
        CopyContinuations, TriggerNext, TriggerEnd, CountContinuation, PublishContinuation,
        ContinuationRefused, Retire, Notify, queues
  <2> QED BY <2>1, <2>2
<1> QED BY <1>1, <1>2, <1>3 DEF Next

(* No step breaks the accounts of the cells.                               *)
LEMMA CellsKept ==
  ASSUME SchedInv, CellsInv, [Next]_vars
  PROVE  CellsInv'
<1> SUFFICES ASSUME NEW p \in Prios PROVE CellsOf(p)'
  BY DEF CellsInv
<1>1. /\ CoverInv /\ TypeOK /\ CellsOf(p) /\ FibersOK /\ fiber \in [Fibers -> Regs]
      /\ vacant[p] \in Seq(Jobs \cup {NoJob}) /\ queue \in [Prios -> Seq(Jobs)]
      /\ vacant \in [Prios -> Seq(Jobs \cup {NoJob})]
  BY Parts DEF SchedInv, CoverInv, CellsInv, TypeOK, FibersOK
<1>2. CASE ResetFresh
  <2>1. Settled /\ UNCHANGED queues
    BY <1>2 DEF SchedInv, ResetFresh, ClientAt
  <2>2. Taken(p) = {}
    BY <2>1 DEF Settled, Working, Taken, At
  <2>3. \A i \in DOMAIN vacant[p] : vacant[p][i] = NoJob
    BY <1>1, <2>2 DEF CellsOf
  <2> QED BY <1>1, <2>1, <2>3 DEF CellsOf, queues
<1>3. ASSUME ~ResetFresh, ~\E f \in Fibers : ReleaseCell(f) /\ fiber[f].prio = p
      PROVE  CellsOf(p)'
  <2>1. Taken(p) \subseteq Taken(p)' /\ Gone(p) \subseteq Gone(p)'
    BY <1>1, <1>3, TakenStays, GoneGrows
  <2>2. CASE UNCHANGED queues
    BY <1>1, <2>1, <2>2, CellsFrame DEF queues
  <2>3. ASSUME NEW c \in Jobs, ClaimPush(c) PROVE CellsOf(p)'
    <3>1. CASE p = Priority[c]
      BY <1>1, <2>1, <2>3, <3>1, CellsPush
    <3>2. CASE p # Priority[c]
      <4>1. queue'[p] = queue[p] /\ vacant'[p] = vacant[p]
        BY <1>1, <2>3, <3>2 DEF ClaimPush
      <4> QED BY <1>1, <2>1, <4>1, CellsFrame
    <3> QED BY <3>1, <3>2
  <2>4. ASSUME NEW f \in Fibers, ScanHit(f) PROVE CellsOf(p)'
    <3>1. fiber[f].prio \in Prios /\ ClaimPop(fiber[f].prio)
      BY <1>1, <2>4 DEF ScanHit, Regs
    <3>2. CASE p = fiber[f].prio
      <4>1. /\ queue[p] # <<>> /\ ClaimPop(p) /\ FiberStep(f)
            /\ fiber'[f].pc = "take" /\ fiber'[f].prio = p /\ fiber'[f].task = Head(queue[p])
        <5>1. queue[p] # <<>> /\ ClaimPop(p) /\ FiberStep(f)
          BY <2>4, <3>1, <3>2 DEF ClaimPop, HasEntry, FiberStep
        <5>2. Becomes(f, Reg("take", p, Head(queue[p]), fiber[f].todo, fiber[f].next))
          BY <1>1, <2>4, <3>2, FiberMoves
        <5> QED BY <5>1, <5>2 DEF Becomes, Reg
      <4>2. Head(queue[p]) \in Taken(p)'
        BY <4>1 DEF Taken, At
      <4>3. PICK h \in Jobs : h = Head(queue[p]) /\ h \in ElementsOf(queue[p])
        BY <1>1, <4>1, ListTail
      <4>4. Accounting
        BY <4>1 DEF SchedInv, Settled
      <4>5. Priority[h] = p /\ runs[h] = 0 /\ ~Held(h)
        BY <4>3, <4>4 DEF Accounting, OnePlace, InQueue
      <4>6. Head(queue[p]) \notin Gone(p)
        BY <4>3, <4>5 DEF Gone
      <4>7. Head(queue[p]) \in Gone(p)'
        BY <4>1, <4>3, <4>5 DEF Gone, Held, Holds, Working
      <4> QED BY <1>1, <2>1, <4>1, <4>2, <4>6, <4>7, CellsPop
    <3>3. CASE p # fiber[f].prio
      <4>1. queue'[p] = queue[p] /\ vacant'[p] = vacant[p]
        BY <1>1, <3>1, <3>3 DEF ClaimPop
      <4> QED BY <1>1, <2>1, <4>1, CellsFrame
    <3> QED BY <3>2, <3>3
  <2>5. ASSUME NEW f \in Fibers, ReleaseCell(f) PROVE CellsOf(p)'
    <3>1. fiber[f].prio \in Prios /\ p # fiber[f].prio
      BY <1>1, <1>3, <2>5 DEF Regs
    <3>2. queue'[p] = queue[p] /\ vacant'[p] = vacant[p]
      BY <1>1, <2>5, <3>1 DEF ReleaseCell
    <3> QED BY <1>1, <2>1, <3>2, CellsFrame
  <2> QED BY <1>1, <2>2, <2>3, <2>4, <2>5, CellsMoves
<1>4. ASSUME NEW f \in Fibers, ReleaseCell(f), fiber[f].prio = p PROVE CellsOf(p)'
  <2>1. /\ FiberStep(f) /\ fiber'[f].pc = "body" /\ f \in Working /\ fiber[f].pc = "take"
        /\ queue'[p] = queue[p] /\ vacant'[p] = Released(vacant[p], fiber[f].task)
        /\ \A g \in Fibers \ {f} : fiber'[g] = fiber[g]
    <3>1. FiberStep(f) /\ queue'[p] = queue[p]
          /\ vacant'[p] = Released(vacant[p], fiber[f].task)
      BY <1>1, <1>4 DEF FiberStep, ReleaseCell
    <3> QED BY <1>1, <1>4, <3>1, FiberGoes DEF Working
  <2>2. Taken(p) \ {fiber[f].task} \subseteq Taken(p)'
    BY <2>1 DEF Taken, At
  <2>3. ~ResetFresh
    BY <1>1, <2>1 DEF ResetFresh
  <2>4. Gone(p) \subseteq Gone(p)'
    BY <2>3, GoneGrows
  <2> QED BY <1>1, <2>1, <2>2, <2>4, CellsRelease
<1> QED BY <1>2, <1>3, <1>4

(* Every cell is accounted for.                                            *)
THEOREM CellsInvariant ==
  ASSUME ~EarlyReset
  PROVE  Spec => []CellsInv
<1>1. Init => CellsInv
  <2> SUFFICES ASSUME Init, NEW p \in Prios PROVE CellsOf(p)
    BY DEF CellsInv
  <2>1. QueueCapacity \in Nat /\ queue[p] = <<>>
        /\ vacant[p] = [i \in 1 .. QueueCapacity |-> NoJob]
    BY ConstantsAssumption DEF ConstantsAssumption, Init
  <2>2. vacant[p] \in Seq({NoJob})
    BY <2>1, IsASeq
  <2>3. Len(vacant[p]) = QueueCapacity
    BY <2>1, <2>2, LenProperties
  <2>4. Len(queue[p]) = 0
    BY <2>1, EmptySeq
  <2> QED BY <2>1, <2>3, <2>4 DEF CellsOf
<1>2. SchedInv /\ CellsInv /\ [Next]_vars => CellsInv'
  BY CellsKept
<1> QED BY <1>1, <1>2, SchedInvariant, PTL DEF Spec

(* No push of a continuation has been refused.                             *)
NothingRefused == refused = {}

(* With a cell for every job of its priority, no continuation is           *)
(* refused: however slow the pops are, there are fewer of them than cells. *)
THEOREM NoneRefused ==
  ASSUME ~EarlyReset, ContinuationsFit
  PROVE  Spec => []NothingRefused
<1>1. Init => NothingRefused
  BY DEF Init, NothingRefused
<1>2. ASSUME SchedInv, CellsInv, NEW f \in Fibers, ContinuationRefused(f) PROVE FALSE
  <2>1. /\ TypeOK /\ FibersOK /\ fiber[f].pc = "enqueue" /\ f \in Working
        /\ fiber[f].next \in Jobs /\ fiber[f].task \in Jobs
    BY <1>2, Parts
    DEF SchedInv, CoverInv, Shape, ContinuationRefused, At, Working
  <2>2. PICK c \in Jobs, d \in Jobs, p \in Prios :
          c = fiber[f].next /\ d = fiber[f].task /\ p = Priority[c]
    BY <2>1, ConstantsAssumption DEF ConstantsAssumption, Prios
  <2>3. Accounting
    BY <1>2, <2>1 DEF SchedInv, Settled
  <2>4. Carries(f, c) /\ Carried(c) /\ <<d, c>> \in Edges
    BY <2>1, <2>2, <2>3 DEF Carried, Carries, Accounting, Counting, Graph
  <2>5. ~InQueue(c) /\ ~Held(c) /\ runs[c] = 0
    BY <2>3, <2>4 DEF Accounting, OnePlace
  <2> DEFINE T == {j \in Jobs : Priority[j] = p}
             R == T \ Gone(p)
  <2>6. IsFiniteSet(T) /\ Cardinality(T) \in Nat /\ Cardinality(T) <= QueueCapacity
    <3>1. Cardinality({j \in Jobs : Priority[j] = Priority[<<d, c>>[2]]}) <= QueueCapacity
      BY <2>4 DEF ContinuationsFit
    <3>2. IsFiniteSet(T)
      BY ConstantsAssumption, FS_Subset DEF ConstantsAssumption
    <3> QED BY <2>2, <3>1, <3>2, FS_CardinalityType
  <2>7. /\ queue[p] \in Seq(Jobs) /\ vacant[p] \in Seq(Jobs \cup {NoJob})
        /\ Distinct(queue[p]) /\ \A j \in ElementsOf(queue[p]) : Priority[j] = p
    BY <2>1, <2>3 DEF TypeOK, Accounting, OnePlace
  <2>8. ElementsOf(queue[p]) \subseteq R /\ c \in R /\ c \notin ElementsOf(queue[p])
    <3>1. ElementsOf(queue[p]) \subseteq Jobs
      BY <2>7, ListType
    <3>2. \A j \in ElementsOf(queue[p]) : runs[j] = 0 /\ ~Held(j)
      BY <2>3, <3>1 DEF Accounting, OnePlace, InQueue
    <3>3. ElementsOf(queue[p]) \subseteq R
      BY <2>7, <3>1, <3>2 DEF Gone
    <3> QED BY <2>2, <2>5, <3>3 DEF Gone, InQueue
  <2>9. IsFiniteSet(R) /\ Cardinality(R) = Cardinality(T) - Cardinality(Gone(p))
        /\ Cardinality(Gone(p)) \in Nat
    <3>1. Gone(p) \subseteq T /\ IsFiniteSet(Gone(p)) /\ Cardinality(Gone(p)) \in Nat
      BY GoneFinite DEF Gone
    <3>2. T \cap Gone(p) = Gone(p)
      BY <3>1
    <3> HIDE DEF T
    <3> QED BY <2>6, <3>1, <3>2, FS_Difference
  <2> HIDE DEF T, R
  <2>10. Len(queue[p]) < Cardinality(R)
    BY <2>7, <2>8, <2>9, ListFits
  <2>11. Len(queue[p]) + Len(vacant[p]) = QueueCapacity
    BY <1>2 DEF CellsInv, CellsOf
  <2>12. Len(queue[p]) \in Nat /\ Len(vacant[p]) \in Nat
    BY <2>7, LenProperties
  <2>13. Len(vacant[p]) > Cardinality(Gone(p))
    <3>1. QueueCapacity \in Nat
      BY ConstantsAssumption DEF ConstantsAssumption
    <3>2. \A k, m, g, t, s \in Nat : k + m = s /\ t <= s /\ k < t - g => m > g
      OBVIOUS
    <3>3. Len(queue[p]) < Cardinality(T) - Cardinality(Gone(p))
      BY <2>9, <2>10
    <3> QED BY <2>6, <2>9, <2>11, <2>12, <3>1, <3>2, <3>3
  <2>14. vacant[p] # <<>> /\ 1 \in DOMAIN vacant[p] /\ Head(vacant[p]) = vacant[p][1]
    BY <2>7, <2>9, <2>12, <2>13, LenProperties, EmptySeq
  <2>15. vacant[p][1] # NoJob
    BY <1>2, <2>2, <2>14 DEF ContinuationRefused, HasRoom
  <2>16. Len(vacant[p]) - 1 + 1 <= Cardinality(Gone(p))
    BY <1>2, <2>14, <2>15 DEF CellsInv, CellsOf
  <2> QED BY <2>9, <2>12, <2>13, <2>16
<1>3. SchedInv /\ CellsInv /\ NothingRefused /\ [Next]_vars => NothingRefused'
  <2> SUFFICES ASSUME SchedInv, CellsInv, refused = {}, [Next]_vars PROVE refused' = {}
    BY DEF NothingRefused
  <2>1. CASE UNCHANGED vars
    BY <2>1 DEF vars, history
  <2>2. CASE ClientStep
    BY <2>2
    DEF ClientStep, AddBegin, AddContinuation, AddCount, Submit, CountSubmission,
        EnqueueSubmission, PublishSubmission, SubmissionRefused, WaitAllBegin, WaitAllTest,
        WaitAllSleep, WaitJobBegin, WaitJobEnd, WaitJobGoOn, ResetClear, ResetSignal, ResetFresh,
        StartOver, Shutdown, Join, Terminated, vars, history
  <2>3. ASSUME NEW f \in Fibers, FiberStep(f) PROVE refused' = {}
    BY <1>2, <2>3
    DEF FiberStep, ScanHit, ReleaseCell, ScanMiss, Exit, Rescan, RunBody, SignalDone,
        LockContinuations, CopyContinuations, TriggerNext, TriggerEnd, CountContinuation,
        EnqueueContinuation, PublishContinuation, Retire, Notify, history
  <2> QED BY <2>1, <2>2, <2>3 DEF Next
<1> QED BY <1>1, <1>3, SchedInvariant, CellsInvariant, PTL DEF Spec

-----------------------------------------------------------------------------
(* The queue *)

(* pos & m_mask indexes a cell. *)
LEMMA CellOfType ==
  ASSUME NEW p \in Nat
  PROVE  CellOf(p) \in Cells
BY CapacityAssumption DEF CellOf, Cells

(* Positions one lap apart share a cell (m_buffer[pos & m_mask]). *)
LEMMA CellOfShift ==
  ASSUME NEW p \in Nat
  PROVE  CellOf(p + Capacity) = CellOf(p)
<1> DEFINE a == p \div Capacity
           b == (p + Capacity) \div Capacity
           r == CellOf(p)
           s == CellOf(p + Capacity)
<1>1. /\ a \in Int /\ b \in Int
      /\ r \in 0 .. Capacity - 1 /\ s \in 0 .. Capacity - 1
      /\ p = Capacity * a + r
      /\ p + Capacity = Capacity * b + s
  BY CapacityAssumption DEF CellOf
<1> HIDE DEF a, b, r, s
<1>2. r - s = Capacity * (b - a - 1)
  BY <1>1, CapacityAssumption
<1>3. b - a - 1 = 0
  <2>1. CASE b - a - 1 >= 1
    BY <1>1, <1>2, <2>1, CapacityAssumption
  <2>2. CASE b - a - 1 <= -1
    BY <1>1, <1>2, <2>2, CapacityAssumption
  <2> QED BY <1>1, <2>1, <2>2
<1>4. r = s
  BY <1>1, <1>2, <1>3, CapacityAssumption
<1> QED BY <1>4 DEF r, s

(* Positions less than a lap apart do not. *)
LEMMA CellOfDistinct ==
  ASSUME NEW p \in Nat, NEW q \in Nat, p < q, q < p + Capacity
  PROVE  CellOf(p) # CellOf(q)
<1> SUFFICES ASSUME CellOf(p) = CellOf(q) PROVE FALSE
  OBVIOUS
<1> DEFINE a == p \div Capacity
           b == q \div Capacity
           r == CellOf(p)
<1>1. /\ a \in Int /\ b \in Int /\ r \in Int
      /\ p = Capacity * a + r
      /\ q = Capacity * b + r
  BY CapacityAssumption DEF CellOf
<1> HIDE DEF a, b, r
<1>2. q - p = Capacity * (b - a)
  BY <1>1, CapacityAssumption
<1>3. CASE b - a <= 0
  BY <1>1, <1>2, <1>3, CapacityAssumption
<1>4. CASE b - a >= 1
  BY <1>1, <1>2, <1>4, CapacityAssumption
<1> QED BY <1>1, <1>3, <1>4

(* No step of push or pop takes a variable out of its type: sequence       *)
(* numbers and positions never become negative.                            *)
THEOREM QueueTyping == QueueSpec => []QueueTypeOK
<1>1. QueueInit => QueueTypeOK
  BY CapacityAssumption DEF QueueInit, QueueTypeOK, Cells, PCs
<1>2. QueueTypeOK /\ [QueueNext]_queueVars => QueueTypeOK'
  <2> SUFFICES ASSUME QueueTypeOK, [QueueNext]_queueVars PROVE QueueTypeOK'
    OBVIOUS
  <2> USE CapacityAssumption, CellOfType
          DEF QueueTypeOK, PCs, LoadPos, Goto, Finish, PublishedSeq, ReleasedSeq
  <2>1. ASSUME NEW t \in Threads, Push(t) PROVE QueueTypeOK'
    <3>1. ASSUME NEW v \in Values, PushStart(t, v) PROVE QueueTypeOK'
      BY <3>1 DEF PushStart
    <3>2. CASE PushLookTry(t)    BY <3>2 DEF PushLookTry
    <3>3. CASE PushLookFull(t)   BY <3>3 DEF PushLookFull
    <3>4. CASE PushLookReload(t) BY <3>4 DEF PushLookReload
    <3>5. CASE PushCasOk(t)      BY <3>5 DEF PushCasOk
    <3>6. CASE PushCasFail(t)    BY <3>6 DEF PushCasFail
    <3>7. CASE PushWrite(t)      BY <3>7 DEF PushWrite
    <3>8. CASE PushPublish(t)    BY <3>8 DEF PushPublish
    <3> QED BY <2>1, <3>1, <3>2, <3>3, <3>4, <3>5, <3>6, <3>7, <3>8 DEF Push
  <2>2. ASSUME NEW t \in Threads, Pop(t) PROVE QueueTypeOK'
    <3>1. CASE PopStart(t)      BY <3>1 DEF PopStart
    <3>2. CASE PopLookTry(t)    BY <3>2 DEF PopLookTry
    <3>3. CASE PopLookEmpty(t)  BY <3>3 DEF PopLookEmpty
    <3>4. CASE PopLookReload(t) BY <3>4 DEF PopLookReload
    <3>5. CASE PopCasOk(t)      BY <3>5 DEF PopCasOk
    <3>6. CASE PopCasFail(t)    BY <3>6 DEF PopCasFail
    <3>7. CASE PopRead(t)       BY <3>7 DEF PopRead
    <3>8. CASE PopRelease(t)    BY <3>8 DEF PopRelease
    <3> QED BY <2>2, <3>1, <3>2, <3>3, <3>4, <3>5, <3>6, <3>7, <3>8 DEF Pop
  <2>3. CASE UNCHANGED queueVars
    BY <2>3 DEF queueVars
  <2> QED BY <2>1, <2>2, <2>3 DEF QueueNext
<1> QED BY <1>1, <1>2, PTL DEF QueueSpec

-----------------------------------------------------------------------------

(* When push's compare_exchange succeeds, the queue has room and the cell  *)
(* it claims is free, however long ago its sequence number was read.       *)
LEMMA PushClaimFacts ==
  ASSUME QueueInv, Capacity >= 2, NEW t \in Threads,
         pc[t] = "pushCas", pos[t] = enqueuePos
  PROVE  enqueuePos < dequeuePos + Capacity /\ seq[CellOf(enqueuePos)] = enqueuePos
<1> USE CapacityAssumption DEF QueueInv, QueueTypeOK
<1>1. seq[CellOf(enqueuePos)] \in Nat /\ seq[CellOf(enqueuePos)] >= enqueuePos
  BY CellOfType DEF LookedAhead
<1>2. CASE enqueuePos = dequeuePos + Capacity
  <2>1. CellOf(enqueuePos) = CellOf(dequeuePos)
    BY <1>2, CellOfShift
  <2>2. seq[CellOf(dequeuePos)] <= dequeuePos + 1
    BY <1>2 DEF QueuedCells
  <2> QED BY <1>1, <1>2, <2>1, <2>2
<1>3. CASE enqueuePos < dequeuePos + Capacity
  <2>1. \/ seq[CellOf(enqueuePos)] = enqueuePos
        \/ seq[CellOf(enqueuePos)] = enqueuePos - Capacity + 1
    BY <1>3 DEF FreeCells, WindowOrdered
  <2> QED BY <1>1, <1>3, <2>1
<1> QED BY <1>2, <1>3 DEF WindowOrdered

(* When pop's compare_exchange succeeds, the queue has a value and the     *)
(* cell it claims has been published, whenever its number was read.        *)
LEMMA PopClaimFacts ==
  ASSUME QueueInv, Capacity >= 2, NEW t \in Threads,
         pc[t] = "popCas", pos[t] = dequeuePos
  PROVE  dequeuePos < enqueuePos /\ seq[CellOf(dequeuePos)] = dequeuePos + 1
<1> USE CapacityAssumption DEF QueueInv, QueueTypeOK
<1>1. seq[CellOf(dequeuePos)] \in Nat /\ seq[CellOf(dequeuePos)] >= dequeuePos + 1
  BY CellOfType DEF LookedAhead
<1>2. CASE dequeuePos = enqueuePos
  <2>1. \/ seq[CellOf(dequeuePos)] = dequeuePos
        \/ seq[CellOf(dequeuePos)] = dequeuePos - Capacity + 1
    BY <1>2 DEF FreeCells
  <2> QED BY <1>1, <2>1
<1>3. CASE dequeuePos < enqueuePos
  <2>1. \/ seq[CellOf(dequeuePos)] = dequeuePos
        \/ seq[CellOf(dequeuePos)] = dequeuePos + 1
    BY <1>3 DEF QueuedCells
  <2> QED BY <1>1, <1>3, <2>1
<1> QED BY <1>2, <1>3 DEF WindowOrdered

(* The inductive invariant: the window of one lap from m_dequeuePos on     *)
(* visits every cell once, and each cell's sequence number tells whether   *)
(* its position is queued and whether a push or a pop is inside it.        *)
THEOREM QueueInvariant ==
  ASSUME Capacity >= 2 PROVE QueueSpec => []QueueInv
<1>1. QueueInit => QueueInv
  <2> SUFFICES ASSUME QueueInit PROVE QueueInv
    OBVIOUS
  <2>1. QueueTypeOK
    BY CapacityAssumption DEF QueueInit, QueueTypeOK, Cells, PCs
  <2>2. FreeCells
    <3> SUFFICES ASSUME NEW p \in 0 .. Capacity - 1 PROVE seq[CellOf(p)] = p
      BY CapacityAssumption DEF QueueInit, FreeCells
    <3>1. CellOf(p) = p
      BY CapacityAssumption DEF CellOf
    <3> QED BY <3>1 DEF QueueInit, Cells
  <2> QED
    BY <2>1, <2>2, CapacityAssumption
    DEF QueueInit, QueueInv, WindowOrdered, QueuedCells, PushersOwn, PoppersOwn,
        ClaimsDistinct, LookedAhead, Pushing, Popping
<1>2. QueueTypeOK /\ QueueInv /\ QueueTypeOK' /\ [QueueNext]_queueVars => QueueInv'
  <2> SUFFICES ASSUME QueueTypeOK, QueueInv, QueueTypeOK', [QueueNext]_queueVars PROVE QueueInv'
    OBVIOUS
  <2> USE CapacityAssumption
  <2>1. \A t \in Threads : CellOf(pos[t]) \in Cells /\ seq[CellOf(pos[t])] \in Nat
    BY CellOfType DEF QueueTypeOK
  \* steps that leave the cells and the counters alone and enter no cell
  <2>2. ASSUME NEW t \in Threads,
               \/ \E v \in Values : PushStart(t, v)
               \/ PushLookTry(t) \/ PushLookFull(t) \/ PushLookReload(t) \/ PushCasFail(t)
               \/ PopStart(t) \/ PopLookTry(t) \/ PopLookEmpty(t) \/ PopLookReload(t)
               \/ PopCasFail(t)
        PROVE  QueueInv'
    <3>1. UNCHANGED <<seq, enqueuePos, dequeuePos>>
      BY <2>2 DEF PushStart, PushLookTry, PushLookFull, PushLookReload, PushCasFail,
                  PopStart, PopLookTry, PopLookEmpty, PopLookReload, PopCasFail
    <3>2. \A u \in Threads : u # t => pc'[u] = pc[u] /\ pos'[u] = pos[u]
      BY <2>2 DEF PushStart, PushLookTry, PushLookFull, PushLookReload, PushCasFail,
                  PopStart, PopLookTry, PopLookEmpty, PopLookReload, PopCasFail,
                  LoadPos, Goto, Finish, QueueTypeOK
    <3>3. /\ ~InCell(t) /\ ~InCell(t)'
          /\ pc'[t] = "pushCas" => pos'[t] = pos[t] /\ seq[CellOf(pos[t])] = pos[t]
          /\ pc'[t] = "popCas" => pos'[t] = pos[t] /\ seq[CellOf(pos[t])] = pos[t] + 1
      BY <2>2 DEF PushStart, PushLookTry, PushLookFull, PushLookReload, PushCasFail,
                  PopStart, PopLookTry, PopLookEmpty, PopLookReload, PopCasFail,
                  LoadPos, Goto, Finish, QueueTypeOK, InCell, Pushing, Popping
    <3>4. \A u \in Threads : /\ Pushing(u)' <=> Pushing(u)
                             /\ Popping(u)' <=> Popping(u)
                             /\ InCell(u) => pos'[u] = pos[u]
      BY <3>2, <3>3 DEF InCell, Pushing, Popping
    <3>5. WindowOrdered' /\ QueuedCells' /\ FreeCells'
      BY <3>1, <3>4 DEF QueueInv, WindowOrdered, QueuedCells, FreeCells, InCell
    <3>6. PushersOwn' /\ PoppersOwn' /\ ClaimsDistinct'
      BY <3>1, <3>4 DEF QueueInv, PushersOwn, PoppersOwn, ClaimsDistinct, InCell
    <3>7. LookedAhead'
      BY <2>1, <3>1, <3>2, <3>3 DEF QueueInv, LookedAhead
    <3> QED BY <3>5, <3>6, <3>7 DEF QueueInv
  \* the window grows at its upper end: a free cell becomes a queued one
  <2>3. ASSUME NEW t \in Threads, PushCasOk(t) PROVE QueueInv'
    <3>1. /\ enqueuePos' = enqueuePos + 1 /\ pos[t] = enqueuePos /\ pc[t] = "pushCas"
          /\ pc' = [pc EXCEPT ![t] = "pushWrite"]
          /\ UNCHANGED <<seq, value, dequeuePos, pos, arg>>
      BY <2>3 DEF PushCasOk, PushClaims, Goto
    <3>2. enqueuePos < dequeuePos + Capacity /\ seq[CellOf(enqueuePos)] = enqueuePos
      BY <3>1, PushClaimFacts
    <3>3. /\ ~Pushing(t) /\ Pushing(t)' /\ ~Popping(t) /\ ~Popping(t)'
          /\ \A u \in Threads : u # t => (Pushing(u)' <=> Pushing(u))
          /\ \A u \in Threads : Popping(u)' <=> Popping(u)
      BY <3>1 DEF Pushing, Popping, QueueTypeOK
    <3>4. WindowOrdered'
      BY <3>1, <3>2 DEF QueueInv, WindowOrdered, QueueTypeOK
    <3>5. QueuedCells' /\ FreeCells'
      <4>1. ASSUME NEW p \in dequeuePos .. enqueuePos
            PROVE  \/ seq[CellOf(p)] = p + 1
                   \/ seq[CellOf(p)] = p /\ \E u \in Threads : Pushing(u)' /\ pos[u] = p
        <5>1. CASE p = enqueuePos
          BY <3>1, <3>2, <3>3, <5>1
        <5>2. CASE p # enqueuePos
          <6>1. p \in dequeuePos .. enqueuePos - 1
            BY <5>2 DEF QueueTypeOK
          <6> QED BY <3>3, <6>1 DEF QueueInv, QueuedCells
        <5> QED BY <5>1, <5>2
      <4>2. QueuedCells'
        BY <3>1, <4>1 DEF QueuedCells, QueueTypeOK
      <4>3. FreeCells'
        BY <3>1, <3>3 DEF QueueInv, FreeCells, QueueTypeOK
      <4> QED BY <4>2, <4>3
    <3>6. PushersOwn'
      BY <3>1, <3>2, <3>3 DEF QueueInv, PushersOwn, WindowOrdered, QueueTypeOK
    <3>7. PoppersOwn'
      <4>1. ASSUME NEW u \in Threads, Popping(u), pos[u] + Capacity = enqueuePos PROVE FALSE
        <5>1. CellOf(enqueuePos) = CellOf(pos[u])
          BY <4>1, CellOfShift DEF QueueTypeOK
        <5>2. seq[CellOf(pos[u])] = pos[u] + 1
          BY <4>1 DEF QueueInv, PoppersOwn
        <5> QED BY <3>2, <4>1, <5>1, <5>2 DEF QueueTypeOK
      <4> QED BY <3>1, <3>3, <4>1 DEF QueueInv, PoppersOwn, QueueTypeOK
    <3>8. ClaimsDistinct'
      BY <3>1, <3>3 DEF QueueInv, ClaimsDistinct, PushersOwn, QueueTypeOK
    <3>9. LookedAhead'
      BY <3>1 DEF QueueInv, LookedAhead, QueueTypeOK
    <3> QED BY <3>4, <3>5, <3>6, <3>7, <3>8, <3>9 DEF QueueInv
  \* the window moves up by one: the popped cell is the last of the next lap
  <2>4. ASSUME NEW t \in Threads, PopCasOk(t) PROVE QueueInv'
    <3>1. /\ dequeuePos' = dequeuePos + 1 /\ pos[t] = dequeuePos /\ pc[t] = "popCas"
          /\ pc' = [pc EXCEPT ![t] = "popRead"]
          /\ UNCHANGED <<seq, value, enqueuePos, pos, arg>>
      BY <2>4 DEF PopCasOk, PopClaims, Goto
    <3>2. dequeuePos < enqueuePos /\ seq[CellOf(dequeuePos)] = dequeuePos + 1
      BY <3>1, PopClaimFacts
    <3>3. /\ ~Popping(t) /\ Popping(t)' /\ ~Pushing(t) /\ ~Pushing(t)'
          /\ \A u \in Threads : u # t => (Popping(u)' <=> Popping(u))
          /\ \A u \in Threads : Pushing(u)' <=> Pushing(u)
      BY <3>1 DEF Pushing, Popping, QueueTypeOK
    <3>4. WindowOrdered' /\ QueuedCells'
      BY <3>1, <3>2, <3>3 DEF QueueInv, QueuedCells, WindowOrdered, QueueTypeOK
    <3>5. FreeCells'
      <4> SUFFICES ASSUME NEW p \in enqueuePos .. dequeuePos + Capacity
                   PROVE  \/ seq[CellOf(p)] = p
                          \/ /\ seq[CellOf(p)] = p - Capacity + 1
                             /\ \E u \in Threads : Popping(u)' /\ pos[u] = p - Capacity
        BY <3>1 DEF FreeCells, QueueTypeOK
      <4>1. CASE p = dequeuePos + Capacity
        <5>1. CellOf(p) = CellOf(dequeuePos)
          BY <4>1, CellOfShift DEF QueueTypeOK
        <5> QED BY <3>1, <3>2, <3>3, <4>1, <5>1 DEF QueueTypeOK
      <4>2. CASE p \in enqueuePos .. dequeuePos + Capacity - 1
        BY <3>3, <4>2 DEF QueueInv, FreeCells
      <4> QED BY <4>1, <4>2 DEF QueueTypeOK
    <3>6. PushersOwn'
      BY <3>1, <3>2, <3>3 DEF QueueInv, PushersOwn, QueueTypeOK
    <3>7. PoppersOwn' /\ ClaimsDistinct'
      BY <3>1, <3>2, <3>3
      DEF QueueInv, PoppersOwn, ClaimsDistinct, WindowOrdered, QueueTypeOK
    <3>8. LookedAhead'
      BY <3>1 DEF QueueInv, LookedAhead, QueueTypeOK
    <3> QED BY <3>4, <3>5, <3>6, <3>7, <3>8 DEF QueueInv
  \* accesses to Cell::value
  <2>5. ASSUME NEW t \in Threads, PushWrite(t) \/ PopRead(t) PROVE QueueInv'
    <3>1. UNCHANGED <<seq, enqueuePos, dequeuePos, pos>>
      BY <2>5 DEF PushWrite, PopRead
    <3>2. \A u \in Threads : (Pushing(u)' <=> Pushing(u)) /\ (Popping(u)' <=> Popping(u))
      BY <2>5 DEF PushWrite, PopRead, Goto, Pushing, Popping, QueueTypeOK
    <3>3. WindowOrdered' /\ QueuedCells' /\ FreeCells'
      BY <3>1, <3>2 DEF QueueInv, WindowOrdered, QueuedCells, FreeCells
    <3>4. PushersOwn' /\ PoppersOwn' /\ ClaimsDistinct'
      BY <3>1, <3>2 DEF QueueInv, PushersOwn, PoppersOwn, ClaimsDistinct
    <3>5. LookedAhead'
      BY <2>5, <3>1 DEF PushWrite, PopRead, Goto, QueueInv, LookedAhead, QueueTypeOK
    <3> QED BY <3>3, <3>4, <3>5 DEF QueueInv
  \* the pusher hands its cell over: position pos[t] can be popped
  <2>6. ASSUME NEW t \in Threads, PushPublish(t) PROVE QueueInv'
    <3> DEFINE own == CellOf(pos[t])
    <3>1. /\ Pushing(t) /\ ~Popping(t) /\ pc' = [pc EXCEPT ![t] = "idle"]
          /\ seq' = [seq EXCEPT ![own] = pos[t] + 1]
          /\ \A u \in Threads : u # t => pos'[u] = pos[u]
          /\ UNCHANGED <<enqueuePos, dequeuePos>>
      BY <2>6 DEF PushPublish, PublishedSeq, Finish, Goto, Pushing, Popping, QueueTypeOK
    <3>2. pos[t] \in dequeuePos .. enqueuePos - 1 /\ seq[own] = pos[t]
      BY <3>1 DEF QueueInv, PushersOwn
    <3>3. \A u \in Threads : /\ u # t => (Pushing(u)' <=> Pushing(u))
                             /\ Popping(u)' <=> Popping(u)
                             /\ ~Pushing(t)'
      BY <3>1 DEF Pushing, Popping, QueueTypeOK
    <3>4. \A p \in dequeuePos .. dequeuePos + Capacity - 1 :
            p # pos[t] => CellOf(p) # own
      <4> SUFFICES ASSUME NEW p \in dequeuePos .. dequeuePos + Capacity - 1, p # pos[t]
                   PROVE  CellOf(p) # own
        OBVIOUS
      <4>1. /\ p \in Nat /\ pos[t] \in Nat
            /\ p < pos[t] + Capacity /\ pos[t] < p + Capacity
        BY <3>2 DEF QueueInv, WindowOrdered, QueueTypeOK
      <4>2. CASE p < pos[t]
        BY <4>1, <4>2, CellOfDistinct
      <4>3. CASE pos[t] < p
        BY <4>1, <4>3, CellOfDistinct
      <4> QED BY <4>1, <4>2, <4>3
    <3>5. own \in Cells
      BY <2>1
    <3>6. \A c \in Cells : seq'[c] = IF c = own THEN pos[t] + 1 ELSE seq[c]
      BY <3>1, <3>5 DEF QueueTypeOK
    <3>7. WindowOrdered' /\ UNCHANGED <<enqueuePos, dequeuePos>>
      BY <3>1 DEF QueueInv, WindowOrdered
    <3>8. QueuedCells'
      <4> SUFFICES ASSUME NEW p \in dequeuePos .. enqueuePos - 1
                   PROVE  \/ seq'[CellOf(p)] = p + 1
                          \/ /\ seq'[CellOf(p)] = p
                             /\ \E u \in Threads : Pushing(u)' /\ pos'[u] = p
        BY <3>7 DEF QueuedCells
      <4>1. CellOf(p) \in Cells /\ p \in dequeuePos .. dequeuePos + Capacity - 1
        BY CellOfType DEF QueueTypeOK, QueueInv, WindowOrdered
      <4>2. CASE p = pos[t]
        BY <3>6, <4>1, <4>2
      <4>3. CASE p # pos[t]
        <5>1. seq'[CellOf(p)] = seq[CellOf(p)]
          BY <3>4, <3>6, <4>1, <4>3
        <5> QED BY <3>1, <3>3, <4>3, <5>1 DEF QueueInv, QueuedCells
      <4> QED BY <4>2, <4>3
    <3>9. FreeCells'
      <4> SUFFICES ASSUME NEW p \in enqueuePos .. dequeuePos + Capacity - 1
                   PROVE  \/ seq'[CellOf(p)] = p
                          \/ /\ seq'[CellOf(p)] = p - Capacity + 1
                             /\ \E u \in Threads : Popping(u)' /\ pos'[u] = p - Capacity
        BY <3>7 DEF FreeCells
      <4>1. /\ CellOf(p) \in Cells /\ p \in dequeuePos .. dequeuePos + Capacity - 1
            /\ p # pos[t]
        BY <3>2, CellOfType DEF QueueTypeOK, QueueInv, WindowOrdered
      <4>2. seq'[CellOf(p)] = seq[CellOf(p)]
        BY <3>4, <3>6, <4>1
      <4> QED BY <3>1, <3>3, <4>2 DEF QueueInv, FreeCells
    <3>10. PushersOwn'
      <4> SUFFICES ASSUME NEW u \in Threads, Pushing(u)'
                   PROVE  /\ pos'[u] \in dequeuePos .. enqueuePos - 1
                          /\ seq'[CellOf(pos'[u])] = pos'[u]
        BY <3>7 DEF PushersOwn
      <4>1. u # t /\ Pushing(u) /\ pos'[u] = pos[u]
        BY <3>1, <3>3
      <4>2. pos[u] \in dequeuePos .. enqueuePos - 1 /\ seq[CellOf(pos[u])] = pos[u]
        BY <4>1 DEF QueueInv, PushersOwn
      <4>3. pos[u] # pos[t] /\ pos[u] \in dequeuePos .. dequeuePos + Capacity - 1
        BY <3>1, <4>1, <4>2 DEF QueueInv, ClaimsDistinct, WindowOrdered, QueueTypeOK
      <4> QED BY <2>1, <3>4, <3>6, <4>1, <4>2, <4>3
    <3>11. PoppersOwn'
      <4> SUFFICES ASSUME NEW u \in Threads, Popping(u)
                   PROVE  /\ pos[u] < dequeuePos /\ pos[u] + Capacity >= enqueuePos
                          /\ seq'[CellOf(pos[u])] = pos[u] + 1
        BY <3>1, <3>3, <3>7 DEF PoppersOwn
      <4>1. /\ pos[u] < dequeuePos /\ pos[u] + Capacity >= enqueuePos
            /\ seq[CellOf(pos[u])] = pos[u] + 1
        BY DEF QueueInv, PoppersOwn
      <4>2. CellOf(pos[u]) # own
        <5>1. /\ pos[u] + Capacity \in dequeuePos .. dequeuePos + Capacity - 1
              /\ pos[u] + Capacity # pos[t]
          BY <3>2, <4>1 DEF QueueTypeOK, QueueInv, WindowOrdered
        <5>2. CellOf(pos[u] + Capacity) = CellOf(pos[u])
          BY CellOfShift DEF QueueTypeOK
        <5> QED BY <3>4, <5>1, <5>2
      <4> QED BY <2>1, <3>6, <4>1, <4>2
    <3>12. ClaimsDistinct'
      BY <3>1, <3>3 DEF QueueInv, ClaimsDistinct
    <3>13. LookedAhead'
      <4> SUFFICES ASSUME NEW u \in Threads, u # t
                   PROVE  /\ pc[u] = "pushCas" => seq'[CellOf(pos[u])] >= pos[u]
                          /\ pc[u] = "popCas" => seq'[CellOf(pos[u])] >= pos[u] + 1
        BY <3>1 DEF LookedAhead, QueueTypeOK
      <4>1. seq'[CellOf(pos[u])] >= seq[CellOf(pos[u])]
        BY <2>1, <3>2, <3>6 DEF QueueTypeOK
      <4>2. seq'[CellOf(pos[u])] \in Nat /\ seq[CellOf(pos[u])] \in Nat /\ pos[u] \in Nat
        BY <2>1, <3>6 DEF QueueTypeOK
      <4> QED BY <4>1, <4>2 DEF QueueInv, LookedAhead
    <3> QED BY <3>7, <3>8, <3>9, <3>10, <3>11, <3>12, <3>13 DEF QueueInv
  \* the popper hands its cell over: position pos[t] + Capacity can be pushed
  <2>7. ASSUME NEW t \in Threads, PopRelease(t) PROVE QueueInv'
    <3> DEFINE own == CellOf(pos[t])
               next == pos[t] + Capacity
    <3>1. /\ Popping(t) /\ ~Pushing(t) /\ pc' = [pc EXCEPT ![t] = "idle"]
          /\ seq' = [seq EXCEPT ![own] = next]
          /\ \A u \in Threads : u # t => pos'[u] = pos[u]
          /\ UNCHANGED <<enqueuePos, dequeuePos>>
      BY <2>7 DEF PopRelease, ReleasedSeq, Finish, Goto, Pushing, Popping, QueueTypeOK
    <3>2. /\ next \in enqueuePos .. dequeuePos + Capacity - 1 /\ next \in Nat
          /\ seq[own] = pos[t] + 1 /\ CellOf(next) = own
      BY <3>1, CellOfShift DEF QueueInv, PoppersOwn, QueueTypeOK
    <3>3. \A u \in Threads : /\ u # t => (Popping(u)' <=> Popping(u))
                             /\ Pushing(u)' <=> Pushing(u)
                             /\ ~Popping(t)'
      BY <3>1 DEF Pushing, Popping, QueueTypeOK
    <3>4. \A p \in dequeuePos .. dequeuePos + Capacity - 1 : p # next => CellOf(p) # own
      <4> SUFFICES ASSUME NEW p \in dequeuePos .. dequeuePos + Capacity - 1, p # next
                   PROVE  CellOf(p) # CellOf(next)
        BY <3>2
      <4>1. p \in Nat /\ p < next + Capacity /\ next < p + Capacity
        BY <3>2 DEF QueueInv, WindowOrdered, QueueTypeOK
      <4>2. CASE p < next
        BY <3>2, <4>1, <4>2, CellOfDistinct
      <4>3. CASE next < p
        BY <3>2, <4>1, <4>3, CellOfDistinct
      <4> QED BY <3>2, <4>1, <4>2, <4>3
    <3>5. own \in Cells
      BY <2>1
    <3>6. \A c \in Cells : seq'[c] = IF c = own THEN next ELSE seq[c]
      BY <3>1, <3>5 DEF QueueTypeOK
    <3>7. WindowOrdered' /\ UNCHANGED <<enqueuePos, dequeuePos>>
      BY <3>1 DEF QueueInv, WindowOrdered
    <3>8. QueuedCells'
      <4> SUFFICES ASSUME NEW p \in dequeuePos .. enqueuePos - 1
                   PROVE  \/ seq'[CellOf(p)] = p + 1
                          \/ /\ seq'[CellOf(p)] = p
                             /\ \E u \in Threads : Pushing(u)' /\ pos'[u] = p
        BY <3>7 DEF QueuedCells
      <4>1. /\ CellOf(p) \in Cells /\ p \in dequeuePos .. dequeuePos + Capacity - 1
            /\ p # next
        BY <3>2, CellOfType DEF QueueTypeOK, QueueInv, WindowOrdered
      <4>2. seq'[CellOf(p)] = seq[CellOf(p)]
        BY <3>4, <3>6, <4>1
      <4> QED BY <3>1, <3>3, <4>2 DEF QueueInv, QueuedCells
    <3>9. FreeCells'
      <4> SUFFICES ASSUME NEW p \in enqueuePos .. dequeuePos + Capacity - 1
                   PROVE  \/ seq'[CellOf(p)] = p
                          \/ /\ seq'[CellOf(p)] = p - Capacity + 1
                             /\ \E u \in Threads : Popping(u)' /\ pos'[u] = p - Capacity
        BY <3>7 DEF FreeCells
      <4>1. CellOf(p) \in Cells /\ p \in dequeuePos .. dequeuePos + Capacity - 1
        BY CellOfType DEF QueueTypeOK, QueueInv, WindowOrdered
      <4>2. CASE p = next
        BY <3>2, <3>6, <4>1, <4>2
      <4>3. CASE p # next
        <5>1. seq'[CellOf(p)] = seq[CellOf(p)]
          BY <3>4, <3>6, <4>1, <4>3
        <5>2. \A u \in Threads : pos[u] = p - Capacity => u # t
          BY <4>3 DEF QueueTypeOK
        <5> QED BY <3>1, <3>3, <5>1, <5>2 DEF QueueInv, FreeCells
      <4> QED BY <4>2, <4>3
    <3>10. PushersOwn'
      <4> SUFFICES ASSUME NEW u \in Threads, Pushing(u)
                   PROVE  /\ pos[u] \in dequeuePos .. enqueuePos - 1
                          /\ seq'[CellOf(pos[u])] = pos[u]
        BY <3>1, <3>3, <3>7 DEF PushersOwn
      <4>1. pos[u] \in dequeuePos .. enqueuePos - 1 /\ seq[CellOf(pos[u])] = pos[u]
        BY DEF QueueInv, PushersOwn
      <4>2. pos[u] # next /\ pos[u] \in dequeuePos .. dequeuePos + Capacity - 1
        BY <3>2, <4>1 DEF QueueInv, WindowOrdered, QueueTypeOK
      <4> QED BY <2>1, <3>4, <3>6, <4>1, <4>2
    <3>11. PoppersOwn'
      <4> SUFFICES ASSUME NEW u \in Threads, Popping(u)'
                   PROVE  /\ pos'[u] < dequeuePos /\ pos'[u] + Capacity >= enqueuePos
                          /\ seq'[CellOf(pos'[u])] = pos'[u] + 1
        BY <3>7 DEF PoppersOwn
      <4>1. u # t /\ Popping(u) /\ pos'[u] = pos[u]
        BY <3>1, <3>3
      <4>2. /\ pos[u] < dequeuePos /\ pos[u] + Capacity >= enqueuePos
            /\ seq[CellOf(pos[u])] = pos[u] + 1
        BY <4>1 DEF QueueInv, PoppersOwn
      <4>3. /\ pos[u] + Capacity \in dequeuePos .. dequeuePos + Capacity - 1
            /\ pos[u] + Capacity # next
        BY <3>1, <4>1, <4>2 DEF QueueInv, ClaimsDistinct, WindowOrdered, QueueTypeOK
      <4>4. CellOf(pos[u] + Capacity) = CellOf(pos[u])
        BY CellOfShift DEF QueueTypeOK
      <4> QED BY <2>1, <3>4, <3>6, <4>1, <4>2, <4>3, <4>4
    <3>12. ClaimsDistinct'
      BY <3>1, <3>3 DEF QueueInv, ClaimsDistinct
    <3>13. LookedAhead'
      <4> SUFFICES ASSUME NEW u \in Threads, u # t
                   PROVE  /\ pc[u] = "pushCas" => seq'[CellOf(pos[u])] >= pos[u]
                          /\ pc[u] = "popCas" => seq'[CellOf(pos[u])] >= pos[u] + 1
        BY <3>1 DEF LookedAhead, QueueTypeOK
      <4>1. seq'[CellOf(pos[u])] >= seq[CellOf(pos[u])]
        BY <2>1, <3>2, <3>6 DEF QueueTypeOK
      <4>2. seq'[CellOf(pos[u])] \in Nat /\ seq[CellOf(pos[u])] \in Nat /\ pos[u] \in Nat
        BY <2>1, <3>2, <3>6 DEF QueueTypeOK
      <4> QED BY <4>1, <4>2 DEF QueueInv, LookedAhead
    <3> QED BY <3>7, <3>8, <3>9, <3>10, <3>11, <3>12, <3>13 DEF QueueInv
  <2>8. CASE UNCHANGED queueVars
    BY <2>8 DEF queueVars, QueueInv, QueueTypeOK, WindowOrdered, QueuedCells, FreeCells, PushersOwn,
                PoppersOwn, ClaimsDistinct, LookedAhead, Pushing, Popping
  <2> QED
    BY <2>2, <2>3, <2>4, <2>5, <2>6, <2>7, <2>8 DEF QueueNext, Push, Pop
<1> QED BY <1>1, <1>2, QueueTyping, PTL DEF QueueSpec

-----------------------------------------------------------------------------

(* Pushes never claim a position more than one lap ahead of the pops.      *)
THEOREM QueueBounded ==
  ASSUME Capacity >= 2 PROVE QueueSpec => []Bounded
<1>1. QueueInv => Bounded
  BY CapacityAssumption DEF QueueInv, QueueTypeOK, WindowOrdered, Bounded
<1> QED BY <1>1, QueueInvariant, PTL

(* The inductive invariant keeps any two threads that are past their       *)
(* compare_exchange in different cells, whichever lap each of them is on.  *)
LEMMA CellsApart == QueueInv => CellExclusive
<1> SUFFICES ASSUME QueueInv, NEW t \in Threads, NEW u \in Threads,
                    t # u, InCell(t), InCell(u)
             PROVE  CellOf(pos[t]) # CellOf(pos[u])
  BY DEF CellExclusive
<1> USE CapacityAssumption DEF QueueInv, QueueTypeOK
\* two pushers are at different positions of the window, less than a lap apart
<1>1. CASE Pushing(t) /\ Pushing(u)
  BY <1>1 DEF PushersOwn, ClaimsDistinct
<1>2. CASE Popping(t) /\ Popping(u)
  BY <1>2 DEF PoppersOwn, ClaimsDistinct
\* a pusher's cell says p, a popper's cell says p + 1 of an earlier lap
<1>3. ASSUME NEW a \in Threads, NEW b \in Threads, Pushing(a), Popping(b)
      PROVE  CellOf(pos[a]) # CellOf(pos[b])
  <2>1. /\ pos[a] \in dequeuePos .. enqueuePos - 1
        /\ pos[b] + Capacity \in enqueuePos .. dequeuePos + Capacity - 1
    BY <1>3 DEF PushersOwn, PoppersOwn
  <2>2. CellOf(pos[a]) # CellOf(pos[b] + Capacity)
    BY <2>1, CellOfDistinct
  <2> QED BY <2>2, CellOfShift
<1> QED BY <1>1, <1>2, <1>3 DEF InCell

(* Two calls of push and pop are never inside the same cell at once, so    *)
(* Cell::value, a plain field, is free of races.                           *)
THEOREM CellsExclusive ==
  ASSUME Capacity >= 2 PROVE QueueSpec => []CellExclusive
BY CellsApart, QueueInvariant, PTL

(* Whenever every push and pop has returned, each queued cell can be       *)
(* popped and each other cell can be pushed.                               *)
THEOREM CellsNeverLost ==
  ASSUME Capacity >= 2 PROVE QueueSpec => []NoCellLost
<1>1. QueueInv => NoCellLost
  BY DEF QueueInv, QueuedCells, FreeCells, NoCellLost, Pushing, Popping
<1> QED BY <1>1, QueueInvariant, PTL

-----------------------------------------------------------------------------

(* What push and pop know when they give up: positions loaded from a       *)
(* counter are not ahead of it, and no cell's sequence number is below     *)
(* what the positions claimed so far left there.                           *)
THEOREM RefusalInvariant ==
  ASSUME Capacity >= 2 PROVE QueueSpec => []RefusalInv
<1>1. QueueInit => RefusalInv
  BY DEF QueueInit, RefusalInv, IdleArg, PosLoaded, SeqGrown
<1>2. QueueInv /\ RefusalInv /\ [QueueNext]_queueVars => RefusalInv'
  <2> SUFFICES ASSUME QueueInv, RefusalInv, [QueueNext]_queueVars PROVE RefusalInv'
    OBVIOUS
  <2> USE CapacityAssumption
  <2>1. QueueTypeOK
    BY DEF QueueInv
  <2>2. \A p \in Nat : CellOf(p) \in Cells
    BY CellOfType
  \* a sequence number that grows keeps every bound from below
  <2>3. ASSUME NEW t \in Threads, NEW n \in Nat, seq[CellOf(pos[t])] <= n,
               seq' = [seq EXCEPT ![CellOf(pos[t])] = n],
               UNCHANGED <<enqueuePos, dequeuePos>>
        PROVE  SeqGrown'
    <3>1. \A p \in Nat : seq'[CellOf(p)] >= seq[CellOf(p)] /\ seq'[CellOf(p)] \in Nat
                         /\ seq[CellOf(p)] \in Nat
      BY <2>1, <2>2, <2>3 DEF QueueTypeOK
    <3> QED BY <2>1, <2>3, <3>1 DEF RefusalInv, SeqGrown, QueueTypeOK
  <2>4. ASSUME NEW t \in Threads,
               \/ \E v \in Values : PushStart(t, v)
               \/ PushLookTry(t) \/ PushLookFull(t) \/ PushLookReload(t) \/ PushCasFail(t)
               \/ PushWrite(t)
               \/ PopStart(t) \/ PopLookTry(t) \/ PopLookEmpty(t) \/ PopLookReload(t)
               \/ PopCasFail(t) \/ PopRead(t)
        PROVE  RefusalInv'
    <3> USE DEF PushStart, PushLookTry, PushLookFull, PushLookReload, PushCasFail, PushWrite,
                PopStart, PopLookTry, PopLookEmpty, PopLookReload, PopCasFail, PopRead,
                LoadPos, Goto, Finish
    <3>1. UNCHANGED <<seq, enqueuePos, dequeuePos>>
      BY <2>4
    <3>2. SeqGrown'
      BY <3>1 DEF RefusalInv, SeqGrown
    <3>3. IdleArg'
      BY <2>1, <2>4 DEF RefusalInv, IdleArg, QueueTypeOK
    <3>4. PosLoaded'
      BY <2>1, <2>4 DEF RefusalInv, PosLoaded, QueueTypeOK
    <3> QED BY <3>2, <3>3, <3>4 DEF RefusalInv
  <2>5. ASSUME NEW t \in Threads, PushCasOk(t) PROVE RefusalInv'
    <3>1. enqueuePos < dequeuePos + Capacity /\ seq[CellOf(enqueuePos)] = enqueuePos
      BY <2>5, PushClaimFacts DEF PushCasOk, PushClaims
    <3> USE <2>1, <2>5 DEF PushCasOk, PushClaims, Goto, RefusalInv, QueueTypeOK
    <3>2. SeqGrown'
      BY <3>1 DEF SeqGrown
    <3>3. IdleArg' /\ PosLoaded'
      BY DEF IdleArg, PosLoaded
    <3> QED BY <3>2, <3>3
  <2>6. ASSUME NEW t \in Threads, PopCasOk(t) PROVE RefusalInv'
    <3>1. dequeuePos < enqueuePos /\ seq[CellOf(dequeuePos)] = dequeuePos + 1
      BY <2>6, PopClaimFacts DEF PopCasOk, PopClaims
    <3> USE <2>1, <2>6 DEF PopCasOk, PopClaims, Goto, RefusalInv, QueueTypeOK
    <3>2. SeqGrown'
      BY <3>1 DEF SeqGrown
    <3>3. IdleArg' /\ PosLoaded'
      BY DEF IdleArg, PosLoaded
    <3> QED BY <3>2, <3>3
  <2>7. ASSUME NEW t \in Threads, PushPublish(t) PROVE RefusalInv'
    <3>1. seq[CellOf(pos[t])] = pos[t]
      BY <2>7 DEF PushPublish, QueueInv, PushersOwn, Pushing
    <3>2. SeqGrown'
      <4>1. /\ pos[t] + 1 \in Nat /\ seq[CellOf(pos[t])] <= pos[t] + 1
            /\ seq' = [seq EXCEPT ![CellOf(pos[t])] = pos[t] + 1]
            /\ UNCHANGED <<enqueuePos, dequeuePos>>
        BY <2>1, <2>7, <3>1 DEF PushPublish, PublishedSeq, QueueTypeOK
      <4> QED BY <2>3, <4>1
    <3>3. IdleArg' /\ PosLoaded'
      BY <2>1, <2>7 DEF PushPublish, Finish, Goto, RefusalInv, IdleArg, PosLoaded, QueueTypeOK
    <3> QED BY <3>2, <3>3 DEF RefusalInv
  <2>8. ASSUME NEW t \in Threads, PopRelease(t) PROVE RefusalInv'
    <3>1. seq[CellOf(pos[t])] = pos[t] + 1
      BY <2>8 DEF PopRelease, QueueInv, PoppersOwn, Popping
    <3>2. SeqGrown'
      <4>1. /\ pos[t] + Capacity \in Nat /\ seq[CellOf(pos[t])] <= pos[t] + Capacity
            /\ seq' = [seq EXCEPT ![CellOf(pos[t])] = pos[t] + Capacity]
            /\ UNCHANGED <<enqueuePos, dequeuePos>>
        BY <2>1, <2>8, <3>1 DEF PopRelease, ReleasedSeq, QueueTypeOK
      <4> QED BY <2>3, <4>1
    <3>3. IdleArg' /\ PosLoaded'
      BY <2>1, <2>8 DEF PopRelease, Finish, Goto, RefusalInv, IdleArg, PosLoaded, QueueTypeOK
    <3> QED BY <3>2, <3>3 DEF RefusalInv
  <2>9. CASE UNCHANGED queueVars
    BY <2>9 DEF queueVars, RefusalInv, IdleArg, PosLoaded, SeqGrown
  <2> QED BY <2>4, <2>5, <2>6, <2>7, <2>8, <2>9 DEF QueueNext, Push, Pop
<1> QED BY <1>1, <1>2, QueueInvariant, PTL DEF QueueSpec

(* A thread has claimed position p and not written its argument there.     *)
Writes(t, p) == pc[t] = "pushWrite" /\ pos[t] = p

(* What a queued position holds: the argument of the push that claimed it  *)
(* and has not written yet, or else the content of its cell.               *)
EntryFacts ==
  \A p \in Nat :
    /\ \A t \in Threads : Writes(t, p) => Entry(p) = arg[t]
    /\ (\A t \in Threads : ~Writes(t, p)) => Entry(p) = value[CellOf(p)]
    /\ Entry(p) \in Values \cup {NoValue}

(* Entry's CHOOSE has at most one candidate, since claims are distinct.    *)
LEMMA EntryIs == QueueInv => EntryFacts
<1> SUFFICES ASSUME QueueInv, NEW p \in Nat
             PROVE  /\ \A t \in Threads : Writes(t, p) => Entry(p) = arg[t]
                    /\ (\A t \in Threads : ~Writes(t, p)) => Entry(p) = value[CellOf(p)]
                    /\ Entry(p) \in Values \cup {NoValue}
  BY DEF EntryFacts
<1>1. ASSUME NEW t \in Threads, Writes(t, p) PROVE Entry(p) = arg[t]
  <2> DEFINE w == CHOOSE u \in Threads : pc[u] = "pushWrite" /\ pos[u] = p
  <2>1. w \in Threads /\ pc[w] = "pushWrite" /\ pos[w] = p
    BY <1>1 DEF Writes
  <2>2. Entry(p) = arg[w]
    BY <1>1 DEF Entry, Writes
  <2> HIDE DEF w
  <2>3. w = t
    BY <1>1, <2>1 DEF QueueInv, ClaimsDistinct, Pushing, Writes
  <2> QED BY <2>2, <2>3
<1>2. ASSUME \A t \in Threads : ~Writes(t, p)
      PROVE  Entry(p) = value[CellOf(p)]
  BY <1>2 DEF Entry, Writes
<1>3. Entry(p) \in Values \cup {NoValue}
  <2>1. CASE \E t \in Threads : Writes(t, p)
    BY <1>1, <2>1 DEF QueueInv, QueueTypeOK
  <2>2. CASE \A t \in Threads : ~Writes(t, p)
    BY <1>2, <2>2, CellOfType DEF QueueInv, QueueTypeOK
  <2> QED BY <2>1, <2>2
<1> QED BY <1>1, <1>2, <1>3

(* The queued values form a sequence, one per position of the window.      *)
FifoFacts ==
  /\ FifoOf \in Seq(Values \cup {NoValue})
  /\ Len(FifoOf) = enqueuePos - dequeuePos
  /\ \A p \in dequeuePos .. enqueuePos - 1 : FifoOf[p - dequeuePos + 1] = Entry(p)

(* The abstraction of the cells to a FIFO is well formed.                  *)
LEMMA FifoType == QueueInv => FifoFacts
<1> SUFFICES ASSUME QueueInv PROVE FifoFacts
  OBVIOUS
<1> DEFINE n == enqueuePos - dequeuePos
<1>1. n \in Nat /\ dequeuePos \in Nat
  BY DEF QueueInv, QueueTypeOK, WindowOrdered
<1>2. \A i \in 1 .. n : Entry(dequeuePos + i - 1) \in Values \cup {NoValue}
  BY <1>1, EntryIs DEF EntryFacts
<1>3. FifoOf = [i \in 1 .. n |-> Entry(dequeuePos + i - 1)]
  BY DEF FifoOf
<1> HIDE DEF n
<1>4. FifoOf \in [1 .. n -> Values \cup {NoValue}]
  BY <1>2, <1>3
<1>5. FifoOf \in Seq(Values \cup {NoValue}) /\ Len(FifoOf) = n
  BY <1>1, <1>4
<1>6. \A p \in dequeuePos .. enqueuePos - 1 : FifoOf[p - dequeuePos + 1] = Entry(p)
  <2> SUFFICES ASSUME NEW p \in dequeuePos .. enqueuePos - 1
               PROVE  FifoOf[p - dequeuePos + 1] = Entry(p)
    OBVIOUS
  <2> DEFINE i == p - dequeuePos + 1
  <2>1. i \in 1 .. n /\ dequeuePos + i - 1 = p
    BY <1>1 DEF n, QueueInv, QueueTypeOK
  <2> HIDE DEF i
  <2>2. FifoOf[i] = Entry(dequeuePos + i - 1)
    BY <1>3, <2>1
  <2> QED BY <2>1, <2>2 DEF i
<1> QED BY <1>5, <1>6 DEF n, FifoFacts

(* The queue is a bounded FIFO, whatever the interleaving of its callers:  *)
(* a push takes effect at its successful compare_exchange on m_enqueuePos, *)
(* a pop at the one on m_dequeuePos, a refusal is one the FIFO may make,   *)
(* and every other access to memory changes nothing a caller can see.      *)
THEOREM FifoImplemented ==
  ASSUME Capacity >= 2 PROVE QueueSpec => ImplementsFifo
<1> USE CapacityAssumption
<1>1. QueueInit => Fifo!Init
  <2> SUFFICES ASSUME QueueInit PROVE Fifo!Init
    OBVIOUS
  <2>1. FifoOf = <<>>
    BY DEF QueueInit, FifoOf
  <2>2. CallOf = [t \in Threads |-> [phase |-> "idle", val |-> NoValue, pos |-> 0]]
    BY DEF QueueInit, CallOf, PhaseOf, InCell, Pushing, Popping
  <2> QED BY <2>1, <2>2 DEF QueueInit, Fifo!Init, Fifo!Idle, Fifo!Called
<1>2. QueueInv /\ QueueInv' /\ RefusalInv /\ [QueueNext]_queueVars => [Fifo!Next]_Fifo!vars
  <2> SUFFICES ASSUME QueueInv, QueueInv', RefusalInv, [QueueNext]_queueVars
               PROVE  [Fifo!Next]_Fifo!vars
    OBVIOUS
  <2> DEFINE valOf(t) == IF pc[t] = "popRead" THEN value[CellOf(pos[t])] ELSE arg[t]
             atOf(t) == IF InCell(t) THEN pos[t] ELSE 0
  <2>1. QueueTypeOK /\ QueueTypeOK' /\ WindowOrdered /\ WindowOrdered'
    BY DEF QueueInv
  <2>2. EntryFacts /\ FifoFacts
    BY EntryIs, FifoType
  <2>3. EntryFacts' /\ FifoFacts'
    <3>1. (QueueInv => EntryFacts)' BY EntryIs, PTL
    <3>2. (QueueInv => FifoFacts)' BY FifoType, PTL
    <3> QED BY <3>1, <3>2
  \* the abstract call of thread t
  <2>4. /\ CallOf = [t \in Threads |->
                       [phase |-> PhaseOf(t), val |-> valOf(t), pos |-> atOf(t)]]
        /\ CallOf' = [t \in Threads |->
                        [phase |-> PhaseOf(t)', val |-> valOf(t)', pos |-> atOf(t)']]
    BY DEF CallOf
  \* a step that keeps every entry of the window keeps the FIFO
  <2>5. ASSUME UNCHANGED <<enqueuePos, dequeuePos>>,
               \A p \in dequeuePos .. enqueuePos - 1 : Entry(p)' = Entry(p)
        PROVE  FifoOf' = FifoOf
    <3>1. /\ FifoOf \in Seq(Values \cup {NoValue}) /\ FifoOf' \in Seq(Values \cup {NoValue})
          /\ Len(FifoOf) = enqueuePos - dequeuePos /\ Len(FifoOf') = enqueuePos - dequeuePos
      BY <2>2, <2>3, <2>5 DEF FifoFacts
    <3>2. ASSUME NEW i \in 1 .. Len(FifoOf) PROVE FifoOf'[i] = FifoOf[i]
      <4>1. PICK p \in dequeuePos .. enqueuePos - 1 : i = p - dequeuePos + 1
        <5>1. dequeuePos + i - 1 \in dequeuePos .. enqueuePos - 1
          BY <2>1, <3>1 DEF QueueTypeOK
        <5>2. i = (dequeuePos + i - 1) - dequeuePos + 1
          BY <2>1 DEF QueueTypeOK
        <5> QED BY <5>1, <5>2
      <4>2. FifoOf[i] = Entry(p) /\ FifoOf'[i] = Entry(p)'
        BY <2>2, <2>3, <2>5, <4>1 DEF FifoFacts
      <4> QED BY <2>5, <4>1, <4>2
    <3> QED BY <3>1, <3>2, SeqEqual
  \* a step of one thread leaves the calls of the others alone
  <2>6. ASSUME NEW t \in Threads, Push(t) \/ Pop(t), NEW u \in Threads, u # t
        PROVE  pc'[u] = pc[u] /\ pos'[u] = pos[u] /\ arg'[u] = arg[u]
    BY <2>1, <2>6
    DEF Push, Pop, PushStart, PushLookTry, PushLookFull, PushLookReload, PushCasOk, PushCasFail,
        PushWrite, PushPublish, PopStart, PopLookTry, PopLookEmpty, PopLookReload, PopCasOk,
        PopCasFail, PopRead, PopRelease, LoadPos, Goto, Finish, QueueTypeOK
  <2>7. ASSUME NEW t \in Threads, Push(t) \/ Pop(t), UNCHANGED value,
               NEW ph, NEW v, NEW p, PhaseOf(t)' = ph, valOf(t)' = v, atOf(t)' = p
        PROVE  CallOf' = [CallOf EXCEPT ![t] = [phase |-> ph, val |-> v, pos |-> p]]
    <3>1. \A u \in Threads : u # t =>
            PhaseOf(u)' = PhaseOf(u) /\ valOf(u)' = valOf(u) /\ atOf(u)' = atOf(u)
      BY <2>6, <2>7 DEF PhaseOf, InCell, Pushing, Popping
    <3> QED BY <2>4, <2>7, <3>1, Zenon
  \* neither claiming nor writing: every position keeps its entry
  <2>8. ASSUME NEW t \in Threads, Push(t) \/ Pop(t), UNCHANGED value,
               pc[t] # "pushWrite", pc'[t] # "pushWrite"
        PROVE  \A p \in Nat : Entry(p)' = Entry(p)
    <3> SUFFICES ASSUME NEW p \in Nat PROVE Entry(p)' = Entry(p)
      OBVIOUS
    <3>1. \A u \in Threads : /\ Writes(u, p)' <=> Writes(u, p)
                             /\ Writes(u, p) => arg'[u] = arg[u]
      BY <2>6, <2>8 DEF Writes
    <3> QED BY <2>2, <2>3, <2>8, <3>1 DEF EntryFacts
  <2>9. ASSUME NEW t \in Threads, Push(t) \/ Pop(t), UNCHANGED <<value, enqueuePos, dequeuePos>>,
               pc[t] # "pushWrite", pc'[t] # "pushWrite"
        PROVE  FifoOf' = FifoOf
    BY <2>1, <2>5, <2>8, <2>9 DEF QueueTypeOK
  \* the abstract call as a caller sees it
  <2>10. \A t \in Threads : /\ CallOf[t].phase = PhaseOf(t) /\ CallOf[t].val = valOf(t)
                             /\ CallOf[t].pos = atOf(t)
    BY <2>4
  \* which calls are in a cell, and in which
  <2>22. ASSUME NEW p
         PROVE  /\ Fifo!Inside("pushed", p) <=> \E u \in Threads : Pushing(u) /\ pos[u] = p
                /\ Fifo!Inside("popped", p) <=> \E u \in Threads : Popping(u) /\ pos[u] = p
    <3>1. ASSUME NEW u \in Threads
          PROVE  /\ Pushing(u) <=> CallOf[u].phase = "pushed"
                 /\ Popping(u) <=> CallOf[u].phase = "popped"
                 /\ Pushing(u) \/ Popping(u) => CallOf[u].pos = pos[u]
      <4>1. CallOf[u].phase = PhaseOf(u) /\ CallOf[u].pos = atOf(u)
        BY <2>10
      <4>2. /\ Pushing(u) <=> PhaseOf(u) = "pushed"
            /\ Popping(u) <=> PhaseOf(u) = "popped"
        BY <2>1 DEF PhaseOf, Pushing, Popping, QueueTypeOK, PCs
      <4> QED BY <4>1, <4>2 DEF InCell
    <3> QED BY <3>1 DEF Fifo!Inside
  <2>23. Fifo!head = dequeuePos
    BY <2>1, <2>2 DEF Fifo!head, FifoFacts, QueueTypeOK
  \* calls that start
  <2>11. ASSUME NEW t \in Threads, NEW v \in Values, PushStart(t, v) PROVE Fifo!Next
    <3>1. UNCHANGED <<value, enqueuePos, dequeuePos>> /\ Push(t)
      BY <2>11 DEF PushStart, Push
    <3>2. pc[t] = "idle" /\ pc'[t] = "pushSeq" /\ arg'[t] = v
      BY <2>1, <2>11 DEF PushStart, Goto, QueueTypeOK
    <3>3. CallOf' = [CallOf EXCEPT ![t] = [phase |-> "push", val |-> v, pos |-> 0]]
      BY <2>7, <3>1, <3>2 DEF PhaseOf, InCell, Pushing, Popping
    <3>4. FifoOf' = FifoOf
      BY <2>9, <3>1, <3>2
    <3>5. CallOf[t].phase = "idle"
      BY <2>10, <3>2 DEF PhaseOf, Pushing, Popping
    <3> QED BY <3>1, <3>3, <3>4, <3>5 DEF Fifo!Next, Fifo!CallPush, Fifo!Called
  <2>12. ASSUME NEW t \in Threads, PopStart(t) PROVE Fifo!Next
    <3>1. UNCHANGED <<value, enqueuePos, dequeuePos>> /\ Pop(t)
      BY <2>12 DEF PopStart, Pop
    <3>2. pc[t] = "idle" /\ pc'[t] = "popSeq" /\ arg'[t] = NoValue
      BY <2>1, <2>12 DEF PopStart, Goto, QueueTypeOK, RefusalInv, IdleArg
    <3>3. CallOf' = [CallOf EXCEPT ![t] = [phase |-> "pop", val |-> NoValue, pos |-> 0]]
      BY <2>7, <3>1, <3>2 DEF PhaseOf, InCell, Pushing, Popping
    <3>4. FifoOf' = FifoOf
      BY <2>9, <3>1, <3>2
    <3>5. CallOf[t].phase = "idle"
      BY <2>10, <3>2 DEF PhaseOf, Pushing, Popping
    <3> QED BY <3>1, <3>3, <3>4, <3>5 DEF Fifo!Next, Fifo!CallPop, Fifo!Called
  \* calls that end
  <2>13. ASSUME NEW t \in Threads,
                PushLookFull(t) \/ PopLookEmpty(t) \/ PushPublish(t) \/ PopRelease(t)
         PROVE  /\ CallOf' = [CallOf EXCEPT ![t] = Fifo!Idle]
                /\ FifoOf' = FifoOf /\ enqueuePos' = enqueuePos
    <3>1. UNCHANGED <<value, enqueuePos, dequeuePos>> /\ (Push(t) \/ Pop(t))
      BY <2>13 DEF PushLookFull, PopLookEmpty, PushPublish, PopRelease, Push, Pop
    <3>2. pc[t] # "pushWrite" /\ pc'[t] = "idle" /\ arg'[t] = NoValue
      BY <2>1, <2>13
      DEF PushLookFull, PopLookEmpty, PushPublish, PopRelease, Finish, Goto, QueueTypeOK
    <3>3. CallOf' = [CallOf EXCEPT ![t] = [phase |-> "idle", val |-> NoValue, pos |-> 0]]
      BY <2>7, <3>1, <3>2 DEF PhaseOf, InCell, Pushing, Popping
    <3> QED BY <2>9, <3>1, <3>2, <3>3 DEF Fifo!Idle, Fifo!Called
  \* a push finds its cell behind: the queue is full or a pop is inside the cell
  <2>14. ASSUME NEW t \in Threads, PushLookFull(t) PROVE Fifo!Next
    <3>1. CallOf[t].phase = "push"
      BY <2>10, <2>14 DEF PushLookFull, PhaseOf, Pushing, Popping
    <3>2. pos[t] = enqueuePos
      <4>1. pos[t] \in 0 .. enqueuePos /\ seq[CellOf(pos[t])] < pos[t]
        BY <2>1, <2>14 DEF PushLookFull, Behind, RefusalInv, PosLoaded, QueueTypeOK
      <4>2. ASSUME pos[t] \in 0 .. enqueuePos - 1 PROVE FALSE
        <5>1. seq[CellOf(pos[t])] >= pos[t] /\ seq[CellOf(pos[t])] \in Nat
          BY <2>1, <4>2, CellOfType DEF RefusalInv, SeqGrown, QueueTypeOK
        <5> QED BY <2>1, <4>1, <5>1 DEF QueueTypeOK
      <4> QED BY <2>1, <4>1, <4>2 DEF QueueTypeOK
    <3>3. \/ Len(FifoOf) = Capacity
          \/ \E u \in Threads : Popping(u) /\ pos[u] = enqueuePos - Capacity
      <4>1. CASE enqueuePos = dequeuePos + Capacity
        BY <2>1, <2>2, <4>1 DEF FifoFacts, QueueTypeOK
      <4>2. CASE enqueuePos # dequeuePos + Capacity
        <5>1. enqueuePos \in enqueuePos .. dequeuePos + Capacity - 1
          BY <2>1, <4>2 DEF WindowOrdered, QueueTypeOK
        <5>2. seq[CellOf(enqueuePos)] # enqueuePos
          BY <2>1, <2>14, <3>2 DEF PushLookFull, Behind, QueueTypeOK
        <5> QED BY <5>1, <5>2 DEF QueueInv, FreeCells
      <4> QED BY <4>1, <4>2
    <3>4. ~Fifo!HasRoom
      BY <2>22, <3>3 DEF Fifo!HasRoom
    <3> QED BY <2>13, <2>14, <3>1, <3>4 DEF Fifo!Next, Fifo!RefusePush
  \* a pop finds its cell behind: the queue is empty or a push is inside the cell
  <2>15. ASSUME NEW t \in Threads, PopLookEmpty(t) PROVE Fifo!Next
    <3>1. CallOf[t].phase = "pop"
      BY <2>10, <2>15 DEF PopLookEmpty, PhaseOf, Pushing, Popping
    <3>2. pos[t] = dequeuePos
      <4>1. pos[t] \in 0 .. dequeuePos /\ seq[CellOf(pos[t])] < pos[t] + 1
        BY <2>1, <2>15 DEF PopLookEmpty, Behind, RefusalInv, PosLoaded, QueueTypeOK
      <4>2. ASSUME pos[t] \in 0 .. dequeuePos - 1 PROVE FALSE
        <5>1. seq[CellOf(pos[t])] >= pos[t] + 1 /\ seq[CellOf(pos[t])] \in Nat
          BY <2>1, <4>2, CellOfType DEF RefusalInv, SeqGrown, QueueTypeOK
        <5> QED BY <2>1, <4>1, <5>1 DEF QueueTypeOK
      <4> QED BY <2>1, <4>1, <4>2 DEF QueueTypeOK
    <3>3. FifoOf = <<>> \/ \E u \in Threads : Pushing(u) /\ pos[u] = dequeuePos
      <4>1. CASE enqueuePos = dequeuePos
        <5>1. FifoOf \in Seq(Values \cup {NoValue}) /\ Len(FifoOf) = 0
          BY <2>1, <2>2, <4>1 DEF FifoFacts, QueueTypeOK
        <5> QED BY <5>1, EmptySeq
      <4>2. CASE enqueuePos # dequeuePos
        <5>1. dequeuePos \in dequeuePos .. enqueuePos - 1
          BY <2>1, <4>2 DEF WindowOrdered, QueueTypeOK
        <5>2. seq[CellOf(dequeuePos)] # dequeuePos + 1
          BY <2>1, <2>15, <3>2 DEF PopLookEmpty, Behind, QueueTypeOK
        <5> QED BY <5>1, <5>2 DEF QueueInv, QueuedCells
      <4> QED BY <4>1, <4>2
    <3>4. ~Fifo!HasEntry
      BY <2>22, <2>23, <3>3 DEF Fifo!HasEntry
    <3> QED BY <2>13, <2>15, <3>1, <3>4 DEF Fifo!Next, Fifo!RefusePop
  <2>16. ASSUME NEW t \in Threads, PushPublish(t) \/ PopRelease(t) PROVE Fifo!Next
    <3>1. CallOf[t].phase \in {"pushed", "popped"}
      BY <2>10, <2>16 DEF PushPublish, PopRelease, PhaseOf, Pushing, Popping
    <3> QED BY <2>13, <2>16, <3>1 DEF Fifo!Next, Fifo!Return
  \* the claims: the instant at which a call takes effect
  <2>17. ASSUME NEW t \in Threads, PushCasOk(t) PROVE Fifo!Next
    <3>1. /\ enqueuePos' = enqueuePos + 1 /\ pos[t] = enqueuePos /\ pos'[t] = enqueuePos
          /\ pc[t] = "pushCas" /\ pc'[t] = "pushWrite" /\ arg'[t] = arg[t]
          /\ UNCHANGED <<value, dequeuePos>> /\ Push(t)
      BY <2>1, <2>17 DEF PushCasOk, PushClaims, Goto, Push, QueueTypeOK
    <3>2. enqueuePos < dequeuePos + Capacity /\ seq[CellOf(enqueuePos)] = enqueuePos
      BY <3>1, PushClaimFacts
    <3>3. CallOf' = [CallOf EXCEPT ![t] = [phase |-> "pushed", val |-> arg[t],
                                           pos |-> enqueuePos]]
      BY <2>7, <3>1 DEF PhaseOf, InCell, Pushing, Popping
    <3>4. CallOf[t] = [phase |-> "push", val |-> arg[t], pos |-> 0]
      BY <2>4, <3>1 DEF PhaseOf, InCell, Pushing, Popping
    <3>5. \A p \in dequeuePos .. enqueuePos - 1 : Entry(p)' = Entry(p)
      <4> SUFFICES ASSUME NEW p \in dequeuePos .. enqueuePos - 1 PROVE Entry(p)' = Entry(p)
        OBVIOUS
      <4>1. p \in Nat /\ p # enqueuePos
        BY <2>1 DEF QueueTypeOK
      <4>2. \A u \in Threads : /\ Writes(u, p)' <=> Writes(u, p)
                               /\ Writes(u, p) => arg'[u] = arg[u]
        BY <2>6, <3>1, <4>1 DEF Writes
      <4> QED BY <2>2, <2>3, <3>1, <4>1, <4>2 DEF EntryFacts
    <3>6. ASSUME NEW p \in Nat, p = enqueuePos PROVE Entry(p)' = arg[t]
      BY <2>3, <3>1, <3>6 DEF EntryFacts, Writes
    <3>7. FifoOf' = Append(FifoOf, arg[t])
      <4> DEFINE V == Values \cup {NoValue}
                 n == enqueuePos - dequeuePos
      <4>1. /\ FifoOf \in Seq(V) /\ FifoOf' \in Seq(V) /\ arg[t] \in V
            /\ n \in Nat /\ Len(FifoOf) = n /\ Len(FifoOf') = n + 1
        BY <2>1, <2>2, <2>3, <3>1 DEF FifoFacts, QueueTypeOK, WindowOrdered
      <4>2. /\ Append(FifoOf, arg[t]) \in Seq(V)
            /\ Len(Append(FifoOf, arg[t])) = n + 1
            /\ \A i \in 1 .. n : Append(FifoOf, arg[t])[i] = FifoOf[i]
            /\ Append(FifoOf, arg[t])[n + 1] = arg[t]
        BY <4>1, AppendProperties
      <4>3. ASSUME NEW i \in 1 .. n + 1 PROVE FifoOf'[i] = Append(FifoOf, arg[t])[i]
        <5>1. PICK p \in dequeuePos .. enqueuePos : i = p - dequeuePos + 1
          <6>1. /\ dequeuePos + i - 1 \in dequeuePos .. enqueuePos
                /\ i = (dequeuePos + i - 1) - dequeuePos + 1
            BY <2>1, <4>1 DEF QueueTypeOK
          <6> QED BY <6>1
        <5>2. FifoOf'[i] = Entry(p)'
          BY <2>1, <2>3, <3>1, <5>1 DEF FifoFacts, QueueTypeOK
        <5>3. CASE p = enqueuePos
          BY <2>1, <3>6, <4>2, <5>1, <5>2, <5>3 DEF QueueTypeOK
        <5>4. CASE p # enqueuePos
          <6>1. p \in dequeuePos .. enqueuePos - 1 /\ i \in 1 .. n
            BY <2>1, <5>1, <5>4 DEF QueueTypeOK
          <6> QED BY <2>2, <3>5, <4>2, <5>1, <5>2, <6>1 DEF FifoFacts
        <5> QED BY <5>3, <5>4
      <4> HIDE DEF V, n
      <4> QED BY <4>1, <4>2, <4>3, SeqEqual
    <3>8. Fifo!HasRoom
      <4>1. Len(FifoOf) < Capacity
        BY <2>1, <2>2, <3>2 DEF FifoFacts, QueueTypeOK
      <4>2. ASSUME NEW u \in Threads, Popping(u), pos[u] = enqueuePos - Capacity PROVE FALSE
        <5>1. pos[u] \in Nat /\ seq[CellOf(pos[u])] = pos[u] + 1
          BY <2>1, <4>2 DEF QueueInv, PoppersOwn, QueueTypeOK
        <5>2. CellOf(pos[u]) = CellOf(enqueuePos)
          <6>1. CellOf(pos[u] + Capacity) = CellOf(pos[u])
            BY <5>1, CellOfShift
          <6> QED BY <2>1, <4>2, <6>1 DEF QueueTypeOK
        <5> QED BY <2>1, <3>2, <4>2, <5>1, <5>2 DEF QueueTypeOK
      <4> QED BY <2>22, <4>1, <4>2 DEF Fifo!HasRoom
    <3>9. Fifo!DoPush(t)
      <4>1. CallOf' = [CallOf EXCEPT ![t].phase = "pushed", ![t].pos = enqueuePos]
        BY <2>4, <3>3, <3>4
      <4> QED BY <3>1, <3>4, <3>7, <3>8, <4>1 DEF Fifo!DoPush
    <3> QED BY <3>9 DEF Fifo!Next
  <2>18. ASSUME NEW t \in Threads, PopCasOk(t) PROVE Fifo!Next
    <3>1. /\ dequeuePos' = dequeuePos + 1 /\ pos[t] = dequeuePos /\ pos'[t] = dequeuePos
          /\ pc[t] = "popCas" /\ pc'[t] = "popRead"
          /\ UNCHANGED <<value, enqueuePos>> /\ Pop(t)
      BY <2>1, <2>18 DEF PopCasOk, PopClaims, Goto, Pop, QueueTypeOK
    <3>2. dequeuePos < enqueuePos /\ seq[CellOf(dequeuePos)] = dequeuePos + 1
      BY <3>1, PopClaimFacts
    <3>3. CallOf' = [CallOf EXCEPT ![t] = [phase |-> "popped", val |-> value[CellOf(dequeuePos)],
                                           pos |-> dequeuePos]]
      <4>1. /\ PhaseOf(t)' = "popped" /\ valOf(t)' = value[CellOf(dequeuePos)]
            /\ atOf(t)' = dequeuePos
        BY <3>1 DEF PhaseOf, InCell, Pushing, Popping
      <4> QED BY <2>7, <3>1, <4>1
    <3>4. CallOf[t].phase = "pop"
      BY <2>10, <3>1 DEF PhaseOf, Pushing, Popping
    <3>5. \A p \in Nat : Entry(p)' = Entry(p)
      BY <2>8, <3>1
    <3>6. FifoOf # <<>> /\ Head(FifoOf) = value[CellOf(dequeuePos)]
      <4>1. PICK d \in Nat : d = dequeuePos
        BY <2>1 DEF QueueTypeOK
      <4>2. \A u \in Threads : ~Writes(u, d)
        BY <2>1, <3>2, <4>1 DEF Writes, QueueInv, PushersOwn, Pushing, QueueTypeOK
      <4>3. Entry(d) = value[CellOf(dequeuePos)]
        BY <2>2, <4>1, <4>2 DEF EntryFacts
      <4>4. FifoOf[1] = Entry(d)
        <5>1. d \in dequeuePos .. enqueuePos - 1 /\ d - dequeuePos + 1 = 1
          BY <2>1, <3>2, <4>1 DEF QueueTypeOK
        <5> QED BY <2>2, <5>1 DEF FifoFacts
      <4>5. FifoOf \in Seq(Values \cup {NoValue}) /\ Len(FifoOf) # 0
        BY <2>1, <2>2, <3>2 DEF FifoFacts, QueueTypeOK
      <4>6. FifoOf # <<>>
        BY <4>5, EmptySeq
      <4> QED BY <4>3, <4>4, <4>5, <4>6
    <3>7. FifoOf' = Tail(FifoOf)
      <4> DEFINE V == Values \cup {NoValue}
                 n == enqueuePos - dequeuePos
      <4>1. /\ FifoOf \in Seq(V) /\ FifoOf' \in Seq(V)
            /\ n - 1 \in Nat /\ Len(FifoOf) = n /\ Len(FifoOf') = n - 1
        BY <2>1, <2>2, <2>3, <3>1, <3>2 DEF FifoFacts, QueueTypeOK
      <4>2. /\ Tail(FifoOf) \in Seq(V)
            /\ Len(Tail(FifoOf)) = n - 1
            /\ \A i \in 1 .. n - 1 : Tail(FifoOf)[i] = FifoOf[i + 1]
        BY <3>6, <4>1, HeadTailProperties
      <4>3. ASSUME NEW i \in 1 .. n - 1 PROVE FifoOf'[i] = Tail(FifoOf)[i]
        <5>1. PICK p \in dequeuePos + 1 .. enqueuePos - 1 : i = p - dequeuePos
          <6>1. /\ dequeuePos + i \in dequeuePos + 1 .. enqueuePos - 1
                /\ i = (dequeuePos + i) - dequeuePos
            BY <2>1, <4>1 DEF QueueTypeOK
          <6> QED BY <6>1
        <5>2. FifoOf'[i] = Entry(p)'
          BY <2>1, <2>3, <3>1, <5>1 DEF FifoFacts, QueueTypeOK
        <5>3. FifoOf[i + 1] = Entry(p)
          BY <2>1, <2>2, <5>1 DEF FifoFacts, QueueTypeOK
        <5>4. p \in Nat
          BY <2>1 DEF QueueTypeOK
        <5> QED BY <3>5, <4>2, <5>2, <5>3, <5>4
      <4> HIDE DEF V, n
      <4> QED BY <4>1, <4>2, <4>3, SeqEqual
    <3>8. Fifo!HasEntry
      <4>1. ASSUME NEW u \in Threads, Pushing(u), pos[u] = dequeuePos PROVE FALSE
        BY <2>1, <3>2, <4>1 DEF QueueInv, PushersOwn, QueueTypeOK
      <4> QED BY <2>22, <2>23, <3>6, <4>1 DEF Fifo!HasEntry
    <3> QED BY <2>23, <3>1, <3>3, <3>4, <3>6, <3>7, <3>8 DEF Fifo!Next, Fifo!DoPop
  \* accesses to the claimed cell and retries change nothing a caller can see
  <2>19. ASSUME NEW t \in Threads, PushWrite(t) PROVE UNCHANGED Fifo!vars
    <3>1. /\ pc[t] = "pushWrite" /\ pc'[t] = "pushPublish" /\ Push(t)
          /\ value' = [value EXCEPT ![CellOf(pos[t])] = arg[t]]
          /\ UNCHANGED <<seq, enqueuePos, dequeuePos, pos, arg>>
      BY <2>1, <2>19 DEF PushWrite, Goto, Push, QueueTypeOK
    <3>2. /\ pos[t] \in dequeuePos .. enqueuePos - 1
          /\ enqueuePos <= dequeuePos + Capacity
          /\ CellOf(pos[t]) \in Cells
      BY <2>1, <3>1, CellOfType DEF QueueInv, PushersOwn, Pushing, WindowOrdered, QueueTypeOK
    <3>3. \A p \in dequeuePos .. enqueuePos - 1 : Entry(p)' = Entry(p)
      <4> SUFFICES ASSUME NEW p \in dequeuePos .. enqueuePos - 1 PROVE Entry(p)' = Entry(p)
        OBVIOUS
      <4>1. p \in Nat /\ CellOf(p) \in Cells
        BY <2>1, CellOfType DEF QueueTypeOK
      <4>2. CASE p = pos[t]
        <5>1. Entry(p) = arg[t]
          BY <2>2, <3>1, <4>1, <4>2 DEF EntryFacts, Writes
        <5>2. \A u \in Threads : ~Writes(u, p)'
          <6>1. \A u \in Threads : u # t /\ Pushing(u) => pos[u] # p
            BY <3>1, <4>2 DEF QueueInv, ClaimsDistinct, Pushing
          <6> QED BY <2>6, <3>1, <6>1 DEF Writes, Pushing
        <5>3. Entry(p)' = value'[CellOf(p)]
          BY <2>3, <4>1, <5>2 DEF EntryFacts
        <5> QED BY <2>1, <3>1, <4>1, <4>2, <5>1, <5>3 DEF QueueTypeOK
      <4>3. CASE p # pos[t]
        <5>1. CellOf(p) # CellOf(pos[t])
          <6>1. pos[t] \in Nat /\ p < pos[t] + Capacity /\ pos[t] < p + Capacity
            BY <2>1, <3>2 DEF QueueTypeOK
          <6>2. CASE p < pos[t] BY <4>1, <6>1, <6>2, CellOfDistinct
          <6>3. CASE pos[t] < p BY <4>1, <6>1, <6>3, CellOfDistinct
          <6> QED BY <4>1, <4>3, <6>1, <6>2, <6>3
        <5>2. value'[CellOf(p)] = value[CellOf(p)]
          BY <2>1, <3>1, <4>1, <5>1 DEF QueueTypeOK
        <5>3. \A u \in Threads : /\ Writes(u, p)' <=> Writes(u, p)
                                 /\ Writes(u, p) => arg'[u] = arg[u]
          BY <2>6, <3>1, <4>3 DEF Writes
        <5> QED BY <2>2, <2>3, <4>1, <5>2, <5>3 DEF EntryFacts
      <4> QED BY <4>2, <4>3
    <3>4. FifoOf' = FifoOf
      BY <2>5, <3>1, <3>3
    <3>5. ASSUME NEW u \in Threads
          PROVE  PhaseOf(u)' = PhaseOf(u) /\ valOf(u)' = valOf(u) /\ atOf(u)' = atOf(u)
      <4>1. CASE u = t
        BY <3>1, <4>1 DEF PhaseOf, InCell, Pushing, Popping
      <4>2. CASE u # t
        <5>1. pc'[u] = pc[u] /\ pos'[u] = pos[u] /\ arg'[u] = arg[u]
          BY <2>6, <3>1, <4>2
        <5>2. pc[u] = "popRead" => value'[CellOf(pos[u])] = value[CellOf(pos[u])]
          <6>1. pc[u] = "popRead" => CellOf(pos[u]) # CellOf(pos[t])
            BY <3>1, <4>2, CellsApart DEF CellExclusive, InCell, Pushing, Popping
          <6> QED BY <2>1, <3>1, <6>1, CellOfType DEF QueueTypeOK
        <5> QED BY <5>1, <5>2 DEF PhaseOf, InCell, Pushing, Popping
      <4> QED BY <4>1, <4>2
    <3>6. CallOf' = CallOf
      BY <2>4, <3>5, Zenon
    <3> QED BY <3>1, <3>4, <3>6 DEF Fifo!vars
  <2>20. ASSUME NEW t \in Threads,
                \/ PushLookTry(t) \/ PushLookReload(t) \/ PushCasFail(t)
                \/ PopLookTry(t) \/ PopLookReload(t) \/ PopCasFail(t) \/ PopRead(t)
         PROVE  UNCHANGED Fifo!vars
    <3> USE DEF PushLookTry, PushLookReload, PushCasFail, PopLookTry, PopLookReload,
                PopCasFail, PopRead, Goto
    <3>1. UNCHANGED <<value, enqueuePos, dequeuePos>> /\ (Push(t) \/ Pop(t))
      BY <2>20 DEF Push, Pop
    <3>2. pc[t] # "pushWrite" /\ pc'[t] # "pushWrite"
      BY <2>1, <2>20 DEF QueueTypeOK
    <3>3. PhaseOf(t)' = PhaseOf(t) /\ valOf(t)' = valOf(t) /\ atOf(t)' = atOf(t)
      BY <2>1, <2>20 DEF PhaseOf, InCell, Pushing, Popping, LoadPos, QueueTypeOK
    <3>4. \A u \in Threads :
            PhaseOf(u)' = PhaseOf(u) /\ valOf(u)' = valOf(u) /\ atOf(u)' = atOf(u)
      BY <2>6, <3>1, <3>3 DEF PhaseOf, InCell, Pushing, Popping
    <3>5. CallOf' = CallOf
      BY <2>4, <3>4, Zenon
    <3> QED BY <2>9, <3>1, <3>2, <3>5 DEF Fifo!vars
  <2>21. CASE UNCHANGED queueVars
    <3>1. \A t \in Threads :
            PhaseOf(t)' = PhaseOf(t) /\ valOf(t)' = valOf(t) /\ atOf(t)' = atOf(t)
      BY <2>21 DEF queueVars, PhaseOf, InCell, Pushing, Popping
    <3>2. \A p \in Nat : Entry(p)' = Entry(p)
      BY <2>21 DEF queueVars, Entry
    <3>3. FifoOf' = FifoOf
      BY <2>1, <2>5, <2>21, <3>2 DEF queueVars, QueueTypeOK
    <3>4. CallOf' = CallOf
      BY <2>4, <3>1, Zenon
    <3> QED BY <2>21, <3>3, <3>4 DEF Fifo!vars, queueVars
  <2> QED
    BY <2>11, <2>12, <2>14, <2>15, <2>16, <2>17, <2>18, <2>19, <2>20, <2>21
    DEF QueueNext, Push, Pop
<1> QED BY <1>1, <1>2, QueueInvariant, RefusalInvariant, PTL DEF QueueSpec, ImplementsFifo, Fifo!Spec
=============================================================================
