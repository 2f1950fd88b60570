----------------------------- MODULE MPMCQueue -----------------------------
(***************************************************************************)
(* src/core/public/fiber/mpmc.h: the bounded multi-producer multi-consumer *)
(* queue of the fiber scheduler.  Every cell carries a sequence number     *)
(* that says whose turn it is: position p may be pushed into cell p % C    *)
(* when seq = p, and popped from it when seq = p + 1.                      *)
(*                                                                         *)
(* One action is one access to shared memory.  m_enqueuePos and            *)
(* m_dequeuePos are read with memory_order_relaxed, so a load (and a       *)
(* failed compare_exchange) may return any older value; cell sequence      *)
(* numbers are read with acquire and written with release.                 *)
(*                                                                         *)
(* size_t positions are natural numbers here: 2^64 operations are out of   *)
(* reach of a run of the program.  MaxPos bounds them for TLC.             *)
(***************************************************************************)
EXTENDS Integers

CONSTANTS Threads,    \* threads and fibers that share the queue
          Values,     \* what can be queued (Job pointers in the scheduler)
          NoValue,    \* content of a cell never written, argument of a pop
          Capacity,   \* number of cells, a power of two in the code
          MaxPos      \* bound: no push starts past this position

(* The constructor asserts a power of two.  Nothing below needs more than  *)
(* one cell, except that the properties hold only from two cells on.       *)
ASSUME CapacityAssumption == Capacity \in Nat \ {0}

ASSUME MaxPosAssumption == MaxPos \in Nat

ASSUME NoValueAssumption == NoValue \notin Values

VARIABLES seq,         \* cell -> Cell::seq
          value,       \* cell -> Cell::value
          enqueuePos,  \* m_enqueuePos
          dequeuePos,  \* m_dequeuePos
          pc,          \* thread -> next access of its current call
          pos,         \* thread -> local pos
          arg          \* thread -> v of a push, out of a pop

queueVars == <<seq, value, enqueuePos, dequeuePos, pc, pos, arg>>

Cells == 0 .. Capacity - 1

\* pos & m_mask
CellOf(p) == p % Capacity

PCs == {"idle", "pushSeq", "pushCas", "pushWrite", "pushPublish",
        "popSeq", "popCas", "popRead", "popRelease"}

-----------------------------------------------------------------------------
(* Deliberate slips, used only to show that the properties notice them:    *)
(* each stands in for the definition of the same stem further down.        *)
ReleasedSeq_SameLap(p) == p + 1
ReleasedSeq_Backwards(p) == p - Capacity
Behind_OrEqual(s, p) == s <= p
PushClaims_Stale(t) == pos[t] <= enqueuePos
PublishedSeq_NextLap(p) == p + Capacity

\* cell->seq.store(pos + 1): the value of position p can be popped
PublishedSeq(p) == p + 1

\* cell->seq.store(pos + m_capacity): the cell is free for its next lap
ReleasedSeq(p) == p + Capacity

\* dif < 0: the cell is still behind the position the caller looks for
Behind(s, p) == s < p

\* compare_exchange_weak on m_enqueuePos succeeds only at the current position
PushClaims(t) == pos[t] = enqueuePos

PopClaims(t) == pos[t] = dequeuePos

-----------------------------------------------------------------------------
QueueInit ==
  /\ seq = [c \in Cells |-> c]
  /\ value = [c \in Cells |-> NoValue]
  /\ enqueuePos = 0
  /\ dequeuePos = 0
  /\ pc = [t \in Threads |-> "idle"]
  /\ pos = [t \in Threads |-> 0]
  /\ arg = [t \in Threads |-> NoValue]

\* A relaxed load of a counter returns its current value or an older one.
LoadPos(t, counter) == \E p \in 0 .. counter : pos' = [pos EXCEPT ![t] = p]

Goto(t, label) == pc' = [pc EXCEPT ![t] = label]

Finish(t) == /\ Goto(t, "idle")
             /\ pos' = [pos EXCEPT ![t] = 0]
             /\ arg' = [arg EXCEPT ![t] = NoValue]

-----------------------------------------------------------------------------
(* push *)

PushStart(t, v) ==
  /\ pc[t] = "idle"
  /\ enqueuePos < MaxPos
  /\ arg' = [arg EXCEPT ![t] = v]
  /\ LoadPos(t, enqueuePos)
  /\ Goto(t, "pushSeq")
  /\ UNCHANGED <<seq, value, enqueuePos, dequeuePos>>

PushLookTry(t) ==
  /\ pc[t] = "pushSeq"
  /\ seq[CellOf(pos[t])] = pos[t]
  /\ Goto(t, "pushCas")
  /\ UNCHANGED <<seq, value, enqueuePos, dequeuePos, pos, arg>>

PushLookFull(t) ==
  /\ pc[t] = "pushSeq"
  /\ Behind(seq[CellOf(pos[t])], pos[t])
  /\ Finish(t)
  /\ UNCHANGED <<seq, value, enqueuePos, dequeuePos>>

PushLookReload(t) ==
  /\ pc[t] = "pushSeq"
  /\ seq[CellOf(pos[t])] > pos[t]
  /\ LoadPos(t, enqueuePos)
  /\ UNCHANGED <<seq, value, enqueuePos, dequeuePos, pc, arg>>

PushCasOk(t) ==
  /\ pc[t] = "pushCas"
  /\ PushClaims(t)
  /\ enqueuePos' = pos[t] + 1
  /\ Goto(t, "pushWrite")
  /\ UNCHANGED <<seq, value, dequeuePos, pos, arg>>

\* The weak compare_exchange may also fail spuriously.
PushCasFail(t) ==
  /\ pc[t] = "pushCas"
  /\ LoadPos(t, enqueuePos)
  /\ Goto(t, "pushSeq")
  /\ UNCHANGED <<seq, value, enqueuePos, dequeuePos, arg>>

PushWrite(t) ==
  /\ pc[t] = "pushWrite"
  /\ value' = [value EXCEPT ![CellOf(pos[t])] = arg[t]]
  /\ Goto(t, "pushPublish")
  /\ UNCHANGED <<seq, enqueuePos, dequeuePos, pos, arg>>

PushPublish(t) ==
  /\ pc[t] = "pushPublish"
  /\ seq' = [seq EXCEPT ![CellOf(pos[t])] = PublishedSeq(pos[t])]
  /\ Finish(t)
  /\ UNCHANGED <<value, enqueuePos, dequeuePos>>

-----------------------------------------------------------------------------
(* pop *)

PopStart(t) ==
  /\ pc[t] = "idle"
  /\ LoadPos(t, dequeuePos)
  /\ Goto(t, "popSeq")
  /\ UNCHANGED <<seq, value, enqueuePos, dequeuePos, arg>>

PopLookTry(t) ==
  /\ pc[t] = "popSeq"
  /\ seq[CellOf(pos[t])] = pos[t] + 1
  /\ Goto(t, "popCas")
  /\ UNCHANGED <<seq, value, enqueuePos, dequeuePos, pos, arg>>

PopLookEmpty(t) ==
  /\ pc[t] = "popSeq"
  /\ Behind(seq[CellOf(pos[t])], pos[t] + 1)
  /\ Finish(t)
  /\ UNCHANGED <<seq, value, enqueuePos, dequeuePos>>

PopLookReload(t) ==
  /\ pc[t] = "popSeq"
  /\ seq[CellOf(pos[t])] > pos[t] + 1
  /\ LoadPos(t, dequeuePos)
  /\ UNCHANGED <<seq, value, enqueuePos, dequeuePos, pc, arg>>

PopCasOk(t) ==
  /\ pc[t] = "popCas"
  /\ PopClaims(t)
  /\ dequeuePos' = pos[t] + 1
  /\ Goto(t, "popRead")
  /\ UNCHANGED <<seq, value, enqueuePos, pos, arg>>

PopCasFail(t) ==
  /\ pc[t] = "popCas"
  /\ LoadPos(t, dequeuePos)
  /\ Goto(t, "popSeq")
  /\ UNCHANGED <<seq, value, enqueuePos, dequeuePos, arg>>

PopRead(t) ==
  /\ pc[t] = "popRead"
  /\ arg' = [arg EXCEPT ![t] = value[CellOf(pos[t])]]
  /\ Goto(t, "popRelease")
  /\ UNCHANGED <<seq, value, enqueuePos, dequeuePos, pos>>

PopRelease(t) ==
  /\ pc[t] = "popRelease"
  /\ seq' = [seq EXCEPT ![CellOf(pos[t])] = ReleasedSeq(pos[t])]
  /\ Finish(t)
  /\ UNCHANGED <<value, enqueuePos, dequeuePos>>

-----------------------------------------------------------------------------
Push(t) == \/ \E v \in Values : PushStart(t, v)
           \/ PushLookTry(t)
           \/ PushLookFull(t)
           \/ PushLookReload(t)
           \/ PushCasOk(t)
           \/ PushCasFail(t)
           \/ PushWrite(t)
           \/ PushPublish(t)

Pop(t) == \/ PopStart(t)
          \/ PopLookTry(t)
          \/ PopLookEmpty(t)
          \/ PopLookReload(t)
          \/ PopCasOk(t)
          \/ PopCasFail(t)
          \/ PopRead(t)
          \/ PopRelease(t)

QueueNext == \E t \in Threads : Push(t) \/ Pop(t)

QueueSpec == QueueInit /\ [][QueueNext]_queueVars

-----------------------------------------------------------------------------
(* Safety *)

(* Every variable keeps its type; positions never become negative.         *)
QueueTypeOK ==
  /\ seq \in [Cells -> Nat]
  /\ value \in [Cells -> Values \cup {NoValue}]
  /\ enqueuePos \in Nat
  /\ dequeuePos \in Nat
  /\ pc \in [Threads -> PCs]
  /\ pos \in [Threads -> Nat]
  /\ arg \in [Threads -> Values \cup {NoValue}]

Pushing(t) == pc[t] \in {"pushWrite", "pushPublish"}

Popping(t) == pc[t] \in {"popRead", "popRelease"}

InCell(t) == Pushing(t) \/ Popping(t)

(* Cell::value is a plain field: two threads must never be between their   *)
(* compare_exchange and their seq.store on the same cell, whichever lap    *)
(* each of them is on.                                                     *)
CellExclusive ==
  \A t, u \in Threads :
    t # u /\ InCell(t) /\ InCell(u) => CellOf(pos[t]) # CellOf(pos[u])

(* The queue is bounded: the positions claimed by pushes are never more    *)
(* than Capacity ahead of those claimed by pops, so no value is written    *)
(* over one that was not taken.                                            *)
Bounded == enqueuePos - dequeuePos <= Capacity

(* No cell is lost: once every call has returned, the cells of the queued  *)
(* positions can be popped and all the others can be pushed, so a queue    *)
(* that is not full accepts and one that is not empty delivers.            *)
NoCellLost ==
  (\A t \in Threads : pc[t] = "idle") =>
    /\ \A p \in dequeuePos .. enqueuePos - 1 : seq[CellOf(p)] = p + 1
    /\ \A p \in enqueuePos .. dequeuePos + Capacity - 1 : seq[CellOf(p)] = p

-----------------------------------------------------------------------------
(* The inductive strengthening behind the theorems about the queue:        *)
(* the positions dequeuePos .. dequeuePos + Capacity - 1 visit every cell  *)
(* exactly once, and the sequence number of each of those cells is fixed   *)
(* by whether its position is queued and whether a thread is inside it.    *)

WindowOrdered == dequeuePos <= enqueuePos /\ enqueuePos <= dequeuePos + Capacity

QueuedCells ==
  \A p \in dequeuePos .. enqueuePos - 1 :
    \/ seq[CellOf(p)] = p + 1
    \/ seq[CellOf(p)] = p /\ \E t \in Threads : Pushing(t) /\ pos[t] = p

FreeCells ==
  \A p \in enqueuePos .. dequeuePos + Capacity - 1 :
    \/ seq[CellOf(p)] = p
    \/ /\ seq[CellOf(p)] = p - Capacity + 1
       /\ \E t \in Threads : Popping(t) /\ pos[t] = p - Capacity

PushersOwn ==
  \A t \in Threads : Pushing(t) =>
    pos[t] \in dequeuePos .. enqueuePos - 1 /\ seq[CellOf(pos[t])] = pos[t]

PoppersOwn ==
  \A t \in Threads : Popping(t) =>
    /\ pos[t] < dequeuePos /\ pos[t] + Capacity >= enqueuePos
    /\ seq[CellOf(pos[t])] = pos[t] + 1

ClaimsDistinct ==
  \A t, u \in Threads : t # u =>
    /\ Pushing(t) /\ Pushing(u) => pos[t] # pos[u]
    /\ Popping(t) /\ Popping(u) => pos[t] # pos[u]

LookedAhead ==
  \A t \in Threads :
    /\ pc[t] = "pushCas" => seq[CellOf(pos[t])] >= pos[t]
    /\ pc[t] = "popCas" => seq[CellOf(pos[t])] >= pos[t] + 1

QueueInv == /\ QueueTypeOK
            /\ WindowOrdered
            /\ QueuedCells
            /\ FreeCells
            /\ PushersOwn
            /\ PoppersOwn
            /\ ClaimsDistinct
            /\ LookedAhead

-----------------------------------------------------------------------------
(* Refinement: the queued values are the cells of the positions between    *)
(* the two counters, except that a claimed cell its pusher has not written *)
(* yet stands for that pusher's argument.                                  *)

Entry(p) ==
  IF \E t \in Threads : pc[t] = "pushWrite" /\ pos[t] = p
  THEN arg[CHOOSE t \in Threads : pc[t] = "pushWrite" /\ pos[t] = p]
  ELSE value[CellOf(p)]

FifoOf == [i \in 1 .. enqueuePos - dequeuePos |-> Entry(dequeuePos + i - 1)]

PhaseOf(t) == CASE pc[t] \in {"pushSeq", "pushCas"} -> "push"
                [] pc[t] \in {"popSeq", "popCas"}   -> "pop"
                [] Pushing(t)                       -> "pushed"
                [] Popping(t)                       -> "popped"
                [] OTHER                            -> "idle"

CallOf ==
  [t \in Threads |->
     [phase |-> PhaseOf(t),
      val   |-> IF pc[t] = "popRead" THEN value[CellOf(pos[t])] ELSE arg[t],
      pos   |-> IF InCell(t) THEN pos[t] ELSE 0]]

Fifo == INSTANCE BoundedFifo WITH fifo <- FifoOf, tail <- enqueuePos, call <- CallOf

(* Why every refusal is one the FIFO may make: a position that was loaded  *)
(* is never ahead of its counter, and sequence numbers only grow, so a     *)
(* cell that is behind means the queue is full (empty) at the current      *)
(* counter, or a call is inside that cell.                                 *)

IdleArg == \A t \in Threads : pc[t] = "idle" => arg[t] = NoValue

PosLoaded ==
  \A t \in Threads : /\ pc[t] = "pushSeq" => pos[t] <= enqueuePos
                     /\ pc[t] = "popSeq" => pos[t] <= dequeuePos

SeqGrown == /\ \A p \in 0 .. enqueuePos - 1 : seq[CellOf(p)] >= p
            /\ \A p \in 0 .. dequeuePos - 1 : seq[CellOf(p)] >= p + 1

RefusalInv == IdleArg /\ PosLoaded /\ SeqGrown

(* The queue implements the bounded FIFO: values come out in the order in  *)
(* which pushes claimed their positions, none twice, none lost, and a push *)
(* or a pop is refused only when the FIFO may refuse it.                   *)
ImplementsFifo == Fifo!Spec
=============================================================================
