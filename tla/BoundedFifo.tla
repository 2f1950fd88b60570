---------------------------- MODULE BoundedFifo ----------------------------
(***************************************************************************)
(* What fiber/mpmc.h promises its callers: a bounded first-in first-out    *)
(* queue shared by any number of threads.  A call is pending ("push",      *)
(* "pop"), then takes effect at one instant ("pushed", "popped"), then     *)
(* returns; a refused call returns without having taken effect.            *)
(*                                                                         *)
(* A call that has taken effect keeps its cell until it returns.  A pop is *)
(* refused when the queue is empty or the push of its head has not yet     *)
(* returned; a push is refused when the queue is full or the pop of the    *)
(* value Capacity places earlier has not yet returned; and only then.      *)
(***************************************************************************)
EXTENDS Integers, Sequences

CONSTANTS Threads,    \* threads and fibers that share the queue
          Values,     \* what can be queued
          NoValue,    \* the value of a call that carries none
          Capacity    \* number of cells

VARIABLES fifo,       \* the queued values, oldest first
          tail,       \* the number of pushes that have taken effect
          call        \* per thread: phase of the current call, value it carries,
                      \* and, once it has taken effect, the position of that value

vars == <<fifo, tail, call>>

Phases == {"idle", "push", "pushed", "pop", "popped"}

Called(ph, v) == [phase |-> ph, val |-> v, pos |-> 0]

Idle == Called("idle", NoValue)

\* the position of the oldest queued value
head == tail - Len(fifo)

\* a call of this phase is in the cell of position p
Inside(ph, p) == \E t \in Threads : call[t].phase = ph /\ call[t].pos = p

HasRoom == Len(fifo) < Capacity /\ ~Inside("popped", tail - Capacity)

HasEntry == fifo # <<>> /\ ~Inside("pushed", head)

Init == /\ fifo = <<>>
        /\ tail = 0
        /\ call = [t \in Threads |-> Idle]

CallPush(t, v) ==
  /\ call[t].phase = "idle"
  /\ call' = [call EXCEPT ![t] = Called("push", v)]
  /\ UNCHANGED <<fifo, tail>>

CallPop(t) ==
  /\ call[t].phase = "idle"
  /\ call' = [call EXCEPT ![t] = Called("pop", NoValue)]
  /\ UNCHANGED <<fifo, tail>>

DoPush(t) ==
  /\ call[t].phase = "push"
  /\ HasRoom
  /\ fifo' = Append(fifo, call[t].val)
  /\ tail' = tail + 1
  /\ call' = [call EXCEPT ![t].phase = "pushed", ![t].pos = tail]

DoPop(t) ==
  /\ call[t].phase = "pop"
  /\ HasEntry
  /\ fifo' = Tail(fifo)
  /\ call' = [call EXCEPT ![t] = [phase |-> "popped", val |-> Head(fifo), pos |-> head]]
  /\ UNCHANGED tail

RefusePush(t) ==
  /\ call[t].phase = "push"
  /\ ~HasRoom
  /\ call' = [call EXCEPT ![t] = Idle]
  /\ UNCHANGED <<fifo, tail>>

RefusePop(t) ==
  /\ call[t].phase = "pop"
  /\ ~HasEntry
  /\ call' = [call EXCEPT ![t] = Idle]
  /\ UNCHANGED <<fifo, tail>>

Return(t) ==
  /\ call[t].phase \in {"pushed", "popped"}
  /\ call' = [call EXCEPT ![t] = Idle]
  /\ UNCHANGED <<fifo, tail>>

Next == \E t \in Threads : \/ \E v \in Values : CallPush(t, v)
                           \/ CallPop(t)
                           \/ DoPush(t)
                           \/ DoPop(t)
                           \/ RefusePush(t)
                           \/ RefusePop(t)
                           \/ Return(t)

Spec == Init /\ [][Next]_vars
=============================================================================
