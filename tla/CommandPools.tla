---------------------------- MODULE CommandPools ----------------------------
(***************************************************************************)
(* src/core/*/render/vk/command-pools.* with several recording threads,    *)
(* and the part of discard-pool.* that hands their pools back: any thread  *)
(* may sweep, and recycle(pool, owner) then works on the storage of        *)
(* another thread, which may be taking a pool out of its ring.             *)
(*                                                                         *)
(* Each access to a ring is a step, and so is each section under           *)
(* m_registryMtx, and under DiscardPool::m_mtx where it is a single        *)
(* access.  Storages (ThreadPools) and pools are named by the order of     *)
(* their creation: Vulkan gives no handle twice here.  DiscardPool has the *)
(* timeline; a sweep that is not forced stops wherever it likes.           *)
(***************************************************************************)
EXTENDS Integers, Sequences, FiniteSets

CONSTANTS Threads,       \* threads that record
          NoThread,      \* holds DiscardPool::m_mtx when nobody does
          Capacity,      \* m_spscCapacity
          Wrap,          \* where size_t wraps around, a multiple of Capacity
          ShutdownAlone, \* clients keep threadShutdown and sweeps apart
          MaxPools,      \* bound: pools created
          MaxStorages    \* bound: storages created

ASSUME CommandPoolsAssumption ==
  /\ IsFiniteSet(Threads) /\ NoThread \notin Threads
  /\ Capacity \in Nat \ {0, 1}
  /\ Wrap \in Nat /\ Wrap > Capacity /\ Wrap % Capacity = 0
  /\ ShutdownAlone \in BOOLEAN
  /\ MaxPools \in Nat /\ MaxStorages \in Nat

VARIABLES pc,        \* thread -> what it is doing
          registry,  \* m_registry: thread -> its storage
          storage,   \* storage -> ThreadPools: [alive, buffer, head, tail, active, cache]
          tp,        \* thread -> the storage its call works on
          hand,      \* thread -> the pool discardActivePool gives away
          mutex,     \* DiscardPool::m_mtx
          force,     \* the argument of the sweep under way
          discarded, \* DiscardPool::m_commandPools: [pool, tid]
          pools,     \* the pools created so far are 1 .. pools
          storages,  \* the storages created so far are 1 .. storages
          destroyed  \* vkDestroyCommandPool

sweepVars == <<mutex, force, discarded>>
countVars == <<pools, storages>>
vars == <<pc, registry, storage, tp, hand, sweepVars, countVars, destroyed>>

\* VK_NULL_HANDLE, nullptr
Null == 0

Pools == 1 .. MaxPools
Storages == 1 .. MaxStorages
Cells == 0 .. Capacity - 1
PCs == {"idle", "allocate", "read", "advance", "create", "buffer", "discard", "append",
        "sweep", "recycle", "write", "publish", "drain", "force", "done"}

At(t, label) == pc[t] = label
Goto(t, label) == pc' = [pc EXCEPT ![t] = label]
Nobody(labels) == \A t \in Threads : pc[t] \notin labels

-----------------------------------------------------------------------------
(* Deliberate slips, used only to show that the properties notice them:    *)
(* each stands in for the definition of the same stem further down.        *)
PopPublish_Back(t) ==
  /\ At(t, "advance")
  /\ storage' = [storage EXCEPT ![tp[t]].tail = (@ - 1) % Wrap]
  /\ Goto(t, "buffer")
  /\ UNCHANGED <<registry, tp, hand, sweepVars, countVars, destroyed>>
Drained_Recycled(s) ==
  {storage[s].buffer[(storage[s].head + i) % Capacity] :
     i \in 0 .. ((storage[s].tail - storage[s].head) % Wrap) - 1}
Recipient_Sweeper(t) == registry[t]
Unregistered_Kept(t) == registry[t]

\* SpscQueue::tryPush: the place after the tail is the head
Full(s) == (storage[s].tail + 1) % Capacity = storage[s].head % Capacity

\* SpscQueue::tryPop
Empty(s) == storage[s].head % Capacity = storage[s].tail % Capacity

\* recycle: threadPoolsForOwner(owner)
Recipient(t) == registry[Head(discarded).tid]

\* threadShutdown: m_registry.erase
Unregistered(t) == Null

\* ThreadPools(m_spscCapacity)
NewThreadPools == [alive |-> TRUE, buffer |-> [i \in Cells |-> Null], head |-> 0,
                   tail |-> 0, active |-> Null, cache |-> {}]
NoThreadPools == [NewThreadPools EXCEPT !.alive = FALSE]

\* SpscQueue::drainTo, and the active pool
Drained(s) ==
  {storage[s].buffer[(storage[s].head + i) % Capacity] :
     i \in 0 .. ((storage[s].tail - storage[s].head) % Wrap) - 1} \cup ({storage[s].active} \ {Null})

-----------------------------------------------------------------------------
Init ==
  /\ pc = [t \in Threads |-> "idle"]
  /\ registry = [t \in Threads |-> Null]
  /\ storage = [s \in Storages |-> NoThreadPools]
  /\ tp = [t \in Threads |-> Null]
  /\ hand = [t \in Threads |-> Null]
  /\ mutex = NoThread
  /\ force = FALSE
  /\ discarded = <<>>
  /\ pools = 0
  /\ storages = 0
  /\ destroyed = {}

\* The bound: room for the pools of those who may be about to create one
RoomForPool == pools + Cardinality({t \in Threads : pc[t] \in {"allocate", "create"}}) < MaxPools

(* ensureThreadPoolsForThisThread, with which allocateForLevel and         *)
(* discardActivePool begin: no other thread makes an entry for t.          *)
EnsureThreadPools(t) ==
  /\ At(t, "idle")
  /\ \/ Goto(t, "allocate") /\ RoomForPool
     \/ Goto(t, "discard")
  /\ IF registry[t] # Null
     THEN tp' = [tp EXCEPT ![t] = registry[t]] /\ UNCHANGED <<registry, storage, storages>>
     ELSE /\ storages < MaxStorages
          /\ storages' = storages + 1
          /\ registry' = [registry EXCEPT ![t] = storages']
          /\ storage' = [storage EXCEPT ![storages'] = NewThreadPools]
          /\ tp' = [tp EXCEPT ![t] = storages']
  /\ UNCHANGED <<hand, sweepVars, pools, destroyed>>

-----------------------------------------------------------------------------
(* allocateForLevel                                                        *)

\* the active pool, a recycled one, or a new one; tryPop reads both ends
ChoosePool(t) ==
  /\ At(t, "allocate")
  /\ Goto(t, IF storage[tp[t]].active # Null THEN "buffer"
             ELSE IF Empty(tp[t]) THEN "create" ELSE "read")
  /\ UNCHANGED <<registry, storage, tp, hand, sweepVars, countVars, destroyed>>

\* tryPop: outItem is tp->active
PopRead(t) ==
  /\ At(t, "read")
  /\ storage' = [storage EXCEPT ![tp[t]].active =
                   storage[tp[t]].buffer[storage[tp[t]].head % Capacity]]
  /\ Goto(t, "advance")
  /\ UNCHANGED <<registry, tp, hand, sweepVars, countVars, destroyed>>

\* tryPop: m_head
PopPublish(t) ==
  /\ At(t, "advance")
  /\ storage' = [storage EXCEPT ![tp[t]].head = (@ + 1) % Wrap]
  /\ Goto(t, "buffer")
  /\ UNCHANGED <<registry, tp, hand, sweepVars, countVars, destroyed>>

CreateCommandPool(t) ==
  /\ At(t, "create")
  /\ pools' = pools + 1
  /\ storage' = [storage EXCEPT ![tp[t]].active = pools', ![tp[t]].cache = @ \cup {pools'}]
  /\ Goto(t, "buffer")
  /\ UNCHANGED <<registry, tp, hand, sweepVars, storages, destroyed>>

\* m_cmdCache.at(tp->active), and a command buffer in it
CommandBuffer(t) ==
  /\ At(t, "buffer")
  /\ storage[tp[t]].active \in storage[tp[t]].cache
  /\ tp' = [tp EXCEPT ![t] = Null]
  /\ Goto(t, "idle")
  /\ UNCHANGED <<registry, storage, hand, sweepVars, countVars, destroyed>>

-----------------------------------------------------------------------------
(* discardActivePool                                                       *)

DiscardActivePool(t) ==
  /\ At(t, "discard")
  /\ hand' = [hand EXCEPT ![t] = storage[tp[t]].active]
  /\ storage' = [storage EXCEPT ![tp[t]].active = Null]
  /\ tp' = [tp EXCEPT ![t] = Null]
  /\ Goto(t, IF hand'[t] = Null THEN "idle" ELSE "append")
  /\ UNCHANGED <<registry, sweepVars, countVars, destroyed>>

DiscardCommandPoolForReuse(t) ==
  /\ At(t, "append") /\ mutex = NoThread
  /\ discarded' = Append(discarded, [pool |-> hand[t], tid |-> t])
  /\ hand' = [hand EXCEPT ![t] = Null]
  /\ Goto(t, "idle")
  /\ UNCHANGED <<registry, storage, tp, mutex, force, countVars, destroyed>>

-----------------------------------------------------------------------------
(* destroyDiscardedResources, which holds m_mtx from its first step to its *)
(* last one; RThandleDeviceLost forces it after threadShutdown.            *)
BeginSweep(t) ==
  /\ pc[t] \in {"idle", "force"} /\ mutex = NoThread
  /\ ShutdownAlone => Nobody({"drain"})
  /\ mutex' = t
  /\ force' = At(t, "force")
  /\ Goto(t, "sweep")
  /\ UNCHANGED <<registry, storage, tp, hand, discarded, countVars, destroyed>>

\* removeOld has found an item that is old enough
RecycleFind(t) ==
  /\ At(t, "sweep") /\ discarded # <<>>
  /\ tp' = [tp EXCEPT ![t] = Recipient(t)]
  /\ Goto(t, "recycle")
  /\ UNCHANGED <<registry, storage, hand, sweepVars, countVars, destroyed>>

\* recycle: no storage, or a full ring; else tryPush has read both ends
Recycle(t) ==
  /\ At(t, "recycle")
  /\ IF tp[t] = Null \/ Full(tp[t])
     THEN /\ destroyed' = destroyed \cup {Head(discarded).pool}
          /\ discarded' = Tail(discarded)
          /\ Goto(t, "sweep")
     ELSE Goto(t, "write") /\ UNCHANGED <<destroyed, discarded>>
  /\ UNCHANGED <<registry, storage, tp, hand, mutex, force, countVars>>

PushWrite(t) ==
  /\ At(t, "write")
  /\ storage' = [storage EXCEPT ![tp[t]].buffer[storage[tp[t]].tail % Capacity] =
                   Head(discarded).pool]
  /\ Goto(t, "publish")
  /\ UNCHANGED <<registry, tp, hand, sweepVars, countVars, destroyed>>

PushPublish(t) ==
  /\ At(t, "publish")
  /\ storage' = [storage EXCEPT ![tp[t]].tail = (@ + 1) % Wrap]
  /\ discarded' = Tail(discarded)
  /\ Goto(t, "sweep")
  /\ UNCHANGED <<registry, tp, hand, mutex, force, countVars, destroyed>>

EndSweep(t) ==
  /\ At(t, "sweep") /\ (force => discarded = <<>>)
  /\ mutex' = NoThread /\ force' = FALSE
  /\ tp' = [tp EXCEPT ![t] = Null]
  /\ Goto(t, "idle")
  /\ UNCHANGED <<registry, storage, hand, discarded, countVars, destroyed>>

-----------------------------------------------------------------------------
(* threadShutdown, in two steps: the entry leaves the registry, then the   *)
(* storage is drained and freed.                                           *)
ThreadShutdown(t) ==
  /\ At(t, "idle") /\ registry[t] # Null
  /\ ShutdownAlone => Nobody({"sweep", "recycle", "write", "publish"})
  /\ tp' = [tp EXCEPT ![t] = registry[t]]
  /\ registry' = [registry EXCEPT ![t] = Unregistered(t)]
  /\ Goto(t, "drain")
  /\ UNCHANGED <<storage, hand, sweepVars, countVars, destroyed>>

DrainAndFree(t) ==
  /\ At(t, "drain")
  /\ destroyed' = destroyed \cup Drained(tp[t])
  /\ storage' = [storage EXCEPT ![tp[t]] = NoThreadPools]
  /\ tp' = [tp EXCEPT ![t] = Null]
  /\ Goto(t, "force")
  /\ UNCHANGED <<registry, hand, sweepVars, countVars>>

\* ~CommandPools, when no thread uses it and the last sweep has been forced
Destroy ==
  LET owned == {registry[t] : t \in Threads} \ {Null} IN
  /\ \A t \in Threads : At(t, "idle")
  /\ discarded = <<>>
  /\ destroyed' = destroyed \cup UNION {Drained(s) : s \in owned}
  /\ storage' = [s \in Storages |->
                   IF s \in owned THEN NoThreadPools ELSE storage[s]]
  /\ registry' = [t \in Threads |-> Null]
  /\ pc' = [t \in Threads |-> "done"]
  /\ UNCHANGED <<tp, hand, sweepVars, countVars>>

Terminated == (\A t \in Threads : At(t, "done")) /\ UNCHANGED vars

Allocate(t) ==
  ChoosePool(t) \/ PopRead(t) \/ PopPublish(t) \/ CreateCommandPool(t) \/ CommandBuffer(t)

Discard(t) == DiscardActivePool(t) \/ DiscardCommandPoolForReuse(t)

Sweep(t) ==
  BeginSweep(t) \/ RecycleFind(t) \/ Recycle(t) \/ PushWrite(t) \/ PushPublish(t) \/ EndSweep(t)

Shutdown(t) == ThreadShutdown(t) \/ DrainAndFree(t)

Next ==
  \/ \E t \in Threads :
       EnsureThreadPools(t) \/ Allocate(t) \/ Discard(t) \/ Sweep(t) \/ Shutdown(t)
  \/ Destroy \/ Terminated

Spec == Init /\ [][Next]_vars

-----------------------------------------------------------------------------
(* Properties *)

Alive == {s \in 1 .. storages : storage[s].alive}

\* The ring of s, from its head to its tail.
Queue(s) ==
  [i \in 1 .. (storage[s].tail - storage[s].head) % Wrap |->
     storage[s].buffer[(storage[s].head + i - 1) % Capacity]]

\* What the owner has read but not taken is no longer counted as queued.
Taken(s) == IF \E t \in Threads : At(t, "advance") /\ tp[t] = s THEN 1 ELSE 0

\* Where the pool p is: as <<place, which, position>>.
Places(p) ==
  {<<"active", s, 0>> : s \in {s \in Alive : storage[s].active = p}}
  \cup (UNION {{<<"ring", s, i>> : i \in {i \in DOMAIN Queue(s) : i > Taken(s) /\ Queue(s)[i] = p}} :
                 s \in Alive})
  \cup {<<"hand", t, 0>> : t \in {t \in Threads : hand[t] = p}}
  \cup {<<"discarded", NoThread, i>> : i \in {i \in DOMAIN discarded : discarded[i].pool = p}}
  \cup (IF p \in destroyed THEN {<<"destroyed", NoThread, 0>>} ELSE {})

(* Every variable keeps its type.  No run spends time on it. *)
TypeOK ==
  /\ pc \in [Threads -> PCs]
  /\ registry \in [Threads -> Storages \cup {Null}]
  /\ storage \in [Storages -> [alive : BOOLEAN, buffer : [Cells -> Pools \cup {Null}],
                               head : 0 .. Wrap - 1, tail : 0 .. Wrap - 1,
                               active : Pools \cup {Null}, cache : SUBSET Pools]]
  /\ tp \in [Threads -> Storages \cup {Null}]
  /\ hand \in [Threads -> Pools \cup {Null}]
  /\ mutex \in Threads \cup {NoThread}
  /\ force \in BOOLEAN
  /\ discarded \in Seq([pool : Pools, tid : Threads])
  /\ pools \in 0 .. MaxPools /\ storages \in 0 .. MaxStorages
  /\ destroyed \subseteq Pools

(* A pool is in one place at any time: recorded into, on its way to the    *)
(* discard list, in that list, in the ring of one thread, or destroyed.    *)
(* None is lost, and none is handed to two users or destroyed in use,      *)
(* however pops, pushes, sweeps and shutdowns overlap.                     *)
OwnedOnce == \A p \in 1 .. pools : Cardinality(Places(p)) = 1

(* allocateForLevel, m_cmdCache.at(tp->active): a thread gets back the     *)
(* pools it made itself and no others, so at() does not throw.             *)
CacheKnowsActive ==
  \A t \in Threads : At(t, "buffer") => storage[tp[t]].active \in storage[tp[t]].cache

(* command-pools.h, SpscQueue: seen from outside, the ring is a sequence   *)
(* that grows at its end and shrinks at its front, one pool at a time, and *)
(* nothing in it changes, although neither side takes a lock.              *)
RingIsFifo ==
  [][\A s \in Alive \cap Alive' :
       \/ Queue(s)' = Queue(s)
       \/ Queue(s) # <<>> /\ Queue(s)' = Tail(Queue(s))
       \/ Queue(s)' # <<>> /\ Queue(s) = SubSeq(Queue(s)', 1, Len(Queue(s)') - 1)]_vars

(* recycle and allocateForLevel never touch a storage that threadShutdown  *)
(* has freed.  With ShutdownAlone this is up to the registry; without, it  *)
(* is what avk-application.h:309 asks for, threadShutdown on each thread.  *)
StorageAlive ==
  \A t \in Threads :
    tp[t] # Null /\ pc[t] # "sweep" => storage[tp[t]].alive
=============================================================================
