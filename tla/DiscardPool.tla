----------------------------- MODULE DiscardPool -----------------------------
(***************************************************************************)
(* src/core/public/render/vk/discard-pool.h, discard-pool.cpp and what     *)
(* feeds them: the frame loop of the render thread (RTonRender, onResize), *)
(* the frames in flight of the swapchain, the command pools of the render  *)
(* thread, and the shutdown of a desktop application.                      *)
(*                                                                         *)
(* The CPU side is sequential: the render thread, then, once it has been   *)
(* joined, the destructors.  The GPU runs beside it and completes the      *)
(* submissions in order.  A resource created on every resize is named by   *)
(* its generation; the pipelines, or the framebuffers, of a generation     *)
(* count as one.                                                           *)
(***************************************************************************)
EXTENDS Integers, Sequences

CONSTANTS FrameCount,        \* m_frames.size()
          CheckEveryNFrames, \* DiscardPoolMonitor::Config
          MaxDiscarded,      \* DiscardPoolMonitor::Config, one limit for all
          SpscCapacity,      \* CommandPools::m_spscCapacity
          MaxTimeline,       \* bound: frames submitted
          MaxItems           \* bound: generations, command pools, staging

ASSUME DiscardPoolAssumption ==
  /\ FrameCount \in Nat \ {0}
  /\ CheckEveryNFrames \in Nat
  /\ MaxDiscarded \in Nat
  /\ SpscCapacity \in Nat \ {0, 1}
  /\ MaxTimeline \in Nat
  /\ MaxItems \in Nat \ {0, 1}

VARIABLES pc,
          counter,      \* the timeline semaphore: submissions the GPU completed
          timeline,     \* ApplicationBase::m_timeline
          frameIndex,   \* Swapchain::m_frameIndex
          fences,       \* frame -> the submission its submissionFence waits for
          frameCounter, \* DiscardPoolMonitor::m_frameCounter
          discarded,    \* kind -> DiscardPool::m_images, m_imageViews, ...
          sweep,        \* destroyDiscardedResources: [until, force, todo, then]
          created,      \* the items created so far are 1 .. created
          generation,   \* the resources made by createVulkanResources
          active,       \* ThreadPools::active of the render thread
          recycled,     \* ThreadPools::recycled
          staging,      \* the staging buffers of the first frame
          destroyed,    \* what has been destroyed
          lastUse,      \* item -> the last submission that uses it
          bufferUse     \* item -> frame -> the same for its command buffers

gpuVars == <<counter>>
useVars == <<lastUse, bufferUse>>
frameVars == <<timeline, frameIndex, fences, staging>>
poolVars == <<active, recycled>>
vars == <<pc, counter, timeline, frameIndex, fences, frameCounter, discarded, sweep,
          created, generation, active, recycled, staging, destroyed, lastUse, bufferUse>>

\* VK_NULL_HANDLE
Null == 0

\* What createConstantVulkanResources makes: layouts, shader modules, buffers
Constant == 1

Items == 1 .. MaxItems
Frames == 1 .. FrameCount

GenerationKinds == {"imageView", "image", "pipeline", "renderPass", "framebuffer"}
ConstantKinds == {"buffer", "pipelineLayout", "shaderModule"}
Kinds == GenerationKinds \cup ConstantKinds \cup {"commandPool"}

\* What DiscardPoolMonitor counts
Monitored == {"image", "buffer", "framebuffer", "pipeline"}

PCs == {"frame", "sweep", "acquire", "render", "record", "present", "resize", "idle",
        "cleanup", "setLayouts", "pools", "discardPool", "done"}

Entries == [tag : 0 .. MaxTimeline, item : Items]
Objects == Kinds \X Items

-----------------------------------------------------------------------------
(* Deliberate slips, used only to show that the properties notice them:    *)
(* each stands in for the definition of the same stem further down.        *)
Tag_Completed == counter
Tag_FrameIndex == frameIndex
SweepOrder_ImagesFirst ==
  <<"image", "imageView", "buffer", "pipeline", "pipelineLayout", "shaderModule",
    "commandPool", "renderPass", "framebuffer">>
ActiveLeft_Kept == active
FenceSignalled_Always == TRUE
OwnedPools_Recycled == {recycled[i] : i \in DOMAIN recycled}

\* signalNextFrame
NextFrame(i) == (i % FrameCount) + 1

\* m_timeline++, and the value the submission signals
NextTimeline == timeline + 1

\* timeline(): the value of every discard
Tag == timeline

\* destroyDiscardedResources; bufferViews and descriptorPools are never discarded
SweepOrder ==
  <<"imageView", "image", "buffer", "pipeline", "pipelineLayout", "shaderModule",
    "commandPool", "renderPass", "framebuffer">>

\* discardActivePool: tp->active after the discard
ActiveLeft == Null

\* acquireNextImage: vkWaitForFences returns
FenceSignalled == fences[frameIndex] <= counter

\* vkDeviceWaitIdle returns
Idle == counter = timeline

\* removeOld: not (item.first > currentTimeline), UINT64_MAX when forced
Expired(entry) == entry.tag <= sweep.until \/ sweep.force

\* ~CommandPools: the pools it destroys
OwnedPools == {recycled[i] : i \in DOMAIN recycled} \cup ({active} \ {Null})

\* DiscardPoolMonitor::checkAndCleanup
OverLimit == \E k \in Monitored : Len(discarded[k]) > MaxDiscarded

\* appendTimeline, for each kind in ks
Discard(lists, ks, item) ==
  [k \in Kinds |-> IF k \in ks THEN Append(lists[k], [tag |-> Tag, item |-> item])
                               ELSE lists[k]]

\* destroyDiscardedResources, up to the first list
BeginSweep(force, then) ==
  /\ sweep' = [until |-> counter, force |-> force, todo |-> SweepOrder, then |-> then]
  /\ pc' = "sweep"

-----------------------------------------------------------------------------
\* RTwindowInit has created the device, the pools and the first resources.
Init ==
  /\ pc = "frame"
  /\ counter = 0
  /\ timeline = 0
  /\ frameIndex = 1
  /\ fences = [i \in Frames |-> 0]
  /\ frameCounter = 0
  /\ discarded = [k \in Kinds |-> <<>>]
  /\ sweep = [until |-> 0, force |-> FALSE, todo |-> <<>>, then |-> "frame"]
  /\ created = 2
  /\ generation = 2
  /\ active = Null
  /\ recycled = <<>>
  /\ staging = Null
  /\ destroyed = {}
  /\ lastUse = [i \in Items |-> 0]
  /\ bufferUse = [i \in Items |-> [f \in Frames |-> 0]]

\* The GPU completes the oldest submission.
Complete ==
  /\ counter < timeline
  /\ counter' = counter + 1
  /\ UNCHANGED <<pc, frameVars, frameCounter, discarded, sweep, created, generation,
                 poolVars, destroyed, useVars>>

\* RTonRender, DiscardPoolMonitor::onFrame.  The bounds leave room for what
\* one frame creates: a command pool, the staging buffers and a generation.
OnFrame ==
  LET due == frameCounter + 1 >= CheckEveryNFrames IN
  /\ pc = "frame"
  /\ timeline < MaxTimeline /\ created + 3 <= MaxItems
  /\ frameCounter' = IF due THEN 0 ELSE frameCounter + 1
  /\ IF due /\ OverLimit THEN BeginSweep(FALSE, "acquire")
                         ELSE pc' = "acquire" /\ UNCHANGED sweep
  /\ UNCHANGED <<gpuVars, frameVars, discarded, created, generation, poolVars,
                 destroyed, useVars>>

\* removeOld: the deleter of one item.  CommandPools::recycle keeps a pool
\* while the ring has room; it holds one less than its capacity.
RemoveOld(kind) ==
  LET item == Head(discarded[kind]).item
      kept == kind = "commandPool" /\ Len(recycled) + 1 < SpscCapacity IN
  /\ discarded[kind] # <<>> /\ Expired(Head(discarded[kind]))
  /\ discarded' = [discarded EXCEPT ![kind] = Tail(@)]
  /\ recycled' = IF kept THEN Append(recycled, item) ELSE recycled
  /\ destroyed' = IF kept THEN destroyed ELSE destroyed \cup {<<kind, item>>}
  /\ UNCHANGED <<pc, sweep>>

\* removeOld: the first item to keep
KeepRest(kind) ==
  /\ discarded[kind] # <<>> => ~Expired(Head(discarded[kind]))
  /\ sweep' = [sweep EXCEPT !.todo = Tail(@)]
  /\ UNCHANGED <<pc, discarded, recycled, destroyed>>

EndSweep ==
  /\ sweep.todo = <<>>
  /\ pc' = sweep.then
  /\ UNCHANGED <<sweep, discarded, recycled, destroyed>>

\* destroyDiscardedResources, which has read the semaphore once
Sweep ==
  /\ pc = "sweep"
  /\ \/ sweep.todo # <<>> /\ (RemoveOld(Head(sweep.todo)) \/ KeepRest(Head(sweep.todo)))
     \/ EndSweep
  /\ UNCHANGED <<gpuVars, frameVars, frameCounter, created, generation, active, useVars>>

\* acquireNextImage: waits for the frame, then for an image
Acquire ==
  /\ pc = "acquire" /\ FenceSignalled
  /\ \E res \in {"render", "resize"} : pc' = res
  /\ UNCHANGED <<gpuVars, frameVars, frameCounter, discarded, sweep, created, generation,
                 poolVars, destroyed, useVars>>

\* RTdoOnRender, allocatePrimary: a pool in use, a recycled one or a new one
AllocatePrimary ==
  /\ pc = "render"
  /\ pc' = "record"
  /\ IF active # Null
     THEN UNCHANGED <<poolVars, created>>
     ELSE IF recycled # <<>>
          THEN active' = Head(recycled) /\ recycled' = Tail(recycled) /\ UNCHANGED created
          ELSE active' = created + 1 /\ created' = created + 1 /\ UNCHANGED recycled
  /\ UNCHANGED <<gpuVars, frameVars, frameCounter, discarded, sweep, generation,
                 destroyed, useVars>>

\* RTdoOnRender: the first frame stages the buffers the CPU cannot write,
\* and discards the staging buffers (StagingTransientManager::flush)
Stage(staged) ==
  IF timeline = 0 /\ staged
  THEN /\ staging' = created + 1
       /\ created' = created + 1
       /\ discarded' = Discard(discarded, {"buffer"}, created + 1)
  ELSE UNCHANGED <<staging, created, discarded>>

\* RTdoOnRender up to vkQueueSubmit, then m_timeline++ and signalNextFrame
Submit ==
  /\ pc = "record"
  /\ \E staged \in BOOLEAN : Stage(staged)
  /\ timeline' = NextTimeline
  /\ lastUse' = [i \in Items |->
                   IF i \in {Constant, generation, active} \/ (i = staging' /\ staging = Null)
                   THEN NextTimeline ELSE lastUse[i]]
  /\ bufferUse' = [bufferUse EXCEPT ![active][frameIndex] = NextTimeline]
  /\ fences' = [fences EXCEPT ![frameIndex] = NextTimeline]
  /\ frameIndex' = NextFrame(frameIndex)
  /\ pc' = "present"
  /\ UNCHANGED <<gpuVars, frameCounter, sweep, generation, poolVars, destroyed>>

Present ==
  /\ pc = "present"
  /\ \E res \in {"frame", "resize"} : pc' = res
  /\ UNCHANGED <<gpuVars, frameVars, frameCounter, discarded, sweep, created, generation,
                 poolVars, destroyed, useVars>>

\* onResize: discardActivePool, recreateSwapchain, then RTdoOnResize:
\* cleanupVulkanResources and createVulkanResources
OnResize ==
  LET lists == IF active = Null THEN discarded
                                ELSE Discard(discarded, {"commandPool"}, active) IN
  /\ pc = "resize"
  /\ active' = ActiveLeft
  /\ discarded' = Discard(lists, GenerationKinds, generation)
  /\ generation' = created + 1
  /\ created' = created + 1
  /\ pc' = "frame"
  /\ UNCHANGED <<gpuVars, frameVars, frameCounter, sweep, recycled, destroyed, useVars>>

-----------------------------------------------------------------------------
(* The destructor of the desktop application, then ~ApplicationBase        *)

\* the render thread has been joined
Destruct ==
  /\ pc = "frame"
  /\ pc' = "idle"
  /\ UNCHANGED <<gpuVars, frameVars, frameCounter, discarded, sweep, created, generation,
                 poolVars, destroyed, useVars>>

\* vkDeviceWaitIdle
WaitIdle ==
  /\ pc = "idle" /\ Idle
  /\ pc' = "cleanup"
  /\ UNCHANGED <<gpuVars, frameVars, frameCounter, discarded, sweep, created, generation,
                 poolVars, destroyed, useVars>>

\* cleanupVulkanResources, then destroyConstantVulkanResources up to its sweep
Cleanup ==
  /\ pc = "cleanup"
  /\ discarded' = Discard(Discard(discarded, GenerationKinds, generation),
                          ConstantKinds, Constant)
  /\ generation' = Null
  /\ BeginSweep(FALSE, "setLayouts")
  /\ UNCHANGED <<gpuVars, frameVars, frameCounter, created, poolVars, destroyed, useVars>>

\* the rest: vkDestroyDescriptorSetLayout, the texture, and a forced sweep
DestroySetLayouts ==
  /\ pc = "setLayouts"
  /\ discarded' = Discard(discarded, {"image", "imageView"}, Constant)
  /\ BeginSweep(TRUE, "pools")
  /\ UNCHANGED <<gpuVars, frameVars, frameCounter, created, generation, poolVars,
                 destroyed, useVars>>

\* RTdestroyDeviceAndDependencies: ~CommandPools
DestroyCommandPools ==
  /\ pc = "pools"
  /\ destroyed' = destroyed \cup ({"commandPool"} \X OwnedPools)
  /\ active' = Null
  /\ recycled' = <<>>
  /\ pc' = "discardPool"
  /\ UNCHANGED <<gpuVars, frameVars, frameCounter, discarded, sweep, created, generation,
                 useVars>>

\* ~DiscardPool
DestroyDiscardPool ==
  /\ pc = "discardPool"
  /\ BeginSweep(TRUE, "done")
  /\ UNCHANGED <<gpuVars, frameVars, frameCounter, discarded, created, generation,
                 poolVars, destroyed, useVars>>

Terminated == pc = "done" /\ UNCHANGED vars

Next ==
  \/ Complete
  \/ OnFrame \/ Sweep \/ Acquire \/ AllocatePrimary \/ Submit \/ Present \/ OnResize
  \/ Destruct \/ WaitIdle \/ Cleanup \/ DestroySetLayouts
  \/ DestroyCommandPools \/ DestroyDiscardPool
  \/ Terminated

Spec == Init /\ [][Next]_vars

-----------------------------------------------------------------------------
(* Properties *)

PendingItems(kind) == {discarded[kind][i].item : i \in DOMAIN discarded[kind]}
RecycledItems == {recycled[i] : i \in DOMAIN recycled}

(* Every variable keeps its type.  No run spends time on it. *)
TypeOK ==
  /\ pc \in PCs
  /\ {counter, timeline} \subseteq 0 .. MaxTimeline
  /\ frameIndex \in Frames
  /\ fences \in [Frames -> 0 .. MaxTimeline]
  /\ frameCounter \in Nat
  /\ discarded \in [Kinds -> Seq(Entries)]
  /\ sweep \in [until : 0 .. MaxTimeline, force : BOOLEAN, todo : Seq(Kinds), then : PCs]
  /\ {created, generation, active, staging} \subseteq Items \cup {Null}
  /\ recycled \in Seq(Items)
  /\ destroyed \subseteq Objects
  /\ lastUse \in [Items -> 0 .. MaxTimeline]
  /\ bufferUse \in [Items -> [Frames -> 0 .. MaxTimeline]]

(* discard-pool.h:14, "timeline values should always be sorted": removeOld *)
(* stops at the first young item and must not hide an older one behind it. *)
TagsSorted ==
  \A k \in Kinds : \A i, j \in DOMAIN discarded[k] :
    i < j => discarded[k][i].tag <= discarded[k][j].tag

(* Nothing is destroyed or handed back for reuse while a submission that   *)
(* uses it is still running, whatever the GPU does between a discard and a *)
(* sweep.  The staging buffers are an exception: they carry the value      *)
(* before that of the frame that copies from them (avk-staging-transient-  *)
(* manager.cpp:99, where a comment says "on next timeline").               *)
ReleasedUnused ==
  /\ \A o \in destroyed : o[2] # staging => lastUse[o[2]] <= counter
  /\ \A i \in RecycledItems : lastUse[i] <= counter

(* A handle is in one place only: it is never discarded twice, and a pool  *)
(* being recorded is neither discarded, nor queued for reuse, nor gone.  In *)
(* the end everything that was created has been destroyed.                 *)
OwnedOnce ==
  /\ \A k \in Kinds :
       /\ \A i, j \in DOMAIN discarded[k] :
            discarded[k][i].item = discarded[k][j].item => i = j
       /\ \A i \in PendingItems(k) : <<k, i>> \notin destroyed
  /\ \A i, j \in DOMAIN recycled : recycled[i] = recycled[j] => i = j
  /\ \A i \in RecycledItems :
       i \notin PendingItems("commandPool") /\ <<"commandPool", i>> \notin destroyed
  /\ active # Null =>
       /\ active \notin PendingItems("commandPool") \cup RecycledItems
       /\ <<"commandPool", active>> \notin destroyed
  /\ \A k \in GenerationKinds : generation \notin PendingItems(k)
  /\ pc = "done" =>
       /\ \A k \in Kinds : discarded[k] = <<>>
       /\ \A i \in 1 .. created : \E k \in Kinds : <<k, i>> \in destroyed

(* The command buffer about to be recorded is not being executed: by the   *)
(* fence of its frame, or because its pool came back from a sweep.         *)
CommandBufferIdle == pc = "record" => bufferUse[active][frameIndex] <= counter

(* What must go before what, although nothing compares the lists:          *)
(*   an image goes after the views made of it ("View first"), even if the  *)
(*     GPU goes on between the two lists;                                  *)
(*   one unforced sweep takes the pipeline layouts before the set layouts  *)
(*     go (destroyConstantVulkanResources, "set layout only after          *)
(*     pipeline layout");                                                  *)
(*   ~CommandPools runs before ~DiscardPool, whose sweep would hand pools  *)
(*     back to it: none is left to hand back.                              *)
DestroyOrder ==
  /\ \A i \in Items : <<"image", i>> \in destroyed => <<"imageView", i>> \in destroyed
  /\ pc = "setLayouts" => <<"pipelineLayout", Constant>> \in destroyed
  /\ pc = "discardPool" => discarded["commandPool"] = <<>>
=============================================================================
