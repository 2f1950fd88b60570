--------------------------- MODULE SwapchainFrames ---------------------------
(***************************************************************************)
(* src/core/*/render/vk/swapchain-vk.*, surface-vk.*, and the calls that   *)
(* avk-application.cpp makes to them: the frames in flight with their      *)
(* fences and acquire semaphores, the images with their present            *)
(* semaphores, and what becomes of all that when the swapchain is          *)
(* recreated, the surface lost, and the application destroyed.             *)
(*                                                                         *)
(* The queue executes submissions in order, presentation follows in its    *)
(* own order, and the presentation engine lends images; each of them takes *)
(* a step whenever it likes.  A desktop application never survives the     *)
(* loss of its surface, and an Android one never renders a frame.          *)
(* RenderThread has the wait for the end of a live resize.                 *)
(***************************************************************************)
EXTENDS Integers, Sequences, FiniteSetsExt

CONSTANTS ImageCounts,   \* how many images a swapchain may get
          MaxSwapchains  \* bound: swapchains created

\* A surface bounds the number of images, if only by the 32 bits it has.
ASSUME SwapchainAssumption == /\ ImageCounts \subseteq Nat \ {0}
                              /\ \E m \in ImageCounts : \A n \in ImageCounts : n <= m
                              /\ MaxSwapchains \in Nat \ {0}

VARIABLES desktop,    \* the derived class: desktop, or Android
          pc,         \* of the render thread; of the main thread in the end
          surface, swapchain,
          images,     \* m_images, from 0: [sem, view]
          frames,     \* m_frames, from 0: [acquire, fence, state, discard]
          imageIndex, frameIndex,
          data,       \* swapchainData().presentSemaphore, read by RTonRender
          queue,      \* submissions not yet executed: [wait, signal, frame]
          presents,   \* presentations not yet executed: [swapchain, image, wait]
          promised,   \* semaphores that the presentation engine will signal
          signalled,  \* semaphores
          free, shown,\* images that may be acquired, that are on the screen
          created,    \* history: handles created
          gone        \* history: handles destroyed

object == <<surface, swapchain, images, frames, imageIndex, frameIndex, data>>
device == <<queue, presents, promised, signalled, free, shown>>
swapchainVars == <<desktop, pc, object, device, created, gone>>

(* A handle is named after the swapchain it was created with.              *)
Handle(kind, generation, index) ==
  [kind |-> kind, generation |-> generation, index |-> index]
NoHandle == Handle("none", 0, 0)

Kinds == {"surface", "swapchain", "present", "view", "acquire", "fence"}
Indices(n) == 0 .. n - 1
Handles == [kind : Kinds, generation : 1 .. MaxSwapchains, index : Indices(Max(ImageCounts))]

PCs == {"create", "round", "wait", "acquire", "reset", "submit", "tick", "present", "resize",
        "lost", "idle", "images", "swapchain", "frames", "surface", "destroyed", "exited"}

At(label) == pc = label
Goto(label) == pc' = label
Frame == frames[frameIndex]
Generation == Cardinality({h \in created : h.kind = "swapchain"})

Waits == {queue[i].wait : i \in DOMAIN queue} \cup {presents[i].wait : i \in DOMAIN presents}
Signals == {queue[i].signal : i \in DOMAIN queue}
Busy == promised \cup signalled \cup Waits \cup Signals

-----------------------------------------------------------------------------
(* Deliberate slips, used only to show that the properties notice them:    *)
(* each stands in for the definition of the same stem further down.        *)
StateWaited_Reset == "reset"
NewImage_Recycled(i, g) == [sem |-> IF i \in DOMAIN images THEN images[i].sem
                                                      ELSE Handle("present", g, i),
                            view |-> Handle("view", g, i)]
Refreshed_Kept(f, g) == [frames[f] EXCEPT !.acquire = IF g = 1 THEN Handle("acquire", g, f) ELSE @]
AcquireHandles_None == {}

\* "don't delete current frames in flight"
FrameCount(n) == Max({n, Cardinality(DOMAIN frames)})

\* vkWaitForFences leaves the fence as it is
StateWaited == "signalled"

\* swapchainData().presentSemaphore
PresentSemaphore == images[imageIndex].sem

\* signalNextFrame
NextFrame == (frameIndex + 1) % Cardinality(DOMAIN frames)

\* vkDeviceWaitIdle has returned
Idle == queue = <<>> /\ presents = <<>>

ImageHandles == {images[i].sem : i \in DOMAIN images} \cup {images[i].view : i \in DOMAIN images}

AcquireHandles == {frames[f].acquire : f \in DOMAIN frames}

\* discardSwapchainImages, acquire semaphores, decommissioned swapchain
Discarded == ImageHandles \cup AcquireHandles \cup {swapchain}

\* a frame as recreateSwapchain leaves it
Refreshed(f, g) == [frames[f] EXCEPT !.acquire = Handle("acquire", g, f)]

NewImage(i, g) == [sem |-> Handle("present", g, i), view |-> Handle("view", g, i)]

NewFrame(f, g) == [acquire |-> Handle("acquire", g, f), fence |-> Handle("fence", g, f),
                   state |-> "signalled", discard |-> {}]

SwapchainInit ==
  /\ desktop \in BOOLEAN
  /\ pc = "create"
  /\ surface = Handle("surface", 1, 0) /\ swapchain = NoHandle
  /\ images = <<>> /\ frames = <<>>
  /\ imageIndex = 0 /\ frameIndex = 0 /\ data = NoHandle
  /\ queue = <<>> /\ presents = <<>>
  /\ promised = {} /\ signalled = {}
  /\ free = {} /\ shown = {}
  /\ created = {surface} /\ gone = {}

-----------------------------------------------------------------------------
(* recreateSwapchain: what there was goes to the discard lists of the      *)
(* current frame, and a swapchain of n images takes its place.  The frames *)
(* and their fences stay, new ones are added.                              *)

Replace(n) ==
  LET g == Generation + 1
      kept == DOMAIN frames
      all == Indices(FrameCount(n))
      refreshed == [f \in all |-> IF f \in kept THEN Refreshed(f, g) ELSE NewFrame(f, g)] IN
  /\ swapchain' = Handle("swapchain", g, 0)
  /\ images' = [i \in Indices(n) |-> NewImage(i, g)]
  /\ frames' = IF images = <<>>
               THEN refreshed
               ELSE [refreshed EXCEPT ![frameIndex].discard = @ \cup Discarded]
  /\ free' = Indices(n) /\ shown' = {}
  /\ created' = created \cup {swapchain'}
                  \cup (UNION {{images'[i].sem, images'[i].view} : i \in Indices(n)})
                  \cup (UNION {{frames'[f].acquire, frames'[f].fence} : f \in DOMAIN frames'})

\* Swapchain::Swapchain
Create ==
  /\ At("create")
  /\ \E n \in ImageCounts : Replace(n)
  /\ Goto("round")
  /\ UNCHANGED <<desktop, surface, imageIndex, frameIndex, data, queue, presents, promised,
                 signalled, gone>>

Resize ==
  /\ At("resize")
  /\ \E n \in ImageCounts : Replace(n)
  /\ Goto("round")
  /\ UNCHANGED <<desktop, surface, imageIndex, frameIndex, data, queue, presents, promised,
                 signalled, gone>>

RequestResize == Generation < MaxSwapchains /\ Goto("resize")

-----------------------------------------------------------------------------
(* RTonRender *)

BeginFrame ==
  /\ At("round") /\ desktop
  /\ Goto("wait")
  /\ UNCHANGED <<desktop, object, device, created, gone>>

WaitForFence ==
  /\ At("wait") /\ Frame.state = "signalled"
  /\ frames' = [frames EXCEPT ![frameIndex].state = StateWaited]
  /\ Goto("acquire")
  /\ UNCHANGED <<desktop, surface, swapchain, images, imageIndex, frameIndex, data, device,
                 created, gone>>

\* VK_SUCCESS, or VK_SUBOPTIMAL_KHR, after which the image is not used
AcquireImage ==
  /\ At("acquire")
  /\ imageIndex' \in free
  /\ free' = free \ {imageIndex'}
  /\ promised' = promised \cup {Frame.acquire}
  /\ Goto("reset") \/ RequestResize
  /\ UNCHANGED <<desktop, surface, swapchain, images, frames, frameIndex, data, queue, presents,
                 signalled, shown, created, gone>>

\* VK_ERROR_OUT_OF_DATE_KHR
OutOfDate ==
  /\ At("acquire")
  /\ RequestResize
  /\ UNCHANGED <<desktop, object, device, created, gone>>

ResetFence ==
  /\ At("reset")
  /\ frames' = [frames EXCEPT ![frameIndex].state = "reset"]
  /\ data' = PresentSemaphore
  /\ Goto("submit")
  /\ UNCHANGED <<desktop, surface, swapchain, images, imageIndex, frameIndex, device,
                 created, gone>>

\* RTdoOnRender
Submit ==
  /\ At("submit")
  /\ queue' = Append(queue, [wait |-> Frame.acquire, signal |-> data,
                             frame |-> frameIndex])
  /\ Goto("tick")
  /\ UNCHANGED <<desktop, object, presents, promised, signalled, free, shown, created, gone>>

SignalNextFrame ==
  /\ At("tick")
  /\ frameIndex' = NextFrame
  /\ Goto("present")
  /\ UNCHANGED <<desktop, surface, swapchain, images, frames, imageIndex, data, device, created,
                 gone>>

\* the semaphore is waited for also when the swapchain is out of date
PresentImage ==
  /\ At("present")
  /\ presents' = Append(presents, [swapchain |-> swapchain, image |-> imageIndex,
                                   wait |-> data])
  /\ Goto("round") \/ RequestResize
  /\ UNCHANGED <<desktop, object, queue, promised, signalled, free, shown, created, gone>>

\* an error other than VK_ERROR_OUT_OF_DATE_KHR ends a desktop process:
\* VK_CHECK, RTdoOnSurfaceLost, RTdoOnDeviceLost
Fail ==
  /\ pc \in {"acquire", "submit", "present", "resize"} /\ desktop
  /\ Goto("exited")
  /\ UNCHANGED <<desktop, object, device, created, gone>>

FrameStep ==
  \/ WaitForFence \/ AcquireImage \/ OutOfDate \/ ResetFence \/ Submit \/ SignalNextFrame
  \/ PresentImage \/ Create \/ Resize

-----------------------------------------------------------------------------
(* RThandleSurfaceLost: forceDiscardToCurrentFrame, reset of the surface,  *)
(* the two destructors, and a new surface.  ~Swapchain returns at once     *)
(* because m_swapchain is null.                                            *)

LoseSurface ==
  /\ At("round") /\ ~desktop /\ Generation < MaxSwapchains
  /\ surface' = Handle("surface", Generation + 1, 0)
  /\ created' = created \cup {surface'}
  /\ swapchain' = NoHandle
  /\ images' = <<>> /\ frames' = <<>>
  /\ imageIndex' = 0 /\ frameIndex' = 0 /\ data' = NoHandle
  /\ Goto("create")
  /\ UNCHANGED <<desktop, device, gone>>

-----------------------------------------------------------------------------
(* ~WindowsApplication, ~ApplicationBase, ~Swapchain, ~Surface *)

Destroy ==
  /\ At("round")
  /\ Goto("idle")
  /\ UNCHANGED <<desktop, object, device, created, gone>>

WaitIdle ==
  /\ At("idle") /\ Idle
  /\ Goto("images")
  /\ UNCHANGED <<desktop, object, device, created, gone>>

DestroyImages ==
  /\ At("images")
  /\ gone' = gone \cup ImageHandles
  /\ images' = <<>>
  /\ Goto("swapchain")
  /\ UNCHANGED <<desktop, surface, swapchain, frames, imageIndex, frameIndex, data, device, created>>

DestroySwapchain ==
  /\ At("swapchain")
  /\ gone' = gone \cup {swapchain}
  /\ swapchain' = NoHandle
  /\ Goto("frames")
  /\ UNCHANGED <<desktop, surface, images, frames, imageIndex, frameIndex, data, device, created>>

\* Frame::destroy, FrameDiscard::destroy
DestroyFrames ==
  /\ At("frames")
  /\ gone' = gone \cup UNION {{frames[f].fence, frames[f].acquire} \cup frames[f].discard :
                             f \in DOMAIN frames}
  /\ frames' = <<>>
  /\ Goto("surface")
  /\ UNCHANGED <<desktop, surface, swapchain, images, imageIndex, frameIndex, data, device, created>>

DestroySurface ==
  /\ At("surface")
  /\ gone' = gone \cup {surface}
  /\ surface' = NoHandle
  /\ Goto("destroyed")
  /\ UNCHANGED <<desktop, swapchain, images, frames, imageIndex, frameIndex, data, device, created>>

DestroyStep ==
  WaitIdle \/ DestroyImages \/ DestroySwapchain \/ DestroyFrames \/ DestroySurface

-----------------------------------------------------------------------------
(* The device *)

\* the image is ready
SignalAcquired ==
  /\ \E s \in promised : /\ promised' = promised \ {s}
                         /\ signalled' = signalled \cup {s}
  /\ UNCHANGED <<desktop, pc, object, queue, presents, free, shown, created, gone>>

Execute ==
  /\ queue # <<>> /\ Head(queue).wait \in signalled
  /\ signalled' = (signalled \ {Head(queue).wait}) \cup {Head(queue).signal}
  /\ frames' = [frames EXCEPT ![Head(queue).frame].state = "signalled"]
  /\ queue' = Tail(queue)
  /\ UNCHANGED <<desktop, pc, surface, swapchain, images, imageIndex, frameIndex, data, presents,
                 promised, free, shown, created, gone>>

\* images of a retired swapchain are not looked at any more
ExecutePresent ==
  /\ presents # <<>> /\ Head(presents).wait \in signalled
  /\ signalled' = signalled \ {Head(presents).wait}
  /\ shown' = IF Head(presents).swapchain = swapchain
              THEN shown \cup {Head(presents).image} ELSE shown
  /\ presents' = Tail(presents)
  /\ UNCHANGED <<desktop, pc, object, queue, promised, free, created, gone>>

Release ==
  /\ \E i \in shown : shown' = shown \ {i} /\ free' = free \cup {i}
  /\ UNCHANGED <<desktop, pc, object, queue, presents, promised, signalled, created, gone>>

DeviceStep == SignalAcquired \/ Execute \/ ExecutePresent \/ Release

SwapchainTerminated == pc \in {"destroyed", "exited"} /\ UNCHANGED swapchainVars

SwapchainNext ==
  \/ BeginFrame \/ FrameStep \/ Fail \/ LoseSurface
  \/ Destroy \/ DestroyStep
  \/ DeviceStep
  \/ SwapchainTerminated

SwapchainSpec == SwapchainInit /\ [][SwapchainNext]_swapchainVars

-----------------------------------------------------------------------------
(* Properties *)

(* Every variable keeps its type.  No run spends time on it. *)
SwapchainTypeOK ==
  /\ desktop \in BOOLEAN /\ pc \in PCs
  /\ {surface, swapchain, data} \subseteq Handles \cup {NoHandle}
  /\ \A i \in DOMAIN images : {images[i].sem, images[i].view} \subseteq Handles
  /\ \A f \in DOMAIN frames : /\ frames[f].discard \cup {frames[f].acquire, frames[f].fence}
                                 \subseteq Handles
                             /\ frames[f].state \in {"signalled", "reset"}
  /\ imageIndex \in Indices(Max(ImageCounts)) /\ frameIndex \in Indices(Max(ImageCounts))
  /\ Busy \cup created \cup gone \subseteq Handles
  /\ free \cup shown \subseteq Indices(Max(ImageCounts))

(* vkAcquireNextImageKHR is given a semaphore with no operation pending,   *)
(* also when the same frame acquires again after a resize and the image of *)
(* the first acquisition was never used; and a submission signals one that *)
(* no earlier presentation is still waiting for, although frames and       *)
(* images take turns separately.                                           *)
SemaphoresFree ==
  /\ At("acquire") => Frame.acquire \notin Busy
  /\ At("submit") => data \notin Busy

(* A handle is in use, or on one discard list, or destroyed: nothing is    *)
(* destroyed twice, and nothing that was discarded is used again.  The end *)
(* of an application that never lost its surface destroys everything,      *)
(* wherever the resizes put it.  After a loss it does not:                 *)
(* forceDiscardToCurrentFrame clears m_swapchain, and ~Swapchain returns   *)
(* before it comes to the discard lists.                                   *)
OwnedOnce ==
  LET used == ImageHandles \cup AcquireHandles \cup ({swapchain, surface} \ {NoHandle})
      discards == UNION {frames[f].discard : f \in DOMAIN frames} IN
  /\ used \intersect (discards \cup gone) = {}
  /\ discards \intersect gone = {}
  /\ \A f, k \in DOMAIN frames : f # k => frames[f].discard \intersect frames[k].discard = {}
  /\ At("destroyed") /\ Handle("surface", 1, 0) \in gone => created = gone

(* "reset the fence only after a successful acquisition, avoiding fence    *)
(* freeze": the render thread and the device never wait for what will not  *)
(* come.  The fence waited for is signalled or has its submission in the   *)
(* queue, some image comes back, and every semaphore waited for is or will *)
(* be signalled.                                                           *)
NoFreeze ==
  /\ At("wait") =>
       Frame.state = "signalled" \/ \E i \in DOMAIN queue : queue[i].frame = frameIndex
  /\ At("acquire") =>
       \/ free \cup shown # {}
       \/ \E i \in DOMAIN presents : presents[i].swapchain = swapchain
  /\ Waits \subseteq promised \cup signalled \cup Signals
=============================================================================
