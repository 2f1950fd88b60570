# Aether-Vk: TLA+ models, model checking and proofs

Aether-Vk (`src/`) is a Vulkan application framework: a core library (application threads,
GPU resource handling, a fiber job scheduler, OS services) and launchers for Windows, macOS
and Android.  This directory models the parts of it whose correctness depends on the order
in which concurrent actors take their steps.

Paths below are relative to the repository (`src/core/...` is `src/src/core/...` in this tree).
Requirements: TLC with the community modules, and TLAPS for the modules called `*_proofs`.

    tlc -config MC_MPMCQueue.cfg MC_MPMCQueue        # one line per run of PROJECT.json
    tlapm FiberScheduler_proofs.tla                  # and the seven others

## 1. Inventory

| component | source | state | operations | interacts with |
|---|---|---|---|---|
| MPMC queue | `core/public/fiber/mpmc.h` | cells with sequence numbers, two counters | push, pop | used by the scheduler for its three priorities |
| Fiber job scheduler | `core/{public,private}/fiber/jobs.*` | queues, in-flight counter, shutdown flag; per job: continuations, missing dependencies, done flag | addDependency, submit, waitFor, waitUntilAllTasksDone, reset, shutdown; fiberLoop | clients, worker threads that host fibers |
| Application threads and coordinators | `core/*/app/avk-application.*` | `RenderCoordinator` (surface lost, running, two versions), `UpdateCoordinator`, window flag | RTmain, UTmain, the signal* calls | platform main thread, swapchain |
| Android main loop | `launcher/android/.../main.cpp`, `avk-android-app.cpp` | thread handles | window, focus and destroy commands, timed join | the coordinators through atomics and an unlocked notify |
| macOS launcher | `launcher/macos/*` | display link flag | view lifecycle, focus, live resize, display link | the same |
| Windows launcher | `launcher/windows/*` | events, COM thread, window thread | message loop, shutdown with timed waits | the same |
| Discard pool, monitor | `core/*/render/vk/discard-pool.*` | lists of (timeline value, handle) per kind, timeline semaphore, frame counter | discard*, destroyDiscardedResources, onFrame | every owner of GPU handles; the GPU |
| Command pools | `core/*/render/vk/command-pools.*` | per thread: active pool, SPSC ring of recycled ones, cached command buffers | allocate, recycle, discardActivePool, threadShutdown | discard pool |
| Descriptor pools | `core/*/render/vk/descriptor-pools.*` | active pool, recycled pools | allocate, recycle, discardActivePool | discard pool, applications |
| Swapchain and frames | `core/*/render/vk/swapchain-vk.*` | ring of frames with fences, retired handles, live-resize flag | acquire, signalNextFrame, recreate | render thread, main thread (lockResize) |
| Pipeline pool | `core/*/render/vk/pipeline-pool-vk.*` | map from description to pipeline | getOrCreate, discardAll | discard pool |
| Buffer, image, staging managers | `core/private/render/experimental/avk-basic-*`, `avk-staging-*` | maps id to handle, queued copies | create, get, discardById, enqueue, flush | discard pool, applications |
| Texture loader | `core/private/render/experimental/avk-ktx2-textures.cpp` | maps of images and of memory, a command pool | loadTexture, discardById, cleanup | discard pool, applications |
| Applications | `launcher/{windows,macos,android}/*app*.cpp` | what they draw with: buffers, descriptor sets, layouts, render pass, framebuffers, pipelines, swapchain | create and destroy what is constant, and what depends on the surface; record a frame; device lost and regained | all of the above, on the render thread |
| Time | `core/public/os/avk-time.h`, `core/private/os/avk-core.cpp` | real, simulation and fixed clock, the last four deltas | update, fixed update, readings | update thread |
| Instance and device | `core/*/render/vk/{instance,device,common}-vk.*` | instance, chosen device, what it was created with, formats, queue family | create, destroy | everything that renders |
| Textures, render passes, shaders; OS services | | | format conversion, files and logs | |

What is hard in it, and what has to be right:

* **Queue**: claims race with stale counter reads and overtaking by whole laps.  No two calls
  in one cell, no lost cell, FIFO.
* **Scheduler**: several fibers finish the dependencies of one job; counters are raised before
  and lowered after the work they count; a wait, a reset and a shutdown come at any time.
  Dependencies respected, each job run once, waits neither early nor endless.
* **Threads and coordinators**: flags with several meanings, condition variables notified
  without their mutex and rescued by timeouts, a thread that must see a request to stop
  wherever it is.  The application is destroyed alone, an acknowledgement means what it says,
  closing comes to an end, no signalled state is lost, and a frame shows no older one than the
  state it was drawn for.
* **Time**: the fixed clock follows the simulation clock in whole steps and is never ahead of it.
* **Device choice**: what is recorded while devices are compared must be true of the one chosen in
  the end, and nothing is created without the baseline.
* **GPU resources**: the GPU uses a handle long after the CPU has let go of it.  Nothing is
  destroyed, or recycled, in use, in the wrong order, twice, or never.
* **Applications**: the same names, ids and descriptor sets stand for other objects after every
  resize, loss of the surface and loss of the device, and uploads happen in one frame only.  A
  frame reads nothing that is gone or was never filled; nothing is left on a device that goes.

`PROJECT.json` lists every component with its status and every hazard with its line.

## 2. Modules

| module | models | state and actions |
|---|---|---|
| `BoundedFifo` | what the queue promises | a sequence, and the phase of every call |
| `MPMCQueue` | `mpmc.h` | every shared access of `push` and `pop` is an action; relaxed loads of the counters return any older value |
| `FiberScheduler` | `jobs.h`, `jobs.cpp` | each atomic access or critical section of `fiberLoop`, `addDepencency`, `pushTask`, `waitFor`, `waitUntilAllTasksDone`, `reset`, `shutdown` is an action.  The queues are the FIFOs `MPMCQueue` implements with the refusals they may make: a push and a pop are two steps each, the claim of a cell and its release, and what the second has not released the other kind of call is refused |
| `FiberScheduler_proofs` | | TLAPS proofs about `FiberScheduler` and, in its second part, `MPMCQueue` |
| `RenderThread` | `avk-application.h/.cpp`, `avk-core.cpp` | RTmain and UTmain step by step, the setters the main thread calls, a frame reduced to the results of acquire and present.  The clocks of `TimeInfo` are their distance `ahead`; the camera is the number of the state it shows |
| `RenderThread_proofs` | | TLAPS lemmas about the threads alone, used by the three below |
| `AndroidMain` | `main.cpp` on top of `RenderThread` | commands of the activity, `timedJoinThreads` |
| `MacMain_proofs`, `AndroidMain_proofs`, `WindowsMain_proofs` | | TLAPS proofs about the module of that name; the second part of `WindowsMain_proofs` is about `SwapchainFrames` |
| `MacMain` | `avk-primary-window.mm`, `avk-macos-application.cpp` on top of `RenderThread` | view lifecycle, focus, live resize, display link, joins |
| `WindowsMain` | `main.cpp`, `avk-win32-window.cpp`, `avk-comutils.cpp` on top of `RenderThread` | messages of the primary window that reach other threads, every event and flag operation of `enqueueMessageCOM` and `avkComThread`, the three timed joins |
| `SwapchainFrames` | `swapchain-vk.*`, `surface-vk.*`, `RTonRender`, the destructors | frames with fence, acquire semaphore and discard list; images; queue, presentation and image release as steps of the device |
| `DiscardPool` | `discard-pool.*` with the frame loop, fences, command pools and shutdown around it | the CPU side is sequential; the GPU completes submissions at any moment, also between two items of a sweep |
| `DiscardPool_proofs` | | TLAPS proofs about `DiscardPool` |
| `CommandPools` | `command-pools.*` and the sweep that hands pools back | several threads; every access to the two ends and the cells of a ring is an action, and so is each section under a lock |
| `CommandPools_proofs` | | TLAPS proofs about `CommandPools`, and in its last section about `DeviceChoice` |
| `PipelinePool` | `pipeline-pool-vk.*`, `pipeline-info.h`, the pipelines and render passes of the applications | the two maps and the create infos that are kept, filled in and cleared; render passes have handles that Vulkan uses again.  Its actions are steps of `AppResources`; it has no specification of its own |
| `AppResources` | `avk-windows-application.cpp`, `avk-macos-application.cpp` (alike), `avk-android-app.cpp`; the managers, the texture loader, `DescriptorPools`; device loss, surface loss, resize and end in `avk-application.cpp` | one thread; an action per handler, or per part of it that can be entered or left alone; an object is `<<kind, name, n>>`, and `objects` holds the living ones.  A sweep takes all that waits: when one may is the business of `DiscardPool` |
| `AppResources_proofs` | | TLAPS proofs about `AppResources` and `PipelinePool` |
| `DeviceChoice` | `instance-vk.cpp`, `device-vk.cpp` | the constructor of `Instance`, the loop over the devices one device at a time, the extensions, formats, queue and features of the chosen one, the two destructors.  A device is any record of what the queries answer |
| `MC_*` | | values of constants and symmetry for TLC |

`AndroidMain`, `MacMain` and `WindowsMain` extend `RenderThread`: its actions leave the main thread's
variables alone, and every action of theirs takes place with the two other threads anywhere.
`FiberScheduler` relies on `BoundedFifo` rather than on `MPMCQueue`; run `mpmc` and theorem
`FifoImplemented` are the link.  `BoundedFifo` refuses exactly what the cells make `MPMCQueue` refuse:
a push when the value a lap earlier is still queued or its pop has not returned, a pop when nothing is
queued or the push of the head has not returned.  `FiberScheduler` says the same of its queues with `vacant`, the cells
that are not queued in the order in which pushes will claim them, each with the job a pop is still
taking out of it.

In each module a section "Deliberate slips" holds altered forms of definitions (a dropped
guard, an off-by-one).  No specification uses them; replacing the definition of the same stem
by one shows that the properties notice (`PROJECT.json`, `mutants`).

Conventions: a condition variable has its window (evaluate the predicate, doze off, only then
hear notifications).  `assert` has no effect, as in a release build.  `showErrorScreenAndExit`
and SIGTERM end the process (`alive`).  A variable called history in a comment is not in the code.

## 3. Runs

| run | shows | bounds |
|---|---|---|
| `mpmc` | `CellExclusive`, `NoCellLost`; `ImplementsFifo`: the queue implements `BoundedFifo` | 3 threads, 2 values, 2 cells, pushes from positions below 4: two laps, so that a thread can be overtaken by a lap while two others meet in a cell.  Symmetric in threads and values |
| `scheduler` | `DependencyOrder`, `RunsOnce`, `WaitAllSound`, `ShutdownKeepsContinuations`, `InflightCovers` | 2 fibers, jobs a, b, c where c continues any of a and b, and b may continue a (a join, a chain or both); all three share a queue of two cells: pushes of the client are refused, retried, given up, and a push of c is refused, and c lost, while a slow pop holds the cell.  One reuse after reset, shutdown at any time.  Two fibers finish a and b together; section 4 has the proof for any graph |
| `scheduler_live` | `DueJobsFinish`, `WaitAllReturns`, `ShutdownReturns` | the same jobs in three priorities, the function of b waits for a; four cells a queue |
| `android` | `DestroyedAlone`, `AckMeansExit`, `StopHeeded`, `DestroyEnds`, `SurfaceRegained` | two pairs of threads, so that a further window may come during `RTwindowInit`; 2 polls in the timed join (the source has 4: the first answer may come at once, after a nap or not at all); commands unbounded in number and at any time |
| `macos` | `FixedKeepsUp`, `FrameShowsClaimed`, `LatestStateClaimed`, `CloseReturns` | one pair of threads, 2 counted states: one state may arrive while the other is being claimed.  A fixed step of 2 and a cap of 5, about the ratio of 16'667 to 41'666 (avk-application.h:90); between two updates 1 (no step is due, or one), 3 (one or two) or 9 (more than the cap) may pass |
| `windows` | `WorkSignalled`, `NobodyLeft`, `RequestsServed`, `CloseEnds` | one pair of threads, 2 requests: one may arrive at any step of the other's, which is what makes the COM thread wake up once too often |
| `swapchain` | `SemaphoresFree`, `OwnedOnce`, `NoFreeze` | one or two images, three swapchains: two resizes or losses, each with fewer, as many or more images, with frames of both earlier swapchains still in the queue.  At the end everything is destroyed (the last part of `OwnedOnce`).  `NoFreeze` is the safety form of "no wait is endless" and needs no fairness |
| `discard` | `ReleasedUnused`, `TagsSorted`, `DestroyOrder`, `OwnedOnce`, `CommandBufferIdle` | 2 frames in flight, 4 submissions, a sweep every second frame when more than one image is waiting, a ring that holds one pool: pools are recycled, reused and, with the ring full, destroyed |
| `command_pools` | `OwnedOnce`, `CacheKnowsActive`, `StorageAlive`, `RingIsFifo` | 2 threads, 3 pools, 3 storages, a ring of three cells, which holds two pools, whose indices wrap around at 6: one thread sweeps and writes a cell while the other reads another one, records, discards or gives up its storage and makes a new one; two pools in a ring have an order, and a third finds it full |
| `resources` | `RightPipeline`, `DrawsReady`, `IdsMatch`, `NothingLeft` | the desktop application and the Android one; 2 devices (one loss) of up to 2 frames each, so that a first frame and a later one are told apart; 3 render passes over 2 handles, so that one gets the handle of an earlier one; up to 3 pipelines at a time: the two of the desktop application, and one of three that set what these leave alone or one compute pipeline; buffers in memory that the host sees for none, for some and for all of them |

In `android` and `windows` no time passes between two updates, and in `android` no state is counted
(none is ever signalled there): the clock is the business of `macos`, and the proof is about any times.  `DeviceChoice` has no run: it is
sequential, its constants are sets of names, and its properties are proved for all of them.

Two runs end in a counterexample; each disagrees with a line of the repository:

| run | the line | what happens |
|---|---|---|
| `scheduler_reset` | jobs.cpp:28 "safe to clear now" | `m_done` is signalled before the continuations are read; a reset in between loses them |
| `windows_shutdown` | avk-win32-window.cpp:801 "wake up COM thread so it can exit, then wait for it" | woken once too often, the COM thread finds an empty list and resets the event that was to end it; after ten seconds it is terminated |

### Fairness

Stated only where a liveness property needs it, and only as weak fairness:
`FiberStep(f)` for every fiber (worker threads are scheduled by the system, the fibers of a
worker round-robin, and `waitFor` yields); the steps that finish a client call which has begun,
but never the start of another; the render thread and the update thread; the rest of a command
the main thread has begun (`AndroidMain`: any main step outside `loop`; `MacMain`: the steps of
a close; `WindowsMain`: a request or a close), but never the arrival of a command.  `TimeOut` is part of the render thread's steps:
`wait_for` returns by itself.

### Assumptions about the environment

* The clock of the system is monotone, and the arithmetic of `TimeInfo` does not overflow (see
  below for Windows).  `TimeScale` is 1; the model takes the scaled time as an input.
* `NoThread`, the value of a handle not yet assigned, is no member of `Threads` (`AndroidAssumption`).
* `ShutdownAlone` (run `command_pools`): clients keep `threadShutdown` and sweeps apart, and force a
  sweep after it, as `RThandleDeviceLost` does (avk-application.cpp:221).  Without it
  `StorageAlive` is violated, see below.
* Vulkan hands out the handle of a destroyed render pass again (`PipelinePool`), but never one of a
  command pool (`CommandPools`).
* No two descriptions in run `resources` differ in `fragmentOut` only, and all graphics descriptions
  have one of the two layouts of the application.
* In `AppResources`: creations and the loading of the texture succeed (most failures end the
  process, but avk-windows-application.cpp:156 ignores the result of `loadTexture`); the 256 sets
  of a descriptor pool are enough for the two an application allocates (`allocate` makes a new pool
  when they are not, then aborts on the result of the old one, descriptor-pools.cpp:68); and Android submits
  frames, as it is written to: today its update thread never signals a state, so that it submits
  none and cannot lose its device.  Only Android has the handlers for a lost device or surface; on
  desktops both end the process.
* `prompt` (in `AndroidMain`): chosen at the request to stop.  If true, the clock of the timed
  join advances only while the render thread sleeps for longer than that join waits.
  `StopHeeded` is about this case; `DestroyEnds` is about both.  In `WindowsMain` it says that
  the ten seconds pass only while the thread waited for would not end.
* A picker the user leaves open keeps the COM thread busy: `RequestsServed` assumes that none
  stays open for good.  Requests are processed last in, first out (avk-comutils.cpp:365), so
  with requests without end an early one could wait for ever; the run has two.
* `EarlyShutdown` and `EarlyReset` say what a client of the scheduler may do; the passing runs
  forbid the second, whose outcome is `scheduler_reset`.
* A client of the scheduler declares a dependency only while neither job, nor any job one of them
  depends on, directly or not, has been submitted; it submits a job before its dependencies
  (`Untouched`), and after the jobs its function waits for.  Without the indirect part a dependency
  could be declared on a job that has already been started as a continuation.  `trySubmitTask` tests
  the count and pushes afterwards; a client that submits later can run a job twice.
* In `scheduler_live` each queue has more cells than jobs and there are more fibers than waiting jobs: a
  continuation that is refused is lost (jobs.cpp:221; theorem `NoneRefused` says when none is), and
  with every fiber in `waitFor` nothing is popped (jobs.cpp:166).
* The GPU completes submissions in order; the fence and the semaphore of one submission are
  signalled together.

### Known deviations without a run of their own

Met while modelling.  First those that a run shows when an assumption or a property is changed:

* `AndroidMain`, the three properties without `main.overtaken`: avk-application.h:208 says that the flag
  "acknowledges the termination request", but `RTwindowInit` sets the same flag; destroyed early,
  main takes that for the acknowledgement (`AckMeansExit`) and joins a thread that goes on for ever
  (`DestroyEnds`).  And a window lost and given back during `RTwindowInit` starts a second pair of threads,
  since `m_windowInit` is not yet set (main.cpp:135); its handles replace those of the first pair, which
  nobody joins when the application is destroyed (`DestroyedAlone`).  `overtaken` is a history: it
  records these two cases and no other, and the properties say that nothing else goes wrong.
* `FiberScheduler`, `ShutdownKeepsContinuations` without its last two disjuncts: a continuation is lost
  when its push is refused, by a full queue or, with room left, by a pop that another fiber has still to
  finish; and one that lies behind a push of the client, claimed and not yet published, is found by
  nobody, so that all fibers may leave when the flag goes up just then.
* `CommandPools` with `ShutdownAlone = FALSE`: `recycle` gives back the lock of the registry before
  it uses the storage it found, which `threadShutdown` frees in between.  avk-application.h:309 asks
  for `threadShutdown` on all other threads without a word about sweeps.
* `CommandPools` without the forced sweep after `threadShutdown`: a thread that shuts down only "to
  flush memory" (command-pools.h:110) and goes on gets its discarded pools back into a storage whose
  cache does not know them, and `at` throws (command-pools.cpp:104).
* `DiscardPool`, `ReleasedUnused` without its exception: avk-staging-transient-manager.cpp:99 says
  "discard staging buffer on next timeline", the current value is used, and a sweep may destroy the
  buffer during the copy.  With 240 frames between sweeps this takes many resizes before the first
  frame.

The others: the ring of 64 pools (command-pools.h:132) holds 63; `operator==` of `GraphicsInfo`
leaves out `fragmentOut`, one of the four parts named in pipeline-info.h:100-102, and that of
`FragmentOut`, used by nobody, has its `memcmp` the wrong way round; `eCullBack` culls front faces
and any flag but `eCull` turns culling off (pipeline-pool-vk.cpp:547-551, "default: cull back face");
`discardAllPipelines` asks for the layout only, so that a pipeline of another layout made for a
render pass outlives it in the map, and is found again under a new render pass with the old handle
(the run keeps to the two layouts `cleanupVulkanResources` names); the assertion of mpmc.h:20 accepts one cell, where
the queue overwrites values (theorem `QueueBounded` needs two); `addDepencency` locks the mutex of
the wrong job (jobs.cpp:16), so that a dependency declared on a job that already runs races with
the copy of its continuations; the sentinels of
jobs.cpp:82-84 are refused by `pushTask`; the pulse of jobs.cpp:39-46 can be missed by a polling
fiber; a push refused after the counter was raised leaves it raised; a High job submitted behind
the scan of every fiber just before shutdown is abandoned; `RTsurfaceLost` never looks at the
request to stop, so Android kills the process (`Kill`); its assertion avk-application.h:257 can
fail when the window comes back just before; the surface may be lost again between the wait
and its recreation; `AndroidApp::UTdoOnUpdate` never signals a state, so Android renders
nothing; a macOS window closed during `RTwindowInit` never finishes closing; `FrameDiscard` is
emptied only by the destructor of the swapchain, not on the next round (swapchain-vk.cpp:249), and
not at all after the loss of a surface: `forceDiscardToCurrentFrame` clears `m_swapchain`, and
`~Swapchain` returns before it comes to the lists (the last part of `OwnedOnce` leaves that case out);
`acquireNextImage` ends the process on a lost surface, so that avk-application.cpp:130 is never
true;
`CommandPools` and `DescriptorPools` are destroyed before the discard pool, which
discard-pool.h:54 says they outlive (`DestroyOrder` shows that this does no harm);
`DescriptorPools::discardActivePool` takes its own mutex before that of the discard pool, a sweep
the other way round.

Time: `current()` hands out the oldest of the last four deltas as `DeltaTime` (avk-core.cpp:147), not
the one "since last update" (avk-time.h:20-22), and the cameras move by it; `Time`, `FixedTime` and
`UnscaledTime` are readings of the clock, not "since instantiation"; `current` is called "thread
safe" (avk-time.h:65) but reads the plain array `UTupdate` writes (harmless today: only the update
thread calls it).  On Windows the counter times
1'000'000 (avk-core.cpp:38 and 79) leaves 64 bits after ten days at 10 MHz: the delta becomes
negative, `min` keeps it, and the clocks go back.  The first view of the camera is "useless, overridden by
update thread initialization" (avk-macos-application.cpp:214, avk-windows-application.cpp:165,
avk-android-app.cpp:176); it is written without the lock, and when the update thread exists already
it may overwrite a newer view (the first disjunct of `FrameShowsClaimed`).

Swapchain: `selectSurfaceFormat` (swapchain-vk.cpp:46-65) uses an index into the preferred formats to
pick from those of the surface; line 253 compares the frame with `<=`.

Device: the `continue` at device-vk.cpp:332 leaves the loop over extension names, not that over
devices, so that a device "Supports all required extensions" in any case; `maxScoreSoFar` is never
raised, every device with the features is "Highest Score" and the last one is taken (theorem
`LastWins`); any of graphics, compute and transfer makes a queue universal (lines 485-487), where
device-vk.h:43-45 asks for all; `bufferDeviceAddress` is asked for (line 546) but no longer looked
for, against the warning in line 542; the sRGB format is BC7 whatever was tested (line 280); a
format passes with any one of the four features, in both tilings.

## 4. Proofs

Each module is proved for every value of its constants that its assumptions allow.  The argument is
the same throughout: an inductive invariant, of which the first state and every step are proved one
action at a time, and which implies the property.

`FiberScheduler_proofs`, for every finite graph of dependencies and set of fibers, all priorities and
every capacity:

* `CoverInvariant`, `SchedulerTyping`, `CounterCovers`: types and `InflightCovers`, whatever the client
  does.  `Slack` is what the counter holds beyond the jobs that are queued, in a fiber or about to be
  pushed; each step leaves it alone or, when a push is refused, raises it.
* `SchedInvariant`, and from it `DependenciesFirst`, `JobsRunOnce`, `WaitAllIsSound`
  (`DependencyOrder`, `RunsOnce`, `WaitAllSound`), for a client that resets jobs only after
  `waitUntilAllTasksDone`; run `scheduler_reset` shows that they need this hypothesis.
* `ShutdownAbandonsNone`: `ShutdownKeepsContinuations`, under the same hypothesis and for queues of any
  capacity: what a queue has accepted is not abandoned, but for the case of the client's own push.
* `CellsInvariant` and `NoneRefused`: no continuation is refused (`refused` stays empty), under the further
  hypothesis `ContinuationsFit`: a queue that gets continuations has a cell for every job of its
  priority.  The run's constants do not satisfy it, and there continuations are refused.
  Room for all jobs that can be queued at once would not be enough, since a cell stays taken until its pop
  is over and holds back the cells behind it.
  `CellsInv` bounds that: for every cell from the first one held back to the end of `vacant` a job of the
  priority has been popped, and the continuation itself is none of them.

`RunsOnce` alone is not inductive: it says nothing about how often a job may be pushed.  `SchedInv`
says where each job is, in one place at most (`OnePlace`); that `m_remainingDependencies` is the number
of dependencies whose functions have not returned or whose fibers have still to announce it (`Owes`,
`Counting`), so that only one decrement finds 1; that everything that has started goes back, through the
graph, to a job the client launched (`Origin`), so that nothing starts while the client is still wiring
it up; that continuations are the inverse of dependencies (`Graph`); and that a lost continuation stays
counted while a queued one will still be looked at by some fiber (`Kept`), which is why the wait errs on
the side of waiting and why a shutdown leaves none behind.  After `waitUntilAllTasksDone` the counter is
zero and all this collapses into `Settled`, which survives resets job by job.

The second part of the same module, about `MPMCQueue`, for every set of threads and values, every bound
`MaxPos` and every capacity of at least two (a hypothesis of each theorem that needs it):

* `QueueTyping`: `QueueSpec => []QueueTypeOK`.
* `QueueInvariant`: `QueueSpec => []QueueInv`, the inductive invariant.
* `QueueBounded`, `CellsExclusive`, `CellsNeverLost`: `Bounded`, `CellExclusive`, `NoCellLost`
  from it.

`CellExclusive` alone is not inductive: it says nothing about what sequence numbers threads find
before they claim.  `QueueInv` adds that the `Capacity` positions starting at `dequeuePos` visit
every cell once (`WindowOrdered`); that a queued position's cell is published or has its pusher
inside (`QueuedCells`); that a free one is released or has the popper of its previous lap inside
(`FreeCells`); that threads inside cells own them (`PushersOwn`, `PoppersOwn`,
`ClaimsDistinct`); and that a sequence number only grows after a thread has looked at it
(`LookedAhead`), which is what makes the compare-and-swap on a counter speak for the cell.  Two
positions of a window fall into one cell only if they are equal: lemmas about `%` carry this.
With one cell "published" and "released" are the same number, and the argument breaks exactly
where the code does.

* `RefusalInvariant`, `FifoImplemented`: the queue implements `BoundedFifo` (`ImplementsFifo`).  The
  contents are the values of the cells from `dequeuePos` to `enqueuePos`, where a cell that is claimed
  but not yet written counts with the value its pusher brings; so a push takes effect at its
  compare-and-swap, a pop at its own, and all other steps stutter.  What `QueueInv` does not say is why
  a refusal is one the FIFO may make though the counter it rests on is stale: `RefusalInv` says that
  loaded positions are not ahead of the counters (`PosLoaded`) and that no sequence number is below
  what the claims so far left (`SeqGrown`), so that a cell that is behind means the queue is full
  (empty) now, or that a call of the other kind has not returned.

`DiscardPool_proofs`, for every number of frames in flight, every period and threshold of the monitor,
every capacity of the ring and every number of submissions and items:

* `PoolInvariant`: `Spec => []PoolInv`, the inductive invariant, and `PoolTyping`: `Spec => []TypeOK`.
* `TagsStaySorted`, `NothingReleasedInUse`, `HandlesOwnedOnce`, `CommandBuffersIdle`,
  `OrderOfDestruction`: the five properties of run `discard`.

`ReleasedUnused` holds because an item's last use is at most its tag (`Lists`), a sweep's value is at
most the semaphore's (`SweepFacts`), and at the end everything has been waited for (`Clock`).  That
nothing is destroyed twice needs to know where each item is (`Places`), that none is forgotten
(`Accounted`), and that one number never plays two roles (`Roles`).  The order of destruction needs that
the list of views is always the younger part of the list of images (`ViewsFirst`), in the middle of a
sweep as well, and how far the destructors have come (`Ending` and the four predicates after it).

`RenderThread_proofs` says of the render thread, with any number of threads, which types its steps
keep and which variables they leave alone; the modules below add their main thread and their update
steps.

`MacMain_proofs`:

* `Typing`: `Spec => []TypeOK`.
* `ClockKeepsUp`: `Spec => []FixedKeepsUp`, for any `FixedDelta < MaxDelta` and any `Elapsed`.  The
  property lets the clock lag by a capped delta while some thread is catching up; `ClockInv` adds
  that there is one update thread at most, so that no second one adds to the lag.
* `FramesCurrent`: `Spec => []FrameShowsClaimed`.  `ViewInv` relates the camera to the versions: it is
  as new as the signalled state, one newer while the update thread has still to signal
  (`ViewFollows`), and nobody has read a version that was not signalled (`VersionsOrdered`).

`AndroidMain_proofs`:

* `AloneInvariant`, `AloneAtTheEnd`: `Spec => []DestroyedAlone`, whatever the commands and whenever they
  come.  `AloneInv` says that every pair of threads is the one the main thread names or was overtaken by
  a further window, which gets a pair of its own only if it overtook all those there are (`NamedPair`), and
  which joins lie behind each step of `timedJoinThreads` (`JoinsDone`).
* `AcknowledgedByTheLeaving`: `Spec => []AckMeansExit`.  If no command overtook a thread, there is one pair,
  past `RTwindowInit` from the request on, so that the flag is set again only by a thread that leaves
  (`AckInv`).
* `PromptNotKilled`: `Spec => []StopHeeded`, overtaken or not.  `HeedInv` says that nothing is ever
  drawn on Android, so that a thread which finds the surface there at the request never comes to
  `RTsurfaceLost`, the only place where it could sleep past the timeout.

`WindowsMain_proofs`, `NobodyLeftBehind`: `Spec => []NobodyLeft`, whichever of the three waits timed
out.  `LeavingInv` is `AloneInv` with the COM thread as the third: what a wait leaves behind, heard or
timed out, is a thread that has ended (`WaitsDone`), and nothing starts one again.
`NoRequestForgotten`: `Spec => []WorkSignalled`, for any number of requests.  `hCanWrite` is a lock
(`ListLocked`), and the COM thread takes the event back only while it holds it and the list is empty
(`Announced`).

The second part of the same module, about `SwapchainFrames`, for any number of swapchains and any set of
image counts that has a greatest one (a surface answers with 32 bits):

* `SwapchainInvariant`: `SwapchainSpec => []SwapchainInv`, the inductive invariant, and `SwapchainTypes`.
* `SemaphoresAreFree`, `HandlesOwnedOnce`, `NothingFreezes`: the three properties of run `swapchain`.

`SemaphoresFree` is not inductive: that the acquire semaphore of the next frame is free rests on its fence,
which was signalled by the submission that waited for the semaphore, and the semaphore of an image is free
because the image came back, which it does only after the presentation that waits for it.  `SemInv` says
this: a semaphore is promised, signalled or to be signalled by one entry of a queue (`SemaphoresInv`); a
frame's fence is reset while its submission is in the queue or about to be made, and its semaphore is
pending only then or from the acquisition on (`FenceInv`, `FrameInv`); an image is free, held by the render
thread, in a presentation or shown, and nothing is going to signal the semaphore of one that is free or
shown (`ImageInv`, `HeldInv`).
What a presentation still waits for when its swapchain is replaced belongs to older images, and `NameInv`
says why the names differ: each swapchain and what is made with it carry its number, and the number only
grows.  `NoFreeze` follows from the same two.  For `OwnedOnce`, `OwnInv` says that discarded handles are of
earlier swapchains (`DiscardsInv`), that nothing is destroyed before the end (`GoneInv`), and that, as
long as the surface is the first, what was created is in use, discarded or destroyed (`AccountInv`);
after a surface loss that stops being true, which is the leak described in section 3.

`CommandPools_proofs`, for every finite set of threads, every capacity of at least two, every width of the
indices that is a multiple of it and any number of pools and storages, in three layers:

* `RingInvariant`: `Spec => []RingInv`, whatever the clients do.  The registry gives each thread a storage
  of its own, and one that is being drained is in no other hands (`RegistryInv`); one sweep works at the
  head of the list (`SweepInv`); a pop has found a pool and a push room for one, and what they have found
  is still so when they use it (`RoomInv`), because only the owner takes from a ring and only the holder
  of `m_mtx` adds to it; what lies between head and tail is a pool (`PooledInv`).  From it `PoolsTyping`
  and `RingsAreFifos` (`RingIsFifo`).  A push writes a cell that no reader counts as queued, since
  positions less than a lap apart are different cells: lemmas about `%` carry this, as in the queue.
* `OwnerInvariant`: `ShutdownAlone => (Spec => []OwnerInv)`, the second layer, for clients that keep
  `threadShutdown` and sweeps apart: a storage is alive as long as somebody holds it and no sweep meets one
  that is being drained (`AliveInv`); what the owner has read is the first pool of its ring, and what a
  sweep has written is the first of the list (`ActiveInv`); a thread's active pool, its ring, its hand and
  its entries in the list hold pools of its own cache, and a thread that has left has no entries
  (`CacheInv`), which is what the forced sweep after `threadShutdown` is for.  From it `StoragesAlive` and
  `CachesKnowActive`.  The hypothesis is needed: see section 3.
* `PlaceInvariant`: `ShutdownAlone => (Spec => []PlaceInv)`, the third layer.  `Kept` names the kind of place
  a pool is in and whose it is; `SpotInv` says that a created pool has exactly one and no other pool has
  any, `OnceInv` that no ring and no list holds a pool twice.  A pool whose pop is half done is active and
  still between head and tail, where `Kept` no longer counts it; one whose push is half done is listed and
  already in its cell, beyond the tail.  Each step moves at most one pool and leaves the kept places of
  the others alone, except where storages are freed, which retires all their pools at once.  From it
  `PoolsOwnedOnce` (`OwnedOnce`): the positions that `Places` collects are a single one.

The last section of the same module, about `DeviceChoice`, for any devices in any order:

* `RecordsAreOfChosen`: the records stay true of the chosen device though another one was chosen first.
* `CreatedHasBaseline`: `Baseline` and `LinearUsable`.  A device is chosen without its extensions being
  looked at; `StageInv` carries what each later stage has established up to `vkCreateDevice`.
* `LastWins`: `LastEligible`, from `LoopInv`, which says that all devices passed over since the choice
  were not eligible.

`AppResources_proofs`, for all descriptions of pipelines, all memory, any number of render passes, frames
and devices:

* `PoolInvariant`: `AppSpec => []PoolInv`, and from it `PipelinesAreRight` (`RightPipeline`), under two
  hypotheses on the users of the pool: no two descriptions differ only in what `operator==` overlooks
  (`DescriptionsDiffer`), and none has a layout that `discardAllPipelines` is not asked for
  (`LayoutsKnown`).  The run's descriptions satisfy them, which TLC checks (`UsersSeeToIt`).
* `AppInvariant`: `AppSpec => []AppInv`, and from it `IdsAlwaysMatch` (`IdsMatch`), `NothingIsLeft`
  (`NothingLeft`), `DrawsAreReady` (`DrawsReady`) and `AppTypes` (`AppTypeOK`).  They need neither.

None of the properties is inductive.  `RightPipeline` says nothing about the create info that the next
description is filled into: `TemplateInv` says that it comes back to one of two states, which differ only
in what every description sets (`FilledAsFresh`, `ClearedAsEver`).  Nor does it say what a user may find:
`EntryInv` that every entry of the maps is what its description asks for, `CurrentInv` that those with the
layouts of the application were made for the present render pass, and `PassInv` that a handle is not
used again before the sweep has destroyed its pass, so that a description with a recycled handle finds
nothing old.  `DrawsReady` and `NothingLeft` speak of single moments; `AppInv` says for each handler
what the maps and the members hold before it (`MapInv`, `MemberInv`), that what waits was made for an
earlier generation, or staged, or is all that is left of a device (`WaitInv`), that these two are
disjoint and make up all that exists (`ObjectInv`), and that buffers stay filled and descriptor sets
bound from the first frame of a device to its end (`DataInv`).  The last rests on `timeline` being zero
again when a device has been made anew, else the first frame on it would copy and bind nothing.

Only model-checked: liveness (TLAPS has no support for fairness here), and the two runs that
expect a violation.  Only proved: `TypeOK` of the queue, `MacMain`, the scheduler, the discard pool, the
command pools, the swapchain and the resources of the applications, `Bounded` of the queue, and all of `DeviceChoice`.  Abstracted in all of them: the memory model beyond stale relaxed
counters (acquire and release accesses are sequentially consistent) and the wrap-around of 64-bit
counters, which an execution does not reach (except the one of the Windows clock, see above).

## 5. Not modelled

The VMA allocator, memory budgets, the layers of a debug build, the conversion of texture files and
the tables that turn graphics descriptions into Vulkan calls have no state machine of their own.
The readings of `TimeInfo` decide how far a camera moves and nothing else; logging, files
and stack traces are pure input and output.  Menus, hit testing, full screen, input events and the pickers
of the launchers touch one thread.  An exhausted descriptor pool is left out, see the assumptions.  In `DiscardPool`
the lists for buffer views and descriptor pools are left out (nothing fills them), and the three
framebuffers or two pipelines of a generation count as one.

## 6. Plan

Everything planned is done, except one component: `DescriptorPools` with several threads and exhausted
pools, whose `discardActivePool` takes two mutexes in the order opposite to a sweep.  It becomes worth
modelling once an application allocates more sets than one pool has.
