---------------------------- MODULE AppResources ----------------------------
(***************************************************************************)
(* What the applications create on a device, and who owns it until it is   *)
(* destroyed: WindowsApplication, MacosApplication, which does the same,   *)
(* and AndroidApp (create/destroyConstantVulkanResources, create/cleanup-  *)
(* VulkanResources, RTdoOnRender), the buffer, image and staging managers, *)
(* the texture loader, the descriptor pools, and the two ways of           *)
(* ApplicationBase to lose everything: a device that is lost and made      *)
(* anew, and the end.  The pipelines, their pool and the render passes are *)
(* those of PipelinePool.                                                  *)
(*                                                                         *)
(* All of it runs on one thread.  The manager maps have ids for keys; an   *)
(* object is <<kind, name, n>>, n telling apart those of a name that were  *)
(* created one after the other.  When a sweep may destroy what is in       *)
(* DiscardPool; here it takes all that waits.                              *)
(***************************************************************************)
EXTENDS PipelinePool, Functions

CONSTANTS MaxTimeline,  \* bound: frames on one device
          MaxDevices,   \* bound: devices created
          HostVisible   \* the sets of buffers that memory may make visible

ASSUME AppResourcesAssumption ==
  MaxTimeline \in Nat /\ MaxDevices \in Nat \ {0} /\ HostVisible # {}

VARIABLES app,         \* "desktop" or "android"
          at,          \* the handler that comes next
          closing,     \* the destructors are running
          lost,        \* RThandleDeviceLost is running
          device,      \* m_vkDevice: the number of the present one
          timeline,    \* ApplicationBase::m_timeline
          swapchain,   \* the number of the present one
          buffers,     \* BufferManager::m_bufferMap: id -> buffer
          images,      \* ImageManager::m_imageMap: id -> image
          textures,    \* TextureLoaderKTX2::Impl::m_loadedTextures
          allocations, \* KtxThreadLocalAlloc::allocations: id -> memory
          members,     \* handles that members of the application own
          targets,     \* what the framebuffers were made of
          sets,        \* m_cubeDescriptorSet, ...: the objects bound to it
          waiting,     \* DiscardPool: objects other than pipelines
          objects,     \* history: the living objects of the device
          written,     \* history: objects the host has filled
          copied       \* history: <<object, stage>> a barrier lets read

ownVars == <<app, at, closing, lost, device, timeline, swapchain, buffers, images, textures,
             allocations, members, targets, sets, waiting, objects, written, copied>>
managerVars == <<buffers, images, textures, allocations>>
dataVars == <<sets, written, copied>>
allVars == <<poolVars, ownVars>>

Desktop == app = "desktop"

-----------------------------------------------------------------------------
(* Names *)

BufferIds ==
  {"Vertex", "Index", "Cube", "Model"}
    \cup (IF Desktop THEN {"SkyboxVertex", "SkyboxIndex"} ELSE {})
Sets == IF Desktop THEN {"cube", "skybox"} ELSE {"cube"}

Named(kind, names) == {<<kind, n, device>> : n \in names}
Buffer(id) == <<"buffer", id, device>>
Staging(id) == <<"staging", id, device>>
TextureImage == <<"image", "Tex", device>>
TextureMemory == <<"memory", "Tex", device>>
TextureView == <<"imageView", "Tex", device>>
Sampler == <<"sampler", "skybox", device>>
Depth == <<"image", "depth", generations>>
DepthView == <<"imageView", "depth", generations>>
Framebuffers == <<"framebuffer", "all", generations>>
\* Pools: the one DescriptorPools starts with, and that of the texture loader
DescriptorPool == <<"descriptorPool", "active", device>>
Loader == <<"commandPool", "KTX", device>>

\* createDescriptorSetLayout: binding -> stage
SetLayout == [cube |-> <<"fragment", "vertex">>, skybox |-> <<"fragment", "fragment">>]

\* The destination stage of each copy of the first frame
CopyStage(id) == CASE id = "Cube" -> "fragment"
                   [] id = "Model" -> "vertex"
                   [] OTHER -> "vertexInput"

-----------------------------------------------------------------------------
(* Deliberate slips, used only to show that the properties notice them:    *)
(* each stands in for the definition of the same stem further down.        *)
TimelineRegained_Kept == timeline
ConstantBuffers_NoModel == BufferIds \ {"Model"}
CleanedImages_Kept == images

-----------------------------------------------------------------------------
(* Who holds what *)

\* A map of one entry
Entry(id, object) == [i \in {id} |-> object]
\* try_emplace: an id that is taken keeps its object
Emplaced(map, new) ==
  [id \in DOMAIN map \cup DOMAIN new |-> IF id \in DOMAIN map THEN map[id] ELSE new[id]]
Without(map, ids) == [id \in DOMAIN map \ ids |-> map[id]]

\* destroyDiscardedResources, and what it does for PipelinePool
SweepAll ==
  /\ Sweep
  /\ objects' = objects \ waiting
  /\ waiting' = {}

\* The layouts, modules, templates and so on of createConstantVulkanResources:
\* those that are discarded, and those destroyed at once
Discarded == Named("pipelineLayout", Sets) \cup Named("shaderModule", Sets)
Templates == Named("updateTemplate", Sets) \cup (IF Desktop THEN {Sampler} ELSE {})
SetLayouts == Named("setLayout", Sets)

\* The buffers that destroyConstantVulkanResources discards by their ids
ConstantBuffers == BufferIds

\* ImageManager::discardById of "depth"
CleanedImages == Without(images, {"depth"})

\* RThandleDeviceLost: "reset the timeline when the device is reacquired!"
TimelineRegained == 0

\* BufferManager::discardById and discardGraphicsInfo, for each of the application
DiscardedConstants == Discarded \cup {buffers[id] : id \in ConstantBuffers}

\* TextureLoaderKTX2::Impl::discardById
DiscardedTexture(texture) == {TextureView, texture.image, allocations[texture.allocationId]}

\* The destructors of the loader and of KtxThreadLocalAlloc take what is left
LoaderCleanup(loaded, memory) ==
  {Loader} \cup {loaded[id].image : id \in DOMAIN loaded} \cup Range(memory)

\* RTdoOnRender, first frame: the copies of what the host could not write
Staged == IF Desktop THEN {id \in BufferIds : buffers[id] \notin written} ELSE {}

\* RTdoOnRender, first frame: the descriptor updates
Bound == [cube |-> <<buffers["Cube"], buffers["Model"]>>, skybox |-> <<TextureView, Sampler>>]

\* RTdoOnRender: what the two draws use
Drawn == [cube |-> [user |-> "main", buffers |-> {"Vertex", "Index"}],
          skybox |-> [user |-> "skybox", buffers |-> {"SkyboxVertex", "SkyboxIndex"}]]

\* VK_NULL_HANDLE, of any kind
Unbound == <<"none", "none", 0>>
\* DescriptorPools::allocate, for which there is room
Allocated == [s \in Sets |-> <<Unbound, Unbound>>]
NoTargets == [renderPass |-> 0, swapchain |-> 0, depth |-> Unbound, members |-> {}]
Empty == [id \in {} |-> Unbound]

-----------------------------------------------------------------------------
\* RTwindowInit, before RTdoOnWindowInit
AppInit ==
  /\ PoolInit
  /\ app \in {"desktop", "android"}
  /\ at = "constant"
  /\ closing = FALSE /\ lost = FALSE
  /\ device = 1 /\ timeline = 0 /\ swapchain = 1
  /\ buffers = Empty /\ images = Empty /\ textures = Empty /\ allocations = Empty
  /\ targets = NoTargets /\ sets = Empty
  /\ members = {DescriptorPool} /\ objects = {DescriptorPool}
  /\ waiting = {} /\ written = {} /\ copied = {}

\* createConstantVulkanResources: the members, and the buffers, those of
\* which the host can see it fills
CreateConstants(kept, visible) ==
  /\ buffers' = Emplaced(buffers, [id \in BufferIds |-> Buffer(id)])
  /\ written' = {Buffer(id) : id \in visible}
  /\ sets' = Allocated
  /\ members' = members \cup kept
  /\ at' = "create"
  /\ UNCHANGED <<poolVars, app, closing, lost, device, timeline, swapchain, images, targets,
                 waiting, copied>>

\* KTX takes memory with number 1 for staging and gives it back, and number 2
\* for the image
CreateConstantDesktop ==
  LET kept == Discarded \cup Templates \cup SetLayouts \cup {Loader, TextureView} IN
  /\ at = "constant" /\ Desktop
  /\ \E visible \in HostVisible : CreateConstants(kept, visible)
  /\ textures' = Emplaced(textures, Entry("Tex", [image |-> TextureImage, allocationId |-> 2]))
  /\ allocations' = Emplaced(allocations, Entry(2, TextureMemory))
  /\ objects' = objects \cup kept \cup Range(buffers') \cup {TextureImage, TextureMemory}

\* All the memory of a phone is visible to the host
CreateConstantAndroid ==
  LET kept == Discarded \cup Templates \cup SetLayouts IN
  /\ at = "constant" /\ ~Desktop
  /\ CreateConstants(kept, BufferIds)
  /\ objects' = objects \cup kept \cup Range(buffers')
  /\ UNCHANGED <<textures, allocations>>

\* createVulkanResources: the render pass, then the pipelines
CreatePipelines ==
  /\ at = "create"
  /\ \/ CreateRenderPass
     \/ Desktop /\ (CreateMain \/ CreateSkybox)
     \/ ~Desktop /\ CreateOnly
  /\ UNCHANGED ownVars

(* createVulkanResources: the depth image and the framebuffers.  After the *)
(* loss of a device RThandleDeviceLost ends here.                          *)
CreateTargets ==
  /\ at = "create" /\ phase = "ready"
  /\ images' = Emplaced(images, Entry("depth", Depth))
  /\ targets' = [renderPass |-> passes[renderPass], swapchain |-> swapchain,
                 depth |-> images'["depth"], members |-> {DepthView, Framebuffers}]
  /\ members' = members \cup {DepthView, Framebuffers}
  /\ objects' = objects \cup {Depth, DepthView, Framebuffers}
  /\ timeline' = IF lost THEN TimelineRegained ELSE timeline
  /\ lost' = FALSE
  /\ at' = "loop"
  /\ UNCHANGED <<poolVars, app, closing, device, swapchain, buffers, textures, allocations,
                 waiting, dataVars>>

-----------------------------------------------------------------------------
(* Frames *)

\* RTdoOnRender up to vkQueueSubmit.  StagingTransientManager::flush creates
\* the staging buffers in the map and takes them out again.
Record ==
  LET staging == {Staging(id) : id \in Staged} IN
  /\ at = "loop" /\ timeline < MaxTimeline
  /\ IF timeline = 0
     THEN /\ sets' = [s \in Sets |-> Bound[s]]
          /\ copied' = copied \cup {<<buffers[id], CopyStage(id)>> : id \in Staged}
          /\ objects' = objects \cup staging
          /\ waiting' = waiting \cup staging
     ELSE UNCHANGED <<sets, copied, objects, waiting>>
  /\ at' = "submit"
  /\ UNCHANGED <<poolVars, app, closing, lost, device, timeline, swapchain, managerVars,
                 members, targets, written>>

\* vkQueueSubmit succeeds
Submit ==
  /\ at = "submit"
  /\ timeline' = timeline + 1
  /\ at' = "present"
  /\ UNCHANGED <<poolVars, app, closing, lost, device, swapchain, managerVars, members,
                 targets, dataVars, waiting, objects>>

\* vkQueuePresentKHR succeeds
Present ==
  /\ at = "present" /\ at' = "loop"
  /\ UNCHANGED <<poolVars, app, closing, lost, device, timeline, swapchain, managerVars,
                 members, targets, dataVars, waiting, objects>>

\* Before the next frame: the monitor sweeps
OnFrame ==
  /\ at = "loop"
  /\ waiting # {} \/ discarded # {}
  /\ SweepAll
  /\ UNCHANGED <<app, at, closing, lost, device, timeline, swapchain, managerVars, members,
                 targets, dataVars>>

\* Another user of the pipeline pool
UseOther == at = "loop" /\ Desktop /\ CreateOther /\ UNCHANGED ownVars

-----------------------------------------------------------------------------
(* Resizes and losses *)

\* bound: a render pass can be created
RoomForPass == generations < MaxGenerations /\ \E h \in RenderPasses : passes[h] = 0

\* cleanupVulkanResources
CleanUp ==
  /\ Cleanup
  /\ waiting' = waiting \cup targets.members \cup {images["depth"]}
  /\ images' = CleanedImages
  /\ members' = members \ targets.members
  /\ targets' = NoTargets

\* onResize, or RThandleSurfaceLost, after an acquisition or a presentation:
\* the rest is createVulkanResources
Recreate ==
  /\ at \in {"loop", "present"} /\ RoomForPass
  /\ CleanUp
  /\ swapchain' = swapchain + 1
  /\ at' = "create"
  /\ UNCHANGED <<app, closing, lost, device, timeline, buffers, textures, allocations,
                 dataVars, objects>>

OnResize == Recreate
SurfaceLost == ~Desktop /\ Recreate

\* RThandleDeviceLost, which vkQueueSubmit or vkQueuePresentKHR called for
DeviceLost ==
  /\ at \in {"submit", "present"}
  /\ ~Desktop /\ device < MaxDevices /\ generations < MaxGenerations
  /\ CleanUp
  /\ lost' = TRUE
  /\ at' = "destroyConstant"
  /\ UNCHANGED <<app, closing, device, timeline, swapchain, buffers, textures, allocations,
                 dataVars, objects>>

\* The destructor of the application, after vkDeviceWaitIdle
Destruct ==
  /\ at = "loop"
  /\ CleanUp
  /\ closing' = TRUE
  /\ at' = "destroyConstant"
  /\ UNCHANGED <<app, lost, device, timeline, swapchain, buffers, textures, allocations,
                 dataVars, objects>>

\* AndroidApp::destroyConstantVulkanResources
DestroyConstantAndroid ==
  /\ at = "destroyConstant" /\ ~Desktop
  /\ objects' = objects \ (Templates \cup SetLayouts)
  /\ waiting' = waiting \cup DiscardedConstants
  /\ buffers' = Without(buffers, ConstantBuffers)
  /\ members' = members \ (Templates \cup SetLayouts \cup Discarded)
  /\ at' = IF lost THEN "sweep" ELSE "managers"
  /\ UNCHANGED <<poolVars, app, closing, lost, device, timeline, swapchain, images, textures,
                 allocations, targets, dataVars>>

\* WindowsApplication::destroyConstantVulkanResources up to its sweep, which
\* finds the device idle
DestroyConstantDesktop ==
  /\ at = "destroyConstant" /\ Desktop
  /\ Sweep
  /\ objects' = objects \ (waiting \cup DiscardedConstants \cup Templates)
  /\ waiting' = {}
  /\ buffers' = Without(buffers, ConstantBuffers)
  /\ members' = members \ (Templates \cup Discarded)
  /\ at' = "setLayouts"
  /\ UNCHANGED <<app, closing, lost, device, timeline, swapchain, images, textures,
                 allocations, targets, dataVars>>

\* The rest of it: the set layouts, TextureLoaderKTX2::Impl::discardById and
\* the destructor of the loader
DestroySetLayouts ==
  LET texture == textures["Tex"] IN
  /\ at = "setLayouts"
  /\ textures' = Without(textures, {"Tex"})
  /\ allocations' = Without(allocations, {texture.allocationId})
  /\ waiting' = waiting \cup DiscardedTexture(texture)
  /\ objects' = objects \ (SetLayouts \cup LoaderCleanup(textures', allocations'))
  /\ members' = members \ (SetLayouts \cup {TextureView, Loader})
  /\ at' = "sweep"
  /\ UNCHANGED <<poolVars, app, closing, lost, device, timeline, swapchain, buffers, images,
                 targets, dataVars>>

\* destroyDiscardedResources(true)
ForcedSweep ==
  /\ at = "sweep"
  /\ SweepAll
  /\ at' = "managers"
  /\ UNCHANGED <<app, closing, lost, device, timeline, swapchain, managerVars, members,
                 targets, dataVars>>

\* RTdestroyDeviceAndDependencies: the managers forget what is in their maps
\* without destroying it; the pools destroy what they have
DestroyManagers ==
  /\ at = "managers"
  /\ DestroyAllPipelines
  /\ buffers' = Empty /\ images' = Empty
  /\ sets' = Empty
  /\ members' = members \ {DescriptorPool} /\ objects' = objects \ {DescriptorPool}
  /\ at' = "discardPool"
  /\ UNCHANGED <<app, closing, lost, device, timeline, swapchain, textures, allocations,
                 targets, waiting, written, copied>>

\* ~DiscardPool, then the swapchain and the device
DestroyDevice ==
  /\ at = "discardPool"
  /\ SweepAll
  /\ at' = IF closing THEN "done" ELSE "device"
  /\ UNCHANGED <<app, closing, lost, device, timeline, swapchain, managerVars, members,
                 targets, dataVars>>

\* RTcreateDeviceAndDependencies, then RTdoOnDeviceRegained
CreateDevice ==
  /\ at = "device"
  /\ device' = device + 1
  /\ swapchain' = swapchain + 1
  /\ CreatePool
  /\ members' = members \cup {DescriptorPool'} /\ objects' = objects \cup {DescriptorPool'}
  /\ at' = "constant"
  /\ UNCHANGED <<app, closing, lost, timeline, managerVars, targets, dataVars, waiting>>

Terminated == at = "done" /\ UNCHANGED allVars

AppNext ==
  \/ CreateConstantDesktop \/ CreateConstantAndroid \/ CreatePipelines \/ CreateTargets
  \/ Record \/ Submit \/ Present \/ OnFrame \/ UseOther
  \/ OnResize \/ SurfaceLost \/ DeviceLost \/ Destruct
  \/ DestroyConstantAndroid \/ DestroyConstantDesktop \/ DestroySetLayouts
  \/ ForcedSweep \/ DestroyManagers \/ DestroyDevice \/ CreateDevice
  \/ Terminated

AppSpec == AppInit /\ [][AppNext]_allVars

-----------------------------------------------------------------------------
(* Properties *)

(* Every variable keeps its type.  No run spends time on it. *)
AppTypeOK ==
  /\ PoolTypeOK
  /\ app \in {"desktop", "android"}
  /\ at \in {"constant", "create", "loop", "submit", "present", "destroyConstant",
             "setLayouts", "sweep", "managers", "discardPool", "device", "done"}
  /\ {closing, lost} \subseteq BOOLEAN
  /\ device \in 1 .. MaxDevices /\ timeline \in 0 .. MaxTimeline /\ swapchain \in Nat
  /\ DOMAIN buffers \subseteq BufferIds /\ DOMAIN images \subseteq {"depth"}
  /\ DOMAIN textures \subseteq {"Tex"} /\ DOMAIN allocations \subseteq Nat
  /\ DOMAIN sets \subseteq Sets
  /\ members \cup waiting \cup targets.members \subseteq objects

\* A shader may read an object at a stage
Readable(object, stage) ==
  /\ object \in objects
  /\ \/ object \in written \/ <<object, stage>> \in copied
     \/ object \in {TextureView, Sampler} /\ TextureImage \in objects

(* Whatever was resized, lost and made anew before, what a frame submits   *)
(* reads only living objects that hold their data: vertices, indices and   *)
(* uniforms were filled by the host, or copied with a barrier for the very *)
(* stage that reads them; the descriptor sets of this device were bound to *)
(* the objects of this device; render pass, pipelines, framebuffers and    *)
(* swapchain belong together.                                              *)
DrawsReady ==
  at = "submit" =>
    /\ targets.renderPass = passes[renderPass] /\ targets.swapchain = swapchain
    /\ targets.members \cup {targets.depth, DescriptorPool} \subseteq objects
    /\ \A s \in Sets :
         LET pipeline == held[Drawn[s].user].pipeline IN
         /\ pipeline \in DOMAIN made \ destroyed
         /\ made[pipeline].generation = targets.renderPass
         /\ \A id \in Drawn[s].buffers : Readable(buffers[id], "vertexInput")
         /\ \A binding \in 1 .. 2 : Readable(sets[s][binding], SetLayout[s][binding])

(* No id is taken when something is created under it (the managers answer  *)
(* Collision), and none is missing when it is discarded: the application   *)
(* never ends in showErrorScreenAndExit over its own bookkeeping.          *)
IdsMatch ==
  /\ at = "constant" => DOMAIN buffers \cup DOMAIN textures \cup DOMAIN allocations = {}
  /\ at = "create" => "depth" \notin DOMAIN images
  /\ at = "loop" => DOMAIN images = {"depth"}
  /\ at = "destroyConstant" => DOMAIN buffers = BufferIds

Owners == <<Range(buffers), Range(images), {textures[id].image : id \in DOMAIN textures},
            Range(allocations), members, waiting>>

(* Every object of the device has exactly one owner: an entry of a map, a  *)
(* member of the application, or the discard pool; so it is destroyed      *)
(* once.  When the device goes, at the end or after its loss, nothing that *)
(* was created on it is left, the pipelines and render passes included.    *)
NothingLeft ==
  /\ OwnedOnce
  /\ \A o \in objects : Cardinality({i \in DOMAIN Owners : o \in Owners[i]}) = 1
  /\ \A i \in DOMAIN Owners : Owners[i] \subseteq objects
  /\ at \in {"device", "done"} => objects = {} /\ \A h \in RenderPasses : passes[h] = 0
=============================================================================
