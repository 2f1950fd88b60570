---------------------------- MODULE PipelinePool ----------------------------
(***************************************************************************)
(* src/core/*/render/vk/pipeline-pool-vk.*, pipeline-info.h, and the way   *)
(* the desktop applications use them (createVulkanResources,               *)
(* cleanupVulkanResources, avk-basic-graphics-info.cpp).  The pool finds   *)
(* pipelines by their description, and makes a missing one from a create   *)
(* info that it keeps, fills in and clears again.                          *)
(*                                                                         *)
(* A render pass is a handle, which Vulkan may use again once the pass has *)
(* been destroyed; the pass itself is known by its generation.  Bits,      *)
(* formats and counts are reduced to what descriptions differ in.          *)
(***************************************************************************)
EXTENDS Integers, FiniteSets, Sequences

CONSTANTS MainInfo, SkyboxInfo, \* the descriptions the application keeps
          OtherInfos,           \* those of other users of the pool
          ComputeInfos,         \* ComputeInfo: [module, layout]
          RenderPasses,         \* handles of render passes
          MaxEntries,           \* bound: pipelines in the maps
          MaxGenerations        \* bound: render passes created

GraphicsInfo ==
  {"vertex", "fragment", "geometry", "input", "topology", "viewports", "stencilFormat", "colors",
   "renderPass", "subpass", "flags", "polygon", "stencilCompare", "stencilLogic", "reference",
   "layout"}
ComputeInfo == {"module", "layout"}
Descriptions == {MainInfo, SkyboxInfo} \cup OtherInfos

ASSUME PipelinePoolAssumption ==
  /\ \A info \in Descriptions : info = [member \in GraphicsInfo |-> info[member]]
  /\ \A info \in ComputeInfos : info = [member \in ComputeInfo |-> info[member]]
  /\ RenderPasses \subseteq Nat \ {0}
  /\ MaxEntries \in Nat /\ MaxGenerations \in Nat

(* What the users of the pool have to see to: no two descriptions differ   *)
(* in fragmentOut only, which operator== overlooks, and none has a layout  *)
(* other than the two that discardAllPipelines is asked to discard.        *)
DescriptionsDiffer ==
  \A a, b \in Descriptions :
    (\A member \in GraphicsInfo \ {"stencilFormat", "colors", "renderPass"} : a[member] = b[member]) =>
      a.stencilFormat = b.stencilFormat /\ a.colors = b.colors
LayoutsKnown == \A info \in OtherInfos : info.layout \in {MainInfo.layout, SkyboxInfo.layout}

VARIABLES phase,      \* how far the application has come
          renderPass, \* m_graphicsInfo.renderPass, m_skyboxGraphicsInfo.renderPass
          entries,    \* m_graphicsPipelines, m_computePipelines: [info, pipeline]
          template,   \* m_graphicsPipelineCreateInfo and what it points to
          compute,    \* m_computePipelineCreateInfo
          held,       \* user -> what it asked for and the pipeline it got
          discarded,  \* DiscardPool: pipelines and render passes
          generations,\* history: render passes created
          passes,     \* history: handle -> generation of the living render pass
          made,       \* history: pipeline -> how it was created
          destroyed   \* history: pipelines

poolVars == <<phase, renderPass, entries, template, compute, held, discarded, generations, passes,
              made, destroyed>>

\* VK_NULL_HANDLE
Null == 0

Flags == {"depthBias", "cull", "front", "invertFrontFace", "noDepthWrite", "stencil"}
Users == {"main", "skybox", "other", "compute"}
Nothing == [info |-> <<>>, pipeline |-> Null]

-----------------------------------------------------------------------------
(* Deliberate slips, used only to show that the properties notice them:    *)
(* each stands in for the definition of the same stem further down.        *)
ClearedDepthStencil_TestOnly(d) == [d EXCEPT !.test = FALSE, !.write = TRUE]
Kept_All(layouts) == entries

(* The members of the create info before anything is filled in: the        *)
(* constructor and its ctor... helpers.                                    *)
NoFace == [compare |-> "never", pass |-> "keep", fail |-> "keep", depthFail |-> "keep",
           reference |-> 0]
Shaders == [count |-> 3, vertex |-> Null, fragment |-> Null, geometry |-> Null]
VertexInput == [input |-> Null, topology |-> "triangles"]
Rasterization == [bias |-> "off", polygon |-> "fill", cull |-> "back", inverted |-> FALSE]
DepthStencil == [write |-> TRUE, test |-> FALSE, front |-> NoFace, back |-> NoFace]
Common == [derivative |-> FALSE, base |-> Null, layout |-> Null, renderPass |-> Null,
           subpass |-> 0]
Constructed ==
  [shaders |-> Shaders, vertexInput |-> VertexInput, viewports |-> 0,
   rasterization |-> Rasterization, depthStencil |-> DepthStencil,
   attachments |-> 0, lineWidth |-> FALSE, common |-> Common]
ComputeConstructed == [module |-> Null, layout |-> Null, derivative |-> FALSE, base |-> Null]

(* clearGraphicsPipelineStates                                             *)
ClearedDepthStencil(d) ==
  [d EXCEPT !.test = FALSE, !.write = TRUE, !.front = NoFace, !.back = NoFace]

Cleared(t) ==
  [t EXCEPT !.shaders = [Shaders EXCEPT !.count = 0],
            !.vertexInput = VertexInput,
            !.viewports = 0,
            !.rasterization = Rasterization,
            !.depthStencil = ClearedDepthStencil(@),
            !.attachments = 0,
            !.lineWidth = FALSE,
            !.common = [Common EXCEPT !.subpass = -1]]

-----------------------------------------------------------------------------
(* getOrCreateGraphicsPipeline: the parameters of the create info          *)

\* "flags & ~eCull", else "flags & eCullFront", which shares a bit with eCullBack
CullMode(info, default) ==
  IF info.flags \ {"cull"} # {} THEN "none"
  ELSE IF info.flags \cap {"cull", "front"} # {} THEN "front" ELSE default

FilledRasterization(r, info) ==
  [bias |-> IF "depthBias" \in info.flags THEN "on" ELSE r.bias,
   polygon |-> info.polygon,
   cull |-> CullMode(info, r.cull),
   inverted |-> r.inverted \/ "invertFrontFace" \in info.flags]

\* setDepthStencilStateCreateInfo: EStencilCompareOp
Compared(op) == CASE op = "equal" -> "equal"
                  [] op = "notEqual" -> "not equal"
                  [] OTHER -> "always"

\* the same: EStencilLogicOp, for front and back
Front(f, info) ==
  LET face == [f EXCEPT !.compare = Compared(info.stencilCompare), !.reference = info.reference,
                        !.fail = "keep", !.depthFail = "keep"] IN
  CASE info.stencilLogic = "replace" -> [face EXCEPT !.pass = "replace"]
    [] info.stencilLogic = "countDepthPass" -> [face EXCEPT !.pass = "decrement"]
    [] info.stencilLogic = "countDepthFail" -> [face EXCEPT !.pass = "keep",
                                                            !.depthFail = "increment"]
    [] OTHER -> [face EXCEPT !.pass = "keep"]

Back(front, info) ==
  CASE info.stencilLogic = "countDepthPass" -> [front EXCEPT !.pass = "increment"]
    [] info.stencilLogic = "countDepthFail" -> [front EXCEPT !.depthFail = "decrement"]
    [] OTHER -> front

FilledDepthStencil(d, info) ==
  LET stencil == "stencil" \in info.flags /\ info.stencilFormat
      front == Front(d.front, info) IN
  [write |-> d.write /\ "noDepthWrite" \notin info.flags,
   test |-> d.test \/ stencil,
   front |-> IF stencil THEN front ELSE d.front,
   back |-> IF stencil THEN Back(front, info) ELSE d.back]

FilledCommon(c, info, base) ==
  [derivative |-> c.derivative \/ base # Null,
   base |-> IF base # Null THEN base ELSE c.base,
   layout |-> info.layout, renderPass |-> info.renderPass, subpass |-> info.subpass]

Filled(t, info, base) ==
  [shaders |-> [count |-> IF info.geometry = Null THEN 2 ELSE 3, vertex |-> info.vertex,
                fragment |-> info.fragment, geometry |-> info.geometry],
   vertexInput |-> [input |-> info.input, topology |-> info.topology],
   viewports |-> info.viewports,
   rasterization |-> FilledRasterization(t.rasterization, info),
   depthStencil |-> FilledDepthStencil(t.depthStencil, info),
   attachments |-> IF info.colors > 0 THEN info.colors ELSE 1,
   lineWidth |-> info.topology = "lines",
   common |-> FilledCommon(t.common, info, base)]

\* getOrCreateComputePipeline
FilledCompute(t, info, base) ==
  [module |-> info.module, layout |-> info.layout,
   derivative |-> t.derivative \/ base # Null, base |-> IF base # Null THEN base ELSE t.base]

-----------------------------------------------------------------------------
(* The maps                                                                *)

\* operator==(GraphicsInfo), which leaves out fragmentOut; operator==(ComputeInfo)
SameInfo(a, b) ==
  /\ DOMAIN a = DOMAIN b
  /\ \A member \in DOMAIN a \ {"stencilFormat", "colors"} : a[member] = b[member]

\* Equal descriptions have the same hash only if fragmentOut is equal too:
\* otherwise it depends on the library and on the buckets whether it is found.
Hits(info) == {e \in entries : SameInfo(e.info, info)}
Misses(info) == \A e \in entries : e.info # info

\* discardAllPipelines, for each of the layouts
Kept(layouts) == {e \in entries : e.info.layout \notin layouts}
Erased(layouts) == {e.pipeline : e \in {e \in entries : e.info.layout \in layouts}}

\* getOrCreate..., which holds m_mutex: the answer to user
Find(user, info) ==
  /\ \E e \in Hits(info) : held' = [held EXCEPT ![user] = [info |-> info, pipeline |-> e.pipeline]]
  /\ UNCHANGED <<entries, made>>

Create(user, info, base, create, generation) ==
  LET p == Len(made) + 1 IN
  /\ Misses(info)
  /\ Cardinality(entries) < MaxEntries
  /\ made' = Append(made, [create |-> create, base |-> base, generation |-> generation])
  /\ entries' = entries \cup {[info |-> info, pipeline |-> p]}
  /\ held' = [held EXCEPT ![user] = [info |-> info, pipeline |-> p]]

-----------------------------------------------------------------------------
\* RTdoOnWindowInit, before createVulkanResources
PoolInit ==
  /\ phase = "create"
  /\ renderPass = Null
  /\ entries = {}
  /\ template = Constructed
  /\ compute = ComputeConstructed
  /\ held = [u \in Users |-> Nothing]
  /\ discarded = {}
  /\ generations = 0
  /\ passes = [h \in RenderPasses |-> 0]
  /\ made = <<>>
  /\ destroyed = {}

\* createVulkanResources: vkCreateRenderPass
CreateRenderPass ==
  /\ phase = "create"
  /\ generations < MaxGenerations /\ generations' = generations + 1
  /\ \E h \in RenderPasses : passes[h] = 0 /\ renderPass' = h
  /\ passes' = [passes EXCEPT ![renderPass'] = generations']
  /\ phase' = "main"
  /\ UNCHANGED <<entries, template, compute, held, discarded, made, destroyed>>

GetOrCreateGraphicsPipeline(user, description, base) ==
  LET info == [description EXCEPT !.renderPass = renderPass]
      filled == Filled(template, info, base) IN
  /\ \/ Find(user, info) /\ UNCHANGED template
     \/ /\ Create(user, info, base, filled, passes[renderPass])
        /\ template' = Cleared(filled)
  /\ UNCHANGED <<renderPass, generations, compute, discarded, passes, destroyed>>

GetOrCreateComputePipeline(info, base) ==
  LET filled == FilledCompute(compute, info, base) IN
  /\ \/ Find("compute", info) /\ UNCHANGED compute
     \/ /\ Create("compute", info, base, filled, 0)
        /\ compute' = ComputeConstructed
  /\ UNCHANGED <<renderPass, generations, template, discarded, passes, destroyed>>

\* createVulkanResources: the pipelines of the application
CreateMain ==
  phase = "main" /\ phase' = "skybox" /\ GetOrCreateGraphicsPipeline("main", MainInfo, Null)

CreateSkybox ==
  phase = "skybox" /\ phase' = "ready" /\ GetOrCreateGraphicsPipeline("skybox", SkyboxInfo, Null)

\* The same on a phone, which has no skybox
CreateOnly ==
  phase = "main" /\ phase' = "ready" /\ GetOrCreateGraphicsPipeline("main", MainInfo, Null)

\* Another user of the pool, perhaps with a pipeline to derive from
CreateOther ==
  /\ phase = "ready" /\ UNCHANGED phase
  /\ \E base \in {Null, held["main"].pipeline} :
       \/ \E info \in OtherInfos : GetOrCreateGraphicsPipeline("other", info, base)
       \/ \E info \in ComputeInfos : GetOrCreateComputePipeline(info, base)

(* cleanupVulkanResources: the render pass, and the pipelines made for it  *)
(* as far as their layouts tell                                            *)
Cleanup ==
  LET layouts == {MainInfo.layout, SkyboxInfo.layout} IN
  /\ phase = "ready"
  /\ discarded' = discarded \cup {<<"renderPass", renderPass>>}
                           \cup {<<"pipeline", p>> : p \in Erased(layouts)}
  /\ entries' = Kept(layouts)
  /\ held' = [u \in Users |-> IF held[u].pipeline \in Erased(layouts) THEN Nothing ELSE held[u]]
  /\ renderPass' = Null
  /\ phase' = "create"
  /\ UNCHANGED <<generations, template, compute, passes, made, destroyed>>

\* destroyDiscardedResources, some time after the last use
Sweep ==
  /\ discarded' = {}
  /\ destroyed' = destroyed \cup {p \in 1 .. Len(made) : <<"pipeline", p>> \in discarded}
  /\ passes' = [h \in RenderPasses |-> IF <<"renderPass", h>> \in discarded THEN 0 ELSE passes[h]]
  /\ UNCHANGED <<phase, renderPass, generations, entries, template, compute, held, made>>

\* ~PipelinePool: destroyAllPipelines, after cleanupVulkanResources
DestroyAllPipelines ==
  /\ phase = "create" /\ held["main"].pipeline = Null
  /\ destroyed' = destroyed \cup {e.pipeline : e \in entries}
  /\ entries' = {}
  /\ held' = [u \in Users |-> Nothing]
  /\ phase' = "done"
  /\ UNCHANGED <<renderPass, generations, template, compute, discarded, passes, made>>

\* The next pool, of the next device: ctorCommonGraphicsPipelineCreateInfo, ...
CreatePool ==
  /\ phase = "done" /\ phase' = "create"
  /\ template' = Constructed
  /\ compute' = ComputeConstructed
  /\ UNCHANGED <<renderPass, generations, entries, held, discarded, passes, made, destroyed>>

-----------------------------------------------------------------------------
(* Properties *)

Faces == [compare : {"never", "equal", "not equal", "always"},
          pass : {"keep", "replace", "increment", "decrement"}, fail : {"keep"},
          depthFail : {"keep", "increment", "decrement"}, reference : Nat]

(* Every variable keeps its type.  No run spends time on it. *)
PoolTypeOK ==
  /\ phase \in {"create", "main", "skybox", "ready", "done"}
  /\ renderPass \in RenderPasses \cup {Null}
  /\ generations \in 0 .. MaxGenerations
  /\ \A e \in entries : e.pipeline \in DOMAIN made
  /\ DOMAIN template = DOMAIN Constructed /\ DOMAIN compute = DOMAIN ComputeConstructed
  /\ {template.depthStencil.front, template.depthStencil.back} \subseteq Faces
  /\ \A u \in Users : held[u].pipeline \in {Null} \cup DOMAIN made
  /\ discarded \subseteq ({"pipeline"} \X DOMAIN made) \cup ({"renderPass"} \X RenderPasses)
  /\ passes \in [RenderPasses -> 0 .. MaxGenerations]
  /\ destroyed \subseteq DOMAIN made

\* What a pool that has just been constructed makes for the same description
Fresh(info, base) ==
  IF "module" \in DOMAIN info THEN FilledCompute(ComputeConstructed, info, base)
                              ELSE Filled(Constructed, info, base)

\* The render pass that a description refers to
Generation(info) == IF "module" \in DOMAIN info THEN 0 ELSE passes[info.renderPass]

(* Whatever was asked of the pool before, the pipeline a user holds is the *)
(* one its description asks for: nothing of an earlier description is left *)
(* in the create info, and the render pass is the present one, not one     *)
(* that had the same handle.  It is neither discarded nor destroyed.       *)
RightPipeline ==
  \A u \in Users : held[u].pipeline # Null =>
    LET p == held[u].pipeline IN
    /\ made[p].create = Fresh(held[u].info, made[p].base)
    /\ made[p].generation = Generation(held[u].info)
    /\ \E e \in entries : e.pipeline = p

(* A pipeline is in one place: in one entry of the maps, waiting in the    *)
(* discard pool, or destroyed; in the end it is destroyed.                 *)
OwnedOnce ==
  /\ \A p \in 1 .. Len(made) :
       LET inMaps == Cardinality({e \in entries : e.pipeline = p})
           waiting == IF <<"pipeline", p>> \in discarded THEN 1 ELSE 0
           gone == IF p \in destroyed THEN 1 ELSE 0 IN
       inMaps + waiting + gone = 1
  /\ phase = "done" /\ discarded = {} => destroyed = 1 .. Len(made)
=============================================================================
