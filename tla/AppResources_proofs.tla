------------------------- MODULE AppResources_proofs -------------------------
(***************************************************************************)
(* What AppResources and PipelinePool promise, proved for every set of     *)
(* descriptions and handles, every memory, and however many render passes, *)
(* frames and devices.  Six layers, each of which rests on the ones before *)
(* it: the pipeline pool by itself (PoolInv); the order of the handlers    *)
(* (ControlInv, PhaseInv); what the maps and the members hold between two  *)
(* handlers (MapInv, MemberInv); what waits (WaitInv); who owns what       *)
(* exists (ObjectInv); what is filled and bound (DataInv).                 *)
(*                                                                         *)
(* Only RightPipeline asks something of the users of the pool, what        *)
(* DescriptionsDiffer and LayoutsKnown say.                                *)
(***************************************************************************)
EXTENDS AppResources, FiniteSetTheorems, SequenceTheorems, TLAPS

-----------------------------------------------------------------------------
(* The pipelines *)

Layouts == {MainInfo.layout, SkyboxInfo.layout}
Made == {made[p] : p \in DOMAIN made}

\* A description as the pool is asked for it
Asked(info) ==
  \/ info \in ComputeInfos
  \/ \E d \in Descriptions, h \in RenderPasses : info = [d EXCEPT !.renderPass = h]

(* The create infos come back to one of two states, which differ in what   *)
(* every description fills in.                                             *)
TemplateInv == template \in {Constructed, Cleared(Constructed)} /\ compute = ComputeConstructed

(* A pipeline is what its description asks for.                            *)
EntryInv ==
  /\ made \in Seq(Made)
  /\ \A e \in entries :
       /\ Asked(e.info)
       /\ e.pipeline \in 1 .. Len(made)
       /\ made[e.pipeline].create = Fresh(e.info, made[e.pipeline].base)
       /\ e.info \in ComputeInfos => made[e.pipeline].generation = 0

(* It is in one place.                                                     *)
PipelineInv ==
  /\ \A e, f \in entries : e.pipeline = f.pipeline => e = f
  /\ discarded \subseteq ({"pipeline"} \X (1 .. Len(made))) \cup ({"renderPass"} \X RenderPasses)
  /\ destroyed \subseteq 1 .. Len(made)
  /\ \A e \in entries : <<"pipeline", e.pipeline>> \notin discarded /\ e.pipeline \notin destroyed
  /\ \A p \in destroyed : <<"pipeline", p>> \notin discarded
  /\ \A p \in 1 .. Len(made) :
       (\E e \in entries : e.pipeline = p) \/ <<"pipeline", p>> \in discarded \/ p \in destroyed

(* A handle stands for a render pass from its creation to the sweep.       *)
PassInv ==
  /\ phase \in {"create", "main", "skybox", "ready", "done"}
  /\ renderPass \in RenderPasses \cup {Null}
  /\ renderPass # Null <=> phase \in {"main", "skybox", "ready"}
  /\ generations \in 0 .. MaxGenerations
  /\ passes \in [RenderPasses -> 0 .. generations]
  /\ <<"renderPass", renderPass>> \notin discarded
  /\ \A h \in RenderPasses : passes[h] # 0 <=> h = renderPass \/ <<"renderPass", h>> \in discarded

(* The pipelines that cleanupVulkanResources would find were made for the  *)
(* present render pass.                                                    *)
CurrentInv ==
  \A e \in entries : e.info.layout \in Layouts /\ e.info \notin ComputeInfos =>
    /\ renderPass # Null /\ e.info.renderPass = renderPass
    /\ made[e.pipeline].generation = passes[renderPass]

(* What users hold is in the maps, under a description equal to theirs.    *)
HeldInv ==
  /\ held = [u \in Users |-> held[u]]
  /\ \A u \in Users : held[u].pipeline # Null =>
       /\ Asked(held[u].info)
       /\ \E e \in entries : e.pipeline = held[u].pipeline /\ SameInfo(e.info, held[u].info)
  /\ \A u \in {"main", "skybox"} : held[u].pipeline # Null =>
       held[u].info \notin ComputeInfos /\ held[u].info.layout \in Layouts
  /\ phase \in {"skybox", "ready"} => held["main"].pipeline # Null
  /\ phase = "done" => entries = {}

PoolInv == TemplateInv /\ EntryInv /\ PipelineInv /\ PassInv /\ CurrentInv /\ HeldInv

\* Every step is one of these for the pool.
PoolNext ==
  \/ CreateRenderPass \/ CreateMain \/ CreateSkybox \/ CreateOnly \/ CreateOther
  \/ Cleanup \/ Sweep \/ DestroyAllPipelines \/ CreatePool

\* A call of getOrCreate..., without what it does to the create info.
Gets(user, info, base, generation) ==
  /\ Find(user, info) \/ Create(user, info, base, Fresh(info, base), generation)
  /\ UNCHANGED <<renderPass, generations, discarded, passes, destroyed>>

(* A description is of one kind or the other.                              *)
LEMMA AskedKinds ==
  ASSUME NEW info, Asked(info)
  PROVE  /\ info \in ComputeInfos => DOMAIN info = ComputeInfo /\ "module" \in DOMAIN info
         /\ info \notin ComputeInfos => /\ DOMAIN info = GraphicsInfo /\ "module" \notin DOMAIN info
                                        /\ info.renderPass \in RenderPasses
<1>1. CASE info \in ComputeInfos
  BY <1>1, PipelinePoolAssumption DEF ComputeInfo
<1>2. CASE info \notin ComputeInfos
  <2>1. PICK d \in Descriptions, h \in RenderPasses : info = [d EXCEPT !.renderPass = h]
    BY <1>2 DEF Asked
  <2>2. DOMAIN d = GraphicsInfo
    BY PipelinePoolAssumption
  <2>3. "module" \notin GraphicsInfo /\ "renderPass" \in GraphicsInfo
    BY DEF GraphicsInfo
  <2> QED BY <1>2, <2>1, <2>2, <2>3
<1> QED BY <1>1, <1>2

(* What a description becomes with the present render pass.                *)
LEMMA AskedWith ==
  ASSUME NEW d \in Descriptions, NEW h \in RenderPasses
  PROVE  /\ Asked([d EXCEPT !.renderPass = h]) /\ [d EXCEPT !.renderPass = h] \notin ComputeInfos
         /\ [d EXCEPT !.renderPass = h].renderPass = h
         /\ [d EXCEPT !.renderPass = h].layout = d.layout
<1>1. DOMAIN d = GraphicsInfo
  BY PipelinePoolAssumption
<1>2. "module" \notin GraphicsInfo /\ "renderPass" \in GraphicsInfo /\ "layout" \in GraphicsInfo
  BY DEF GraphicsInfo
<1>3. DOMAIN [d EXCEPT !.renderPass = h] = GraphicsInfo
  BY <1>1
<1>4. \A info \in ComputeInfos : "module" \in DOMAIN info
  BY PipelinePoolAssumption DEF ComputeInfo
<1> QED BY <1>1, <1>2, <1>3, <1>4 DEF Asked

(* Descriptions that are found equal have the same layout and render pass. *)
LEMMA FoundAlike ==
  ASSUME NEW a, NEW b, Asked(a), Asked(b), SameInfo(a, b)
  PROVE  /\ a \in ComputeInfos <=> b \in ComputeInfos
         /\ a.layout = b.layout
         /\ a \notin ComputeInfos => a.renderPass = b.renderPass
<1>1. DOMAIN a = DOMAIN b /\ \A m \in DOMAIN a \ {"stencilFormat", "colors"} : a[m] = b[m]
  BY DEF SameInfo
<1>2. a \in ComputeInfos <=> b \in ComputeInfos
  BY <1>1, AskedKinds
<1>3. CASE a \in ComputeInfos
  <2>1. "layout" \in DOMAIN a \ {"stencilFormat", "colors"}
    BY <1>3, AskedKinds DEF ComputeInfo
  <2> QED BY <1>1, <1>2, <1>3, <2>1
<1>4. CASE a \notin ComputeInfos
  <2>1. {"layout", "renderPass"} \subseteq DOMAIN a \ {"stencilFormat", "colors"}
    BY <1>4, AskedKinds DEF GraphicsInfo
  <2> QED BY <1>1, <1>2, <1>4, <2>1
<1> QED BY <1>3, <1>4

(* A description is found under itself.                                    *)
LEMMA FoundItself ==
  ASSUME NEW a
  PROVE  SameInfo(a, a)
BY DEF SameInfo

(* Where there is room in the history for one more pipeline.               *)
LEMMA MadeGrows ==
  ASSUME made \in Seq(Made), NEW x, made' = Append(made, x)
  PROVE  /\ made' \in Seq(Made') /\ Len(made') = Len(made) + 1 /\ Len(made) \in Nat
         /\ made'[Len(made) + 1] = x
         /\ \A p \in 1 .. Len(made) : made'[p] = made[p]
<1> DEFINE S == Made \cup {x}
<1>1. made \in Seq(S) /\ x \in S
  BY SeqMonotonic
<1> HIDE DEF S
<1>2. /\ Append(made, x) \in Seq(S) /\ Len(Append(made, x)) = Len(made) + 1
      /\ Append(made, x)[Len(made) + 1] = x
      /\ \A p \in 1 .. Len(made) : Append(made, x)[p] = made[p]
  BY <1>1, AppendProperties
<1>3. Len(made) \in Nat
  BY <1>1
<1>4. DOMAIN made' = 1 .. Len(made) + 1 /\ DOMAIN made = 1 .. Len(made)
  BY <1>1, <1>2
<1>5. made' \in [1 .. Len(made) + 1 -> S]
  BY <1>2, <1>3, LenProperties
<1>6. made' \in [1 .. Len(made) + 1 -> Made']
  BY <1>4, <1>5 DEF Made
<1>7. made' \in Seq(Made')
  <2>1. PICK n \in Nat : n = Len(made) + 1
    BY <1>3
  <2>2. \A T : [1 .. n -> T] \subseteq Seq(T)
    BY SeqDef
  <2> QED BY <1>6, <2>1, <2>2
<1> QED BY <1>2, <1>3, <1>7

(* Functions on the same domain are equal if their values are.             *)
LEMMA SameFields ==
  ASSUME NEW D, NEW f, NEW g, f = [x \in D |-> f[x]], g = [x \in D |-> g[x]],
         \A x \in D : f[x] = g[x]
  PROVE  f = g
OBVIOUS

(* What clearing leaves of the depth and stencil state is always the same. *)
LEMMA ClearedFaces ==
  ASSUME NEW d, DOMAIN d = {"write", "test", "front", "back"}
  PROVE  ClearedDepthStencil(d) = DepthStencil
<1> DEFINE F == {"write", "test", "front", "back"}
           c == ClearedDepthStencil(d)
<1>1. c.front = DepthStencil.front /\ c.back = DepthStencil.back
  BY DEF ClearedDepthStencil, DepthStencil
<1>2. c.test = DepthStencil.test /\ c.write = DepthStencil.write
  BY DEF ClearedDepthStencil, DepthStencil
<1>3. c = [x \in F |-> c[x]]
  BY DEF ClearedDepthStencil
<1>4. DepthStencil = [x \in F |-> DepthStencil[x]]
  BY DEF DepthStencil
<1> HIDE DEF c
<1>5. \A x \in F : c[x] = DepthStencil[x]
  BY <1>1, <1>2
<1> HIDE DEF F
<1>6. c = DepthStencil
  BY <1>3, <1>4, <1>5, SameFields
<1> QED BY <1>6 DEF c

(* Nothing of an earlier description shows in what is filled in.           *)
LEMMA FilledAsFresh ==
  ASSUME TemplateInv, NEW info, NEW base
  PROVE  Filled(template, info, base) = Filled(Constructed, info, base)
<1>1. Cleared(Constructed).rasterization = Constructed.rasterization
  BY DEF Cleared, Constructed
<1>2. Cleared(Constructed).depthStencil = Constructed.depthStencil
  <2>1. Cleared(Constructed).depthStencil = ClearedDepthStencil(DepthStencil)
    BY DEF Cleared, Constructed
  <2>2. DOMAIN DepthStencil = {"write", "test", "front", "back"}
    BY DEF DepthStencil
  <2> QED BY <2>1, <2>2, ClearedFaces DEF Constructed
<1>3. /\ Cleared(Constructed).common.derivative = Constructed.common.derivative
      /\ Cleared(Constructed).common.base = Constructed.common.base
  BY DEF Cleared, Constructed, Common
<1>4. /\ template.rasterization = Constructed.rasterization
      /\ template.depthStencil = Constructed.depthStencil
      /\ template.common.derivative = Constructed.common.derivative
      /\ template.common.base = Constructed.common.base
  BY <1>1, <1>2, <1>3 DEF TemplateInv
<1> QED BY <1>4 DEF Filled, FilledCommon

\* The members that clearGraphicsPipelineStates resets: all of them.
Resets == {"shaders", "vertexInput", "viewports", "rasterization", "depthStencil", "attachments",
           "lineWidth", "common"}

(* Two create infos cannot be told apart any more once they are cleared.   *)
LEMMA ClearedAlike ==
  ASSUME NEW t, NEW u, DOMAIN t = Resets, DOMAIN u = Resets,
         ClearedDepthStencil(t.depthStencil) = ClearedDepthStencil(u.depthStencil)
  PROVE  Cleared(t) = Cleared(u)
<1> DEFINE c == Cleared(t)
           d == Cleared(u)
<1>1. /\ c.shaders = d.shaders /\ c.vertexInput = d.vertexInput /\ c.viewports = d.viewports
      /\ c.rasterization = d.rasterization /\ c.attachments = d.attachments
      /\ c.common = d.common
  BY DEF Cleared, Resets
<1>2. c.lineWidth = d.lineWidth
  BY DEF Cleared, Resets
<1>3. c.depthStencil = d.depthStencil
  BY DEF Cleared, Resets
<1>4. c = [x \in Resets |-> c[x]] /\ d = [x \in Resets |-> d[x]]
  BY DEF Cleared
<1> HIDE DEF c, d
<1>5. \A x \in Resets : c[x] = d[x]
  BY <1>1, <1>2, <1>3 DEF Resets
<1>6. c = d
  BY <1>4, <1>5, SameFields
<1> QED BY <1>6 DEF c, d

(* Whatever was filled in is gone.                                         *)
LEMMA ClearedAsEver ==
  ASSUME NEW t, NEW info, NEW base
  PROVE  Cleared(Filled(t, info, base)) = Cleared(Constructed)
<1>1. DOMAIN Filled(t, info, base) = Resets
  BY DEF Filled, Resets
<1>2. DOMAIN Constructed = Resets
  BY DEF Constructed, Resets
<1>3. DOMAIN FilledDepthStencil(t.depthStencil, info) = {"write", "test", "front", "back"}
  BY DEF FilledDepthStencil
<1>4. DOMAIN DepthStencil = {"write", "test", "front", "back"}
  BY DEF DepthStencil
<1>5. /\ Filled(t, info, base).depthStencil = FilledDepthStencil(t.depthStencil, info)
      /\ Constructed.depthStencil = DepthStencil
  BY DEF Filled, Constructed
<1> QED BY <1>1, <1>2, <1>3, <1>4, <1>5, ClearedAlike, ClearedFaces

(* So a call for a description creates what a new pool would.              *)
LEMMA GraphicsCall ==
  ASSUME TemplateInv, NEW user, NEW d \in Descriptions, NEW base, renderPass \in RenderPasses,
         GetOrCreateGraphicsPipeline(user, d, base)
  PROVE  /\ Gets(user, [d EXCEPT !.renderPass = renderPass], base, passes[renderPass])
         /\ TemplateInv'
<1> DEFINE info == [d EXCEPT !.renderPass = renderPass]
<1>1. "module" \notin DOMAIN info
  BY AskedWith, AskedKinds
<1>2. Fresh(info, base) = Filled(template, info, base)
  BY <1>1, FilledAsFresh DEF Fresh
<1>3. Cleared(Filled(template, info, base)) = Cleared(Constructed)
  BY ClearedAsEver
<1>4. TemplateInv'
  BY <1>3 DEF TemplateInv, GetOrCreateGraphicsPipeline
<1>5. Gets(user, info, base, passes[renderPass])
  BY <1>2 DEF Gets, GetOrCreateGraphicsPipeline
<1> QED BY <1>4, <1>5

(* The same for compute pipelines.                                         *)
LEMMA ComputeCall ==
  ASSUME TemplateInv, NEW info \in ComputeInfos, NEW base,
         GetOrCreateComputePipeline(info, base)
  PROVE  Gets("compute", info, base, 0) /\ TemplateInv'
<1>1. "module" \in DOMAIN info
  BY PipelinePoolAssumption DEF ComputeInfo
<1>2. Fresh(info, base) = FilledCompute(compute, info, base)
  BY <1>1 DEF Fresh, TemplateInv
<1> QED BY <1>2 DEF Gets, GetOrCreateComputePipeline, TemplateInv

\* What a call may ask for, and the render pass its pipeline is made for.
MayAsk(user, info, generation) ==
  /\ user \in Users /\ Asked(info)
  /\ info \in ComputeInfos => generation = 0
  /\ info \notin ComputeInfos => info.renderPass = renderPass /\ generation = passes[renderPass]
  /\ user \in {"main", "skybox"} => info \notin ComputeInfos /\ info.layout \in Layouts

\* The parts of PoolInv that do not depend on how far the application is.
CallInv ==
  /\ EntryInv /\ PipelineInv /\ CurrentInv /\ held = [u \in Users |-> held[u]]
  /\ \A u \in Users : held[u].pipeline # Null =>
       /\ Asked(held[u].info)
       /\ \E e \in entries : e.pipeline = held[u].pipeline /\ SameInfo(e.info, held[u].info)
  /\ \A u \in {"main", "skybox"} : held[u].pipeline # Null =>
       held[u].info \notin ComputeInfos /\ held[u].info.layout \in Layouts

(* A call keeps them, gives the user a pipeline and nobody else another.   *)
LEMMA GetsKeeps ==
  ASSUME CallInv, renderPass \in RenderPasses, NEW user, NEW info, NEW base, NEW generation,
         MayAsk(user, info, generation), Gets(user, info, base, generation)
  PROVE  /\ CallInv' /\ held'[user].pipeline # Null
         /\ \A u \in Users \ {user} : held'[u] = held[u]
<1>0. renderPass # Null /\ Null = 0
  BY PipelinePoolAssumption DEF Null
<1>1. CASE Find(user, info)
  <2>1. PICK e \in Hits(info) : held' = [held EXCEPT ![user] = [info |-> info, pipeline |-> e.pipeline]]
    BY <1>1 DEF Find
  <2>2. e \in entries /\ SameInfo(e.info, info) /\ e.pipeline # Null
    BY <1>0, <2>1 DEF Hits, CallInv, EntryInv
  <2>3. UNCHANGED <<entries, made, discarded, destroyed, renderPass, passes>>
    BY <1>1 DEF Find, Gets
  <2>4. EntryInv' /\ PipelineInv' /\ CurrentInv'
    BY <2>3 DEF CallInv, EntryInv, PipelineInv, CurrentInv, Made, Fresh
  <2>5. held'[user] = [info |-> info, pipeline |-> e.pipeline] /\ \A u \in Users \ {user} : held'[u] = held[u]
    BY <2>1 DEF CallInv, MayAsk
  <2>6. held' = [u \in Users |-> held'[u]]
    BY <2>1 DEF CallInv, MayAsk
  <2>7. \A u \in Users : held'[u].pipeline # Null =>
          /\ Asked(held'[u].info)
          /\ \E f \in entries : f.pipeline = held'[u].pipeline /\ SameInfo(f.info, held'[u].info)
    <3>1. CASE user \in Users
      BY <2>2, <2>5 DEF CallInv, MayAsk
    <3> QED BY <3>1 DEF MayAsk
  <2>8. \A u \in {"main", "skybox"} : held'[u].pipeline # Null =>
          held'[u].info \notin ComputeInfos /\ held'[u].info.layout \in Layouts
    BY <2>5 DEF CallInv, MayAsk, Users
  <2>9. held'[user].pipeline # Null
    BY <2>2, <2>5
  <2> QED BY <2>3, <2>4, <2>5, <2>6, <2>7, <2>8, <2>9 DEF CallInv, Asked
<1>2. CASE Create(user, info, base, Fresh(info, base), generation)
  <2> DEFINE p == Len(made) + 1
             m == [create |-> Fresh(info, base), base |-> base, generation |-> generation]
             n == [info |-> info, pipeline |-> p]
  <2>1. /\ made' = Append(made, m) /\ entries' = entries \cup {n}
        /\ held' = [held EXCEPT ![user] = n]
    BY <1>2 DEF Create
  <2>2. /\ made' \in Seq(Made') /\ Len(made') = p /\ Len(made) \in Nat /\ made'[p] = m
        /\ \A q \in 1 .. Len(made) : made'[q] = made[q]
    BY <2>1, MadeGrows DEF CallInv, EntryInv
  <2>3. UNCHANGED <<discarded, destroyed, renderPass, passes>>
    BY DEF Gets
  <2>4. /\ n.info = info /\ n.pipeline = p /\ m.create = Fresh(info, base) /\ m.base = base
        /\ m.generation = generation
    OBVIOUS
  <2>5. p \in 1 .. Len(made') /\ p \notin 1 .. Len(made) /\ p # Null
        /\ 1 .. Len(made') = (1 .. Len(made)) \cup {p}
    BY <1>0, <2>2
  <2> HIDE DEF p, m, n
  <2>6. EntryInv'
    <3>1. ASSUME NEW e \in entries'
          PROVE  /\ Asked(e.info) /\ e.pipeline \in 1 .. Len(made')
                 /\ made'[e.pipeline].create = Fresh(e.info, made'[e.pipeline].base)
                 /\ e.info \in ComputeInfos => made'[e.pipeline].generation = 0
      <4>1. CASE e \in entries
        BY <2>2, <2>5, <4>1 DEF CallInv, EntryInv
      <4>2. CASE e = n
        BY <2>2, <2>4, <2>5, <4>2 DEF MayAsk
      <4> QED BY <2>1, <4>1, <4>2
    <3> QED BY <2>2, <3>1 DEF EntryInv, Asked, Fresh
  <2>7. PipelineInv'
    <3>1. \A e \in entries : e.pipeline \in 1 .. Len(made)
      BY DEF CallInv, EntryInv
    <3>2. <<"pipeline", p>> \notin discarded /\ p \notin destroyed
      BY <2>5 DEF CallInv, PipelineInv
    <3>3. discarded \subseteq ({"pipeline"} \X (1 .. Len(made'))) \cup ({"renderPass"} \X RenderPasses)
      BY <2>5 DEF CallInv, PipelineInv
    <3>4. \A q \in 1 .. Len(made') :
            (\E e \in entries' : e.pipeline = q) \/ <<"pipeline", q>> \in discarded \/ q \in destroyed
      BY <2>1, <2>4, <2>5 DEF CallInv, PipelineInv
    <3>5. \A e, f \in entries' : e.pipeline = f.pipeline => e = f
      BY <2>1, <2>4, <2>5, <3>1 DEF CallInv, PipelineInv
    <3> QED BY <2>1, <2>3, <2>4, <2>5, <3>1, <3>2, <3>3, <3>4, <3>5 DEF CallInv, PipelineInv
  <2>8. CurrentInv'
    <3>1. \A e \in entries : e.pipeline \in 1 .. Len(made)
      BY DEF CallInv, EntryInv
    <3> QED BY <1>0, <2>1, <2>2, <2>3, <2>4, <3>1 DEF CallInv, CurrentInv, MayAsk
  <2>9. held'[user] = n /\ \A u \in Users \ {user} : held'[u] = held[u]
    BY <2>1 DEF CallInv, MayAsk
  <2>10. held' = [u \in Users |-> held'[u]]
    BY <2>1 DEF CallInv, MayAsk
  <2>11. \A u \in Users : held'[u].pipeline # Null =>
           /\ Asked(held'[u].info)
           /\ \E f \in entries' : f.pipeline = held'[u].pipeline /\ SameInfo(f.info, held'[u].info)
    <3>1. n \in entries' /\ SameInfo(n.info, n.info) /\ Asked(n.info)
      BY <2>1, <2>4, FoundItself DEF MayAsk
    <3> QED BY <2>1, <2>9, <3>1 DEF CallInv
  <2>12. \A u \in {"main", "skybox"} : held'[u].pipeline # Null =>
           held'[u].info \notin ComputeInfos /\ held'[u].info.layout \in Layouts
    BY <2>4, <2>9 DEF CallInv, MayAsk, Users
  <2>13. held'[user].pipeline # Null
    BY <2>4, <2>5, <2>9
  <2> QED BY <2>6, <2>7, <2>8, <2>9, <2>10, <2>11, <2>12, <2>13 DEF CallInv, Asked
<1> QED BY <1>1, <1>2 DEF Gets

(* The calls of the application.                                           *)
LEMMA CallStep ==
  ASSUME PoolInv, NEW user \in {"main", "skybox", "other"}, NEW d \in Descriptions, NEW base,
         phase \in {"main", "skybox", "ready"}, user \in {"main", "skybox"} => d.layout \in Layouts,
         GetOrCreateGraphicsPipeline(user, d, base)
  PROVE  /\ TemplateInv' /\ CallInv' /\ held'[user].pipeline # Null
         /\ \A u \in Users \ {user} : held'[u] = held[u]
<1>1. renderPass \in RenderPasses
  BY DEF PoolInv, PassInv
<1> DEFINE info == [d EXCEPT !.renderPass = renderPass]
<1>2. TemplateInv' /\ Gets(user, info, base, passes[renderPass])
  BY <1>1, GraphicsCall DEF PoolInv
<1>3. MayAsk(user, info, passes[renderPass])
  BY <1>1, AskedWith DEF MayAsk, Users
<1>4. CallInv
  BY DEF CallInv, PoolInv, HeldInv
<1> HIDE DEF info
<1> QED BY <1>1, <1>2, <1>3, <1>4, GetsKeeps

(* What a call leaves alone.                                               *)
LEMMA CallFrame ==
  ASSUME PassInv, NEW user, NEW info, NEW base,
         GetOrCreateGraphicsPipeline(user, info, base) \/ GetOrCreateComputePipeline(info, base),
         phase' \in {"main", "skybox", "ready"}, phase \in {"main", "skybox", "ready"}
  PROVE  PassInv' /\ UNCHANGED <<renderPass, generations, discarded, passes, destroyed>>
BY DEF PassInv, GetOrCreateGraphicsPipeline, GetOrCreateComputePipeline

(* A pool action keeps the invariant: those that create, ...               *)
LEMMA PoolCreates ==
  ASSUME PoolInv, CreateRenderPass \/ CreateMain \/ CreateSkybox \/ CreateOnly \/ CreateOther
  PROVE  PoolInv'
<1>1. CASE CreateRenderPass
  <2>1. PICK h \in RenderPasses : passes[h] = 0 /\ renderPass' = h
    BY <1>1 DEF CreateRenderPass
  <2>2. /\ phase = "create" /\ phase' = "main" /\ generations' = generations + 1
        /\ generations < MaxGenerations /\ passes' = [passes EXCEPT ![h] = generations']
        /\ UNCHANGED <<entries, template, compute, held, discarded, made, destroyed>>
    BY <1>1, <2>1 DEF CreateRenderPass
  <2>3. PassInv'
    BY <2>1, <2>2, PipelinePoolAssumption DEF PoolInv, PassInv, Null
  <2>4. CurrentInv'
    BY <2>1, <2>2 DEF PoolInv, PassInv, CurrentInv
  <2>5. TemplateInv' /\ EntryInv' /\ PipelineInv'
    BY <2>2 DEF PoolInv, TemplateInv, EntryInv, PipelineInv, Made, Asked, Fresh
  <2>6. HeldInv'
    BY <2>2 DEF PoolInv, HeldInv, Asked
  <2> QED BY <2>3, <2>4, <2>5, <2>6 DEF PoolInv
<1>2. ASSUME NEW user \in {"main", "skybox", "other"}, NEW d \in Descriptions, NEW base,
             GetOrCreateGraphicsPipeline(user, d, base),
             user \in {"main", "skybox"} => d.layout \in Layouts,
             phase \in {"main", "skybox", "ready"}, phase' \in {"main", "skybox", "ready"},
             phase = "main" => user = "main" /\ phase' \in {"skybox", "ready"},
             phase \in {"skybox", "ready"} => user # "main" /\ phase' \in {"skybox", "ready"}
      PROVE  PoolInv'
  <2>1. /\ TemplateInv' /\ CallInv' /\ held'[user].pipeline # Null
        /\ \A u \in Users \ {user} : held'[u] = held[u]
    BY <1>2, CallStep
  <2>2. PassInv'
    BY <1>2, CallFrame DEF PoolInv
  <2>3. held'["main"].pipeline # Null
    BY <1>2, <2>1 DEF PoolInv, HeldInv, Users
  <2>4. phase' # "done"
    BY <1>2
  <2>5. HeldInv'
    BY <2>1, <2>3, <2>4 DEF CallInv, HeldInv
  <2> QED BY <2>1, <2>2, <2>5 DEF PoolInv, CallInv
<1>3. CASE CreateMain
  BY <1>2, <1>3 DEF CreateMain, Descriptions, Layouts
<1>4. CASE CreateSkybox
  BY <1>2, <1>4 DEF CreateSkybox, Descriptions, Layouts
<1>5. CASE CreateOnly
  BY <1>2, <1>5 DEF CreateOnly, Descriptions, Layouts
<1>6. CASE CreateOther
  <2>1. PICK base \in {Null, held["main"].pipeline} :
          \/ \E info \in OtherInfos : GetOrCreateGraphicsPipeline("other", info, base)
          \/ \E info \in ComputeInfos : GetOrCreateComputePipeline(info, base)
    BY <1>6 DEF CreateOther
  <2>2. phase = "ready" /\ phase' = "ready"
    BY <1>6 DEF CreateOther
  <2>3. CASE \E info \in OtherInfos : GetOrCreateGraphicsPipeline("other", info, base)
    BY <1>2, <2>2, <2>3 DEF Descriptions
  <2>4. CASE \E info \in ComputeInfos : GetOrCreateComputePipeline(info, base)
    <3>1. PICK info \in ComputeInfos : GetOrCreateComputePipeline(info, base)
      BY <2>4
    <3>2. Gets("compute", info, base, 0) /\ TemplateInv'
      BY <3>1, ComputeCall DEF PoolInv
    <3>3. MayAsk("compute", info, 0)
      BY DEF MayAsk, Users, Asked
    <3>4. CallInv /\ renderPass \in RenderPasses
      BY <2>2 DEF CallInv, PoolInv, HeldInv, PassInv
    <3>5. CallInv' /\ \A u \in Users \ {"compute"} : held'[u] = held[u]
      BY <3>2, <3>3, <3>4, GetsKeeps
    <3>6. PassInv'
      BY <2>2, <3>1, CallFrame DEF PoolInv
    <3>7. held'["main"].pipeline # Null
      BY <2>2, <3>5 DEF PoolInv, HeldInv, Users
    <3>8. HeldInv'
      BY <2>2, <3>5, <3>7 DEF CallInv, HeldInv
    <3> QED BY <3>2, <3>5, <3>6, <3>8 DEF PoolInv, CallInv
  <2> QED BY <2>1, <2>3, <2>4
<1> QED BY <1>1, <1>3, <1>4, <1>5, <1>6

(* ... cleanupVulkanResources, ...                                         *)
LEMMA PoolCleans ==
  ASSUME PoolInv, Cleanup
  PROVE  PoolInv'
<1>1. /\ phase = "ready" /\ phase' = "create" /\ renderPass' = Null
      /\ discarded' = discarded \cup {<<"renderPass", renderPass>>}
                                \cup {<<"pipeline", p>> : p \in Erased(Layouts)}
      /\ entries' = Kept(Layouts)
      /\ held' = [u \in Users |-> IF held[u].pipeline \in Erased(Layouts) THEN Nothing ELSE held[u]]
      /\ UNCHANGED <<generations, template, compute, passes, made, destroyed>>
  BY DEF Cleanup, Layouts
<1>2. renderPass \in RenderPasses /\ Null \notin RenderPasses
  BY <1>1, PipelinePoolAssumption DEF PoolInv, PassInv, Null
<1>3. \A e \in entries : IF e.info.layout \in Layouts THEN e.pipeline \in Erased(Layouts)
                                                      ELSE e \in entries'
  BY <1>1 DEF Erased, Kept
<1>4. /\ \A p \in Erased(Layouts) : \E e \in entries : e.pipeline = p /\ e.info.layout \in Layouts
      /\ \A e \in entries' : e \in entries /\ e.info.layout \notin Layouts
  BY <1>1 DEF Erased, Kept
<1>5. \A e \in entries' : e.pipeline \notin Erased(Layouts)
  BY <1>4 DEF PoolInv, PipelineInv
<1>6. TemplateInv' /\ EntryInv' /\ CurrentInv'
  BY <1>1, <1>4, SMTT(30) DEF PoolInv, TemplateInv, EntryInv, CurrentInv, Made, Asked, Fresh
<1>7. PassInv'
  <2>1. \A h : <<"renderPass", h>> \in discarded' <=> <<"renderPass", h>> \in discarded \/ h = renderPass
    BY <1>1
  <2>2. <<"renderPass", Null>> \notin discarded
    BY <1>2 DEF PoolInv, PipelineInv
  <2>3. <<"renderPass", renderPass'>> \notin discarded'
    BY <1>1, <1>2, <2>1, <2>2
  <2>4. \A h \in RenderPasses : passes'[h] # 0 <=> h = renderPass' \/ <<"renderPass", h>> \in discarded'
    BY <1>1, <1>2, <2>1 DEF PoolInv, PassInv
  <2> QED BY <1>1, <2>3, <2>4 DEF PoolInv, PassInv
<1>8. PipelineInv'
  <2>1. Erased(Layouts) \subseteq 1 .. Len(made)
    BY <1>4 DEF PoolInv, EntryInv
  <2>2. discarded' \subseteq ({"pipeline"} \X (1 .. Len(made))) \cup ({"renderPass"} \X RenderPasses)
    BY <1>1, <1>2, <2>1 DEF PoolInv, PipelineInv
  <2>3. \A p : <<"pipeline", p>> \in discarded' <=> <<"pipeline", p>> \in discarded \/ p \in Erased(Layouts)
    BY <1>1
  <2>4. \A e \in entries' : <<"pipeline", e.pipeline>> \notin discarded' /\ e.pipeline \notin destroyed
    BY <1>4, <1>5, <2>3 DEF PoolInv, PipelineInv
  <2>5. \A p \in destroyed : <<"pipeline", p>> \notin discarded'
    <3> SUFFICES ASSUME NEW p \in destroyed PROVE <<"pipeline", p>> \notin discarded'
      OBVIOUS
    <3>1. <<"pipeline", p>> \notin discarded /\ \A e \in entries : e.pipeline # p
      BY DEF PoolInv, PipelineInv
    <3> QED BY <1>4, <2>3, <3>1
  <2>6. \A p \in 1 .. Len(made) :
          (\E e \in entries' : e.pipeline = p) \/ <<"pipeline", p>> \in discarded' \/ p \in destroyed
    BY <1>3, <2>3 DEF PoolInv, PipelineInv
  <2> QED BY <1>1, <1>4, <2>2, <2>4, <2>5, <2>6 DEF PoolInv, PipelineInv
<1>9. HeldInv'
  <2>1. Nothing.pipeline = Null
    BY DEF Nothing
  <2>2. \A u \in Users : held'[u].pipeline # Null =>
          held'[u] = held[u] /\ held[u].pipeline \notin Erased(Layouts)
    BY <1>1, <2>1
  <2>3. \A u \in Users : held'[u].pipeline # Null =>
          \E e \in entries' : e.pipeline = held[u].pipeline /\ SameInfo(e.info, held[u].info)
    BY <1>3, <2>2 DEF PoolInv, HeldInv
  <2>4. held' = [u \in Users |-> held'[u]]
    BY <1>1
  <2>5. \A u \in Users : held'[u].pipeline # Null =>
          /\ Asked(held'[u].info)
          /\ \E e \in entries' : e.pipeline = held'[u].pipeline /\ SameInfo(e.info, held'[u].info)
    BY <2>2, <2>3 DEF PoolInv, HeldInv
  <2>6. \A u \in {"main", "skybox"} : held'[u].pipeline # Null =>
          held'[u].info \notin ComputeInfos /\ held'[u].info.layout \in Layouts
    BY <2>2 DEF PoolInv, HeldInv, Users
  <2>7. phase' \notin {"skybox", "ready", "done"}
    BY <1>1
  <2> QED BY <2>4, <2>5, <2>6, <2>7 DEF HeldInv, Asked
<1> QED BY <1>6, <1>7, <1>8, <1>9 DEF PoolInv

(* ... and those that destroy, or begin anew.                              *)
LEMMA PoolEnds ==
  ASSUME PoolInv, Sweep \/ DestroyAllPipelines \/ CreatePool \/ UNCHANGED poolVars
  PROVE  PoolInv'
<1>1. CASE Sweep
  <2> DEFINE swept == {p \in 1 .. Len(made) : <<"pipeline", p>> \in discarded}
  <2>1. /\ discarded' = {} /\ destroyed' = destroyed \cup swept
        /\ passes' = [h \in RenderPasses |-> IF <<"renderPass", h>> \in discarded THEN 0 ELSE passes[h]]
        /\ UNCHANGED <<phase, renderPass, generations, entries, template, compute, held, made>>
    BY <1>1 DEF Sweep
  <2>2. PassInv'
    BY <2>1, PipelinePoolAssumption DEF PoolInv, PassInv
  <2>3. renderPass # Null => passes'[renderPass] = passes[renderPass]
    BY <2>1 DEF PoolInv, PassInv
  <2>4. CurrentInv'
    BY <2>1, <2>3 DEF PoolInv, CurrentInv
  <2>5. TemplateInv' /\ EntryInv' /\ HeldInv'
    <3>1. TemplateInv'
      BY <2>1 DEF PoolInv, TemplateInv
    <3>2. EntryInv'
      BY <2>1 DEF PoolInv, EntryInv, Made, Asked, Fresh
    <3>3. HeldInv'
      BY <2>1 DEF PoolInv, HeldInv, Asked
    <3> QED BY <3>1, <3>2, <3>3
  <2>6. PipelineInv'
    BY <2>1 DEF PoolInv, PipelineInv
  <2> QED BY <2>2, <2>4, <2>5, <2>6 DEF PoolInv
<1>2. CASE DestroyAllPipelines
  <2>1. /\ phase = "create" /\ phase' = "done" /\ entries' = {}
        /\ destroyed' = destroyed \cup {e.pipeline : e \in entries}
        /\ held' = [u \in Users |-> Nothing]
        /\ UNCHANGED <<renderPass, generations, template, compute, discarded, passes, made>>
    BY <1>2 DEF DestroyAllPipelines
  <2>2. PassInv' /\ CurrentInv' /\ TemplateInv'
    BY <2>1 DEF PoolInv, PassInv, CurrentInv, TemplateInv
  <2>3. EntryInv'
    BY <2>1 DEF PoolInv, EntryInv, Made
  <2>4. PipelineInv'
    <3>1. \A e \in entries : e.pipeline \in 1 .. Len(made) /\ <<"pipeline", e.pipeline>> \notin discarded
      BY DEF PoolInv, PipelineInv, EntryInv
    <3>2. \A p : p \in destroyed' <=> p \in destroyed \/ \E e \in entries : e.pipeline = p
      BY <2>1
    <3>3. destroyed' \subseteq 1 .. Len(made)
      <4> SUFFICES ASSUME NEW p \in destroyed' PROVE p \in 1 .. Len(made)
        OBVIOUS
      <4>1. CASE p \in destroyed
        BY <4>1 DEF PoolInv, PipelineInv
      <4>2. CASE \E e \in entries : e.pipeline = p
        BY <3>1, <4>2
      <4> QED BY <3>2, <4>1, <4>2
    <3>4. \A p \in destroyed' : <<"pipeline", p>> \notin discarded
      BY <3>1, <3>2 DEF PoolInv, PipelineInv
    <3>5. \A p \in 1 .. Len(made) : <<"pipeline", p>> \in discarded \/ p \in destroyed'
      BY <3>2 DEF PoolInv, PipelineInv
    <3> QED BY <2>1, <3>3, <3>4, <3>5 DEF PoolInv, PipelineInv
  <2>5. HeldInv'
    <3>1. Nothing.pipeline = Null
      BY DEF Nothing
    <3> QED BY <2>1, <3>1 DEF HeldInv, Users
  <2> QED BY <2>2, <2>3, <2>4, <2>5 DEF PoolInv
<1>3. CASE CreatePool
  <2>1. /\ phase = "done" /\ phase' = "create" /\ template' = Constructed /\ compute' = ComputeConstructed
        /\ UNCHANGED <<renderPass, generations, entries, held, discarded, passes, made, destroyed>>
    BY <1>3 DEF CreatePool
  <2>2. TemplateInv' /\ EntryInv'
    BY <2>1 DEF PoolInv, TemplateInv, EntryInv, Made, Asked, Fresh
  <2>3. PipelineInv' /\ CurrentInv' /\ PassInv'
    BY <2>1 DEF PoolInv, PipelineInv, CurrentInv, PassInv
  <2>4. HeldInv'
    BY <2>1 DEF PoolInv, HeldInv, Asked
  <2> QED BY <2>2, <2>3, <2>4 DEF PoolInv
<1>4. CASE UNCHANGED poolVars
  <2>1. TemplateInv' /\ EntryInv'
    BY <1>4 DEF poolVars, PoolInv, TemplateInv, EntryInv, Made, Asked, Fresh
  <2>2. PipelineInv' /\ CurrentInv' /\ PassInv'
    BY <1>4 DEF poolVars, PoolInv, PipelineInv, CurrentInv, PassInv
  <2>3. HeldInv'
    BY <1>4 DEF poolVars, PoolInv, HeldInv, Asked
  <2> QED BY <2>1, <2>2, <2>3 DEF PoolInv
<1> QED BY <1>1, <1>2, <1>3, <1>4

(* Together.                                                               *)
LEMMA PoolStep ==
  ASSUME PoolInv, [PoolNext]_poolVars
  PROVE  PoolInv'
BY PoolCreates, PoolCleans, PoolEnds DEF PoolNext

(* A pool that has just been made.                                         *)
LEMMA InitPool ==
  ASSUME PoolInit
  PROVE  PoolInv
<1>1. Nothing.pipeline = Null
  BY DEF Nothing
<1>2. made = <<>> /\ Len(made) = 0 /\ made \in Seq(Made)
  BY EmptySeq DEF PoolInit
<1>3. EntryInv /\ PipelineInv /\ TemplateInv /\ CurrentInv
  BY <1>2 DEF PoolInit, EntryInv, PipelineInv, TemplateInv, CurrentInv
<1>4. PassInv
  BY PipelinePoolAssumption DEF PoolInit, PassInv, Null
<1>5. HeldInv
  BY <1>1 DEF PoolInit, HeldInv, Users
<1> QED BY <1>3, <1>4, <1>5 DEF PoolInv

(* The promise of the pool, for users who see to it that two descriptions  *)
(* differ in what operator== compares and that discardAllPipelines knows   *)
(* their layouts.                                                          *)
LEMMA RightByPool ==
  ASSUME PoolInv, DescriptionsDiffer, LayoutsKnown
  PROVE  RightPipeline
<1>1. ASSUME NEW a, NEW b, Asked(a), Asked(b), SameInfo(a, b)
      PROVE  a = b
  <2>1. DOMAIN a = DOMAIN b /\ \A m \in DOMAIN a \ {"stencilFormat", "colors"} : a[m] = b[m]
    BY <1>1 DEF SameInfo
  <2>2. CASE a \in ComputeInfos
    <3>1. b \in ComputeInfos
      BY <1>1, <2>2, FoundAlike
    <3>2. DOMAIN a = ComputeInfo /\ DOMAIN b = ComputeInfo
      BY <1>1, <2>2, <3>1, AskedKinds
    <3>3. \A m \in ComputeInfo : a[m] = b[m]
      BY <2>1, <3>2 DEF ComputeInfo
    <3>4. \A info \in ComputeInfos : info = [m \in ComputeInfo |-> info[m]]
      BY PipelinePoolAssumption
    <3> QED BY <2>2, <3>1, <3>3, <3>4, SameFields
  <2>3. CASE a \notin ComputeInfos
    <3>1. b \notin ComputeInfos
      BY <1>1, <2>3, FoundAlike
    <3>2. PICK d \in Descriptions, h \in RenderPasses : a = [d EXCEPT !.renderPass = h]
      BY <1>1, <2>3 DEF Asked
    <3>3. PICK e \in Descriptions, k \in RenderPasses : b = [e EXCEPT !.renderPass = k]
      BY <1>1, <3>1 DEF Asked
    <3>4. DOMAIN d = GraphicsInfo /\ DOMAIN e = GraphicsInfo
      BY PipelinePoolAssumption
    <3>5. \A m \in GraphicsInfo \ {"renderPass"} : a[m] = d[m] /\ b[m] = e[m]
      BY <3>2, <3>3, <3>4
    <3>6. DOMAIN a = GraphicsInfo /\ DOMAIN b = GraphicsInfo
      BY <3>2, <3>3, <3>4
    <3>7. \A m \in GraphicsInfo \ {"stencilFormat", "colors", "renderPass"} : d[m] = e[m]
      BY <2>1, <3>5, <3>6
    <3>8. d.stencilFormat = e.stencilFormat /\ d.colors = e.colors
      BY <3>7 DEF DescriptionsDiffer
    <3>9. {"stencilFormat", "colors"} \subseteq GraphicsInfo \ {"renderPass"}
      BY DEF GraphicsInfo
    <3>10. \A m \in GraphicsInfo : a[m] = b[m]
      BY <2>1, <3>5, <3>6, <3>8, <3>9
    <3>11. a = [m \in GraphicsInfo |-> a[m]] /\ b = [m \in GraphicsInfo |-> b[m]]
      BY <3>2, <3>3, <3>4
    <3> QED BY <3>10, <3>11, SameFields
  <2> QED BY <2>2, <2>3
<1>2. ASSUME NEW e \in entries
      PROVE  made[e.pipeline].generation = Generation(e.info)
  <2>1. Asked(e.info)
    BY DEF PoolInv, EntryInv
  <2>2. CASE e.info \in ComputeInfos
    BY <2>1, <2>2, AskedKinds DEF PoolInv, EntryInv, Generation
  <2>3. CASE e.info \notin ComputeInfos
    <3>1. PICK d \in Descriptions, h \in RenderPasses : e.info = [d EXCEPT !.renderPass = h]
      BY <2>1, <2>3 DEF Asked
    <3>2. e.info.layout \in Layouts
      BY <3>1, AskedWith DEF LayoutsKnown, Layouts, Descriptions
    <3> QED BY <2>1, <2>3, <3>2, AskedKinds DEF PoolInv, CurrentInv, Generation
  <2> QED BY <2>2, <2>3
<1> SUFFICES ASSUME NEW u \in Users, held[u].pipeline # Null
             PROVE  LET p == held[u].pipeline IN
                    /\ made[p].create = Fresh(held[u].info, made[p].base)
                    /\ made[p].generation = Generation(held[u].info)
                    /\ \E e \in entries : e.pipeline = p
  BY DEF RightPipeline
<1>3. PICK e \in entries : e.pipeline = held[u].pipeline /\ SameInfo(e.info, held[u].info)
  BY DEF PoolInv, HeldInv
<1>4. e.info = held[u].info
  BY <1>1, <1>3 DEF PoolInv, HeldInv, EntryInv
<1> QED BY <1>2, <1>3, <1>4 DEF PoolInv, EntryInv

(* Whatever the users do, a pipeline is in one place.                      *)
LEMMA OwnedByPool ==
  ASSUME PoolInv
  PROVE  OwnedOnce
<1>1. ASSUME NEW p \in 1 .. Len(made)
      PROVE  LET inMaps == Cardinality({e \in entries : e.pipeline = p})
                 waits == IF <<"pipeline", p>> \in discarded THEN 1 ELSE 0
                 gone == IF p \in destroyed THEN 1 ELSE 0 IN
             inMaps + waits + gone = 1
  <2> DEFINE here == {e \in entries : e.pipeline = p}
  <2>1. CASE \E e \in entries : e.pipeline = p
    <3>1. PICK e \in entries : e.pipeline = p
      BY <2>1
    <3>2. here = {e}
      BY <3>1 DEF PoolInv, PipelineInv
    <3>3. Cardinality(here) = 1
      BY <3>2, FS_Singleton
    <3> QED BY <3>1, <3>3 DEF PoolInv, PipelineInv
  <2>2. CASE ~\E e \in entries : e.pipeline = p
    <3>1. here = {}
      BY <2>2
    <3>2. Cardinality(here) = 0
      BY <3>1, FS_EmptySet
    <3>3. \/ <<"pipeline", p>> \in discarded /\ p \notin destroyed
          \/ <<"pipeline", p>> \notin discarded /\ p \in destroyed
      BY <2>2 DEF PoolInv, PipelineInv
    <3> HIDE DEF here
    <3>4. CASE <<"pipeline", p>> \in discarded /\ p \notin destroyed
      BY <3>2, <3>4 DEF here
    <3>5. CASE <<"pipeline", p>> \notin discarded /\ p \in destroyed
      BY <3>2, <3>5 DEF here
    <3> QED BY <3>3, <3>4, <3>5
  <2> QED BY <2>1, <2>2
<1>2. phase = "done" /\ discarded = {} => destroyed = 1 .. Len(made)
  BY DEF PoolInv, PipelineInv, HeldInv
<1> QED BY <1>1, <1>2 DEF OwnedOnce
-----------------------------------------------------------------------------
(* What belongs to the device *)

\* What createConstantVulkanResources made exists; so do the framebuffers
Equipped == {"create", "loop", "submit", "present", "destroyConstant"}
Drawing == {"loop", "submit", "present"}
Leaving == {"destroyConstant", "setLayouts", "sweep", "managers", "discardPool"}

Members(kinds) == kinds \cup (IF Desktop THEN {Loader, TextureView} ELSE {})

(* Which handlers follow each other, and what the two flags say of them.   *)
ControlInv ==
  /\ app \in {"desktop", "android"} /\ closing \in BOOLEAN /\ lost \in BOOLEAN
  /\ device \in 1 .. MaxDevices /\ timeline \in 0 .. MaxTimeline /\ swapchain \in Nat
  /\ at \in Equipped \cup Leaving \cup {"constant", "device", "done"}
  /\ at = "setLayouts" => Desktop
  /\ lost => ~Desktop /\ ~closing
  /\ closing => at \in Leaving \cup {"done"}
  /\ at \in Leaving => closing \/ lost
  /\ lost => at \notin Drawing \cup {"done"}
  /\ at = "device" => lost
  /\ lost /\ at \in Leaving \cup {"device"} => device < MaxDevices
  /\ at = "submit" => timeline < MaxTimeline
  /\ at = "constant" => lost \/ timeline = 0

(* How far the pool has come by then.                                      *)
PhaseInv ==
  /\ at \in {"constant", "destroyConstant", "setLayouts", "sweep", "managers"} => phase = "create"
  /\ at = "create" => phase \in {"create", "main", "skybox", "ready"}
  /\ at \in Drawing => phase = "ready"
  /\ at \in {"discardPool", "device", "done"} => phase = "done"
  /\ phase = "skybox" => Desktop
  /\ phase = "ready" /\ Desktop => held["skybox"].pipeline # Null

(* Every handler is a step of the pool, or none of its business.           *)
LEMMA AppIsPool ==
  ASSUME AppNext
  PROVE  [PoolNext]_poolVars
<1>1. CASE CreateConstantDesktop \/ CreateConstantAndroid \/ CreateTargets \/ Record \/ Submit \/ Present
  BY <1>1 DEF CreateConstantDesktop, CreateConstantAndroid, CreateConstants, CreateTargets, Record, Submit,
     Present
<1>2. CASE CreatePipelines
  BY <1>2 DEF CreatePipelines, PoolNext
<1>3. CASE OnFrame \/ UseOther \/ OnResize \/ SurfaceLost \/ DeviceLost \/ Destruct
  BY <1>3 DEF OnFrame, SweepAll, UseOther, OnResize, SurfaceLost, Recreate, DeviceLost, Destruct, CleanUp,
     PoolNext
<1>4. CASE DestroyConstantAndroid \/ DestroyConstantDesktop \/ DestroySetLayouts \/ ForcedSweep
  BY <1>4 DEF DestroyConstantAndroid, DestroyConstantDesktop, DestroySetLayouts, ForcedSweep, SweepAll, PoolNext
<1>5. CASE DestroyManagers \/ DestroyDevice \/ CreateDevice \/ Terminated
  BY <1>5 DEF DestroyManagers, DestroyDevice, CreateDevice, SweepAll, Terminated, allVars, PoolNext
<1> QED BY <1>1, <1>2, <1>3, <1>4, <1>5 DEF AppNext

(* The pool in any application.                                            *)
THEOREM PoolInvariant == AppSpec => []PoolInv
<1>1. AppInit => PoolInv
  BY InitPool DEF AppInit
<1>2. PoolInv /\ [AppNext]_allVars => PoolInv'
  <2>1. AppNext => [PoolNext]_poolVars
    BY AppIsPool
  <2>2. UNCHANGED allVars => UNCHANGED poolVars
    BY DEF allVars
  <2> QED BY <2>1, <2>2, PoolStep
<1> QED BY <1>1, <1>2, PTL DEF AppSpec

(* Whatever was asked of the pool before, and whatever was resized, lost   *)
(* and made anew, a user holds the pipeline that its description asks for, *)
(* made for the present render pass.                                       *)
THEOREM PipelinesAreRight == DescriptionsDiffer /\ LayoutsKnown => (AppSpec => []RightPipeline)
<1> SUFFICES ASSUME DescriptionsDiffer, LayoutsKnown PROVE AppSpec => []RightPipeline
  OBVIOUS
<1>1. PoolInv => RightPipeline
  BY RightByPool
<1> QED BY <1>1, PoolInvariant, PTL

(* The skybox has its pipeline once it was asked for.                      *)
LEMMA SkyboxHeld ==
  ASSUME PoolInv
  PROVE  /\ CreateSkybox => held'["skybox"].pipeline # Null
         /\ CreateOther => held'["skybox"] = held["skybox"]
<1>1. ASSUME CreateSkybox
      PROVE  held'["skybox"].pipeline # Null
  <2>1. GetOrCreateGraphicsPipeline("skybox", SkyboxInfo, Null) /\ phase = "skybox"
    BY <1>1 DEF CreateSkybox
  <2>2. SkyboxInfo \in Descriptions /\ SkyboxInfo.layout \in Layouts
    BY DEF Descriptions, Layouts
  <2> QED BY <2>1, <2>2, CallStep
<1>2. ASSUME CreateOther
      PROVE  held'["skybox"] = held["skybox"]
  <2>1. PICK base \in {Null, held["main"].pipeline} :
          \/ \E info \in OtherInfos : GetOrCreateGraphicsPipeline("other", info, base)
          \/ \E info \in ComputeInfos : GetOrCreateComputePipeline(info, base)
    BY <1>2 DEF CreateOther
  <2>2. \E user \in {"other", "compute"} : \E x : held' = [held EXCEPT ![user] = x]
    BY <2>1 DEF GetOrCreateGraphicsPipeline, GetOrCreateComputePipeline, Find, Create
  <2>3. held = [u \in Users |-> held[u]]
    BY DEF PoolInv, HeldInv
  <2> QED BY <2>2, <2>3 DEF Users
<1> QED BY <1>1, <1>2

\* What the control flow of a step depends on.
FlowInv == PoolInv /\ ControlInv /\ PhaseInv

(* The handlers that create, and those of a frame.                         *)
LEMMA FlowCreates ==
  ASSUME FlowInv, CreateConstantDesktop \/ CreateConstantAndroid \/ CreatePipelines \/ CreateTargets
  PROVE  ControlInv' /\ PhaseInv'
<1> USE AppResourcesAssumption
    DEF FlowInv, ControlInv, PhaseInv, Desktop, Equipped, Drawing, Leaving, poolVars, managerVars, dataVars
<1>1. CASE CreateConstantDesktop \/ CreateConstantAndroid
  BY <1>1 DEF CreateConstantDesktop, CreateConstantAndroid, CreateConstants
<1>2. CASE CreatePipelines
  <2>1. at = "create" /\ UNCHANGED ownVars
    BY <1>2 DEF CreatePipelines
  <2>2. ControlInv'
    BY <2>1 DEF ownVars
  <2>3. \/ phase' = "main"
        \/ Desktop /\ phase' = "skybox"
        \/ Desktop /\ phase' = "ready" /\ held'["skybox"].pipeline # Null
        \/ ~Desktop /\ phase' = "ready"
    BY <1>2, SkyboxHeld DEF CreatePipelines, CreateRenderPass, CreateMain, CreateSkybox, CreateOnly
  <2>4. PhaseInv'
    BY <2>1, <2>3 DEF ownVars
  <2> QED BY <2>2, <2>4
<1>3. CASE CreateTargets
  <2>1. /\ at = "create" /\ at' = "loop" /\ phase = "ready" /\ ~lost' /\ lost' \in BOOLEAN
        /\ timeline' = IF lost THEN 0 ELSE timeline
        /\ UNCHANGED <<app, closing, device, swapchain, phase, held>>
    BY <1>3 DEF CreateTargets, TimelineRegained
  <2>2. ControlInv'
    <3>1. timeline' \in 0 .. MaxTimeline
      BY <2>1
    <3>2. ~closing
      BY <2>1
    <3> QED BY <2>1, <3>1, <3>2
  <2>3. PhaseInv'
    BY <2>1
  <2> QED BY <2>2, <2>3
<1> QED BY <1>1, <1>2, <1>3

(* The handlers of a frame.                                                *)
LEMMA FlowFrames ==
  ASSUME FlowInv, Record \/ Submit \/ Present \/ OnFrame \/ UseOther
  PROVE  ControlInv' /\ PhaseInv'
<1> USE AppResourcesAssumption
    DEF FlowInv, ControlInv, PhaseInv, Desktop, Equipped, Drawing, Leaving, poolVars, managerVars, dataVars
<1>1. CASE Record
  BY <1>1 DEF Record
<1>2. CASE Submit \/ Present
  BY <1>2 DEF Submit, Present
<1>3. CASE OnFrame
  BY <1>3 DEF OnFrame, SweepAll, Sweep
<1>4. CASE UseOther
  <2>1. at = "loop" /\ UNCHANGED ownVars /\ phase' = phase /\ held'["skybox"] = held["skybox"]
    BY <1>4, SkyboxHeld DEF UseOther, CreateOther
  <2> QED BY <2>1 DEF ownVars
<1> QED BY <1>1, <1>2, <1>3, <1>4

(* The handlers that clean up.                                             *)
LEMMA FlowCleans ==
  ASSUME FlowInv, OnResize \/ SurfaceLost \/ DeviceLost \/ Destruct
  PROVE  ControlInv' /\ PhaseInv'
<1> USE AppResourcesAssumption
    DEF FlowInv, ControlInv, PhaseInv, Desktop, Equipped, Drawing, Leaving, dataVars
<1>1. phase' = "create"
  BY DEF OnResize, SurfaceLost, Recreate, DeviceLost, Destruct, CleanUp, Cleanup
<1>2. CASE OnResize \/ SurfaceLost
  BY <1>1, <1>2 DEF OnResize, SurfaceLost, Recreate
<1>3. CASE DeviceLost
  BY <1>1, <1>3 DEF DeviceLost
<1>4. CASE Destruct
  BY <1>1, <1>4 DEF Destruct
<1> QED BY <1>2, <1>3, <1>4

(* The handlers that destroy, and the one that begins anew.                *)
LEMMA FlowEnds ==
  ASSUME FlowInv, \/ DestroyConstantAndroid \/ DestroyConstantDesktop \/ DestroySetLayouts
                  \/ ForcedSweep \/ DestroyManagers \/ DestroyDevice \/ CreateDevice
                  \/ UNCHANGED allVars
  PROVE  ControlInv' /\ PhaseInv'
<1> USE AppResourcesAssumption
    DEF FlowInv, ControlInv, PhaseInv, Desktop, Equipped, Drawing, Leaving, poolVars, managerVars, dataVars
<1>1. CASE DestroyConstantAndroid
  BY <1>1 DEF DestroyConstantAndroid
<1>2. CASE DestroyConstantDesktop
  BY <1>2 DEF DestroyConstantDesktop, Sweep
<1>3. CASE DestroySetLayouts
  BY <1>3 DEF DestroySetLayouts
<1>4. CASE ForcedSweep
  BY <1>4 DEF ForcedSweep, SweepAll, Sweep
<1>5. CASE DestroyManagers
  BY <1>5 DEF DestroyManagers, DestroyAllPipelines
<1>6. CASE DestroyDevice
  BY <1>6 DEF DestroyDevice, SweepAll, Sweep
<1>7. CASE CreateDevice
  BY <1>7 DEF CreateDevice, CreatePool
<1>8. CASE UNCHANGED allVars
  BY <1>8 DEF allVars, ownVars
<1> QED BY <1>1, <1>2, <1>3, <1>4, <1>5, <1>6, <1>7, <1>8

(* Together.                                                               *)
LEMMA FlowStep ==
  ASSUME FlowInv, [AppNext]_allVars
  PROVE  FlowInv'
<1>1. PoolInv'
  <2>1. AppNext => [PoolNext]_poolVars
    BY AppIsPool
  <2>2. UNCHANGED allVars => UNCHANGED poolVars
    BY DEF allVars
  <2> QED BY <2>1, <2>2, PoolStep DEF FlowInv
<1>2. ControlInv' /\ PhaseInv'
  BY FlowCreates, FlowFrames, FlowCleans, FlowEnds DEF AppNext, Terminated
<1> QED BY <1>1, <1>2 DEF FlowInv

(* In the beginning.                                                       *)
LEMMA InitFlow ==
  ASSUME AppInit
  PROVE  FlowInv
<1>1. PoolInv
  BY InitPool DEF AppInit
<1>2. ControlInv /\ PhaseInv
  <2>1. /\ app \in {"desktop", "android"} /\ at = "constant" /\ ~closing /\ ~lost
        /\ closing \in BOOLEAN /\ lost \in BOOLEAN /\ device = 1 /\ timeline = 0 /\ swapchain = 1
        /\ phase = "create"
    BY DEF AppInit, PoolInit
  <2>2. ControlInv
    BY <2>1, AppResourcesAssumption DEF ControlInv, Equipped, Drawing, Leaving, Desktop
  <2>3. PhaseInv
    BY <2>1 DEF PhaseInv, Drawing, Desktop
  <2> QED BY <2>2, <2>3
<1> QED BY <1>1, <1>2 DEF FlowInv
(* What the maps and the members hold.                                     *)
MapInv ==
  /\ buffers = IF at \in Equipped THEN [id \in BufferIds |-> Buffer(id)] ELSE Empty
  /\ images = IF at \in Drawing THEN Entry("depth", Depth) ELSE Empty
  /\ textures = IF Desktop /\ at \in Equipped \cup {"setLayouts"}
                THEN Entry("Tex", [image |-> TextureImage, allocationId |-> 2]) ELSE Empty
  /\ allocations = IF Desktop /\ at \in Equipped \cup {"setLayouts"}
                   THEN Entry(2, TextureMemory) ELSE Empty
  /\ targets = IF at \in Drawing
               THEN [renderPass |-> passes[renderPass], swapchain |-> swapchain, depth |-> Depth,
                     members |-> {DepthView, Framebuffers}]
               ELSE NoTargets

MemberInv ==
  members = (IF at \in {"discardPool", "device", "done"} THEN {} ELSE {DescriptorPool})
            \cup (IF at \in Equipped THEN Members(Discarded \cup Templates \cup SetLayouts)
                  ELSE IF at = "setLayouts" THEN Members(SetLayouts) ELSE {})
            \cup targets.members

\* What createVulkanResources made for an earlier generation, or this one
OfGeneration(o) == \E g \in 1 .. generations :
  /\ o \in {<<"image", "depth", g>>, <<"imageView", "depth", g>>, <<"framebuffer", "all", g>>}
  /\ at \in Drawing \/ (at = "create" /\ phase # "create") => g < generations

(* What waits in the discard pool is nobody else's.                        *)
WaitInv ==
  /\ \A o \in waiting : \/ o[1] = "staging"
                        \/ OfGeneration(o)
                        \/ at \in {"sweep", "managers", "discardPool"} /\ o[1] # "descriptorPool"
  /\ at \in {"constant", "device", "done"} => waiting = {} /\ discarded = {}

Owned == Range(buffers) \cup Range(images) \cup {textures[id].image : id \in DOMAIN textures}
           \cup Range(allocations) \cup members

ObjectInv == objects = Owned \cup waiting /\ Owned \cap waiting = {}

(* The first frame on a device fills and binds what the later ones read.   *)
DataInv ==
  /\ DOMAIN sets \subseteq Sets
  /\ at \in Equipped /\ ~Desktop => \A id \in BufferIds : Buffer(id) \in written
  /\ at \in Equipped /\ ~lost /\ (timeline > 0 \/ at \in {"submit", "present"}) =>
       /\ sets = [s \in Sets |-> Bound[s]]
       /\ \A id \in BufferIds : Buffer(id) \in written \/ <<Buffer(id), CopyStage(id)>> \in copied

AppInv ==
  PoolInv /\ ControlInv /\ PhaseInv /\ MapInv /\ MemberInv /\ WaitInv /\ ObjectInv /\ DataInv

(* A map that is empty takes what is put into it.                          *)
LEMMA EmptyTakes ==
  ASSUME NEW D, NEW m, m = [id \in D |-> m[id]]
  PROVE  Emplaced(Empty, m) = m
<1>1. DOMAIN m = D /\ DOMAIN Empty = {}
  BY DEF Empty
<1>2. Emplaced(Empty, m) = [id \in D |-> m[id]]
  BY <1>1 DEF Emplaced
<1> QED BY <1>2

(* A map that gives up all its ids is empty.                              *)
LEMMA AllGone ==
  ASSUME NEW m, NEW D, DOMAIN m \subseteq D
  PROVE  Without(m, D) = Empty
<1>1. DOMAIN m \ D = {}
  OBVIOUS
<1> QED BY <1>1 DEF Without, Empty

(* A map of one entry holds it.                                            *)
LEMMA EntryFacts ==
  ASSUME NEW id, NEW x
  PROVE  Entry(id, x)[id] = x /\ DOMAIN Entry(id, x) = {id}
BY DEF Entry

(* An empty map takes it.                                                  *)
LEMMA EntryTaken ==
  ASSUME NEW id, NEW x
  PROVE  Emplaced(Empty, Entry(id, x)) = Entry(id, x)
<1>1. Entry(id, x) = [i \in {id} |-> Entry(id, x)[i]]
  BY DEF Entry
<1> HIDE DEF Entry, Emplaced, Empty
<1> QED BY <1>1, EmptyTakes

(* A sweep leaves the present render pass its generation.                  *)
LEMMA SweptPass ==
  ASSUME PoolInv, Sweep, renderPass # Null
  PROVE  renderPass' = renderPass /\ passes'[renderPass] = passes[renderPass]
BY DEF PoolInv, PassInv, Sweep

\* What is created on a device, by maps and members.
StateInv == FlowInv /\ MapInv /\ MemberInv

(* The names are those of the device and the application.                  *)
LEMMA SameNames ==
  ASSUME UNCHANGED <<app, device>>
  PROVE  /\ Desktop' = Desktop /\ BufferIds' = BufferIds /\ Sets' = Sets
         /\ [id \in BufferIds |-> Buffer(id)]' = [id \in BufferIds |-> Buffer(id)]
         /\ UNCHANGED <<TextureImage, TextureMemory, DescriptorPool, Loader, TextureView, Sampler>>
         /\ UNCHANGED <<Discarded, Templates, SetLayouts>>
         /\ Members(Discarded \cup Templates \cup SetLayouts)' = Members(Discarded \cup Templates \cup SetLayouts)
         /\ Members(SetLayouts)' = Members(SetLayouts)
BY DEF Desktop, BufferIds, Buffer, Sets, TextureImage, TextureMemory, DescriptorPool, Loader, TextureView,
   Sampler, Discarded, Templates, SetLayouts, Members, Named

(* A handler that creates and destroys nothing.                            *)
LEMMA StateKept ==
  ASSUME MapInv, MemberInv,
         UNCHANGED <<app, device, buffers, images, textures, allocations, targets, members>>,
         at \in Equipped <=> at' \in Equipped, at \in Drawing <=> at' \in Drawing,
         at = "setLayouts" <=> at' = "setLayouts",
         at \in {"discardPool", "device", "done"} <=> at' \in {"discardPool", "device", "done"},
         at \in Drawing => /\ UNCHANGED <<generations, swapchain, renderPass>>
                           /\ passes'[renderPass] = passes[renderPass]
  PROVE  MapInv' /\ MemberInv'
<1>1. at \in Drawing => Depth' = Depth /\ DepthView' = DepthView /\ Framebuffers' = Framebuffers
  BY DEF Depth, DepthView, Framebuffers
<1> HIDE DEF Equipped, Drawing
<1>2. MapInv'
  BY <1>1, SameNames, SMTT(30) DEF MapInv
<1>3. MemberInv'
  BY SameNames DEF MemberInv
<1> QED BY <1>2, <1>3

(* The handlers that create.                                               *)
LEMMA StateCreates ==
  ASSUME StateInv, CreateConstantDesktop \/ CreateConstantAndroid \/ CreatePipelines \/ CreateTargets
  PROVE  MapInv' /\ MemberInv'
<1> USE DEF StateInv, MapInv, MemberInv, Equipped, Drawing
<1>1. CASE CreateConstantDesktop \/ CreateConstantAndroid
  <2>1. /\ at = "constant" /\ at' = "create" /\ UNCHANGED <<poolVars, app, device, images, targets>>
        /\ buffers' = Emplaced(buffers, [id \in BufferIds |-> Buffer(id)])
        /\ members' = members \cup Members(Discarded \cup Templates \cup SetLayouts)
    BY <1>1 DEF CreateConstantDesktop, CreateConstantAndroid, CreateConstants, Members
  <2>2. /\ buffers = Empty /\ images = Empty /\ textures = Empty /\ allocations = Empty /\ targets = NoTargets
        /\ members = {DescriptorPool} \cup targets.members
    BY <2>1
  <2>3. buffers' = [id \in BufferIds |-> Buffer(id)]
    BY <2>1, <2>2, EmptyTakes
  <2>4. BufferIds' = BufferIds /\ \A id : Buffer(id)' = Buffer(id)
    BY <2>1 DEF BufferIds, Buffer, Desktop
  <2>5. /\ textures' = IF Desktop THEN Entry("Tex", [image |-> TextureImage, allocationId |-> 2]) ELSE Empty
        /\ allocations' = IF Desktop THEN Entry(2, TextureMemory) ELSE Empty
    BY <1>1, <2>2, EntryTaken DEF CreateConstantDesktop, CreateConstantAndroid
  <2>6. MapInv'
    BY <2>1, <2>2, <2>3, <2>4, <2>5 DEF Desktop, TextureImage, TextureMemory
  <2>7. (Members(Discarded \cup Templates \cup SetLayouts) \cup {DescriptorPool})'
           = Members(Discarded \cup Templates \cup SetLayouts) \cup {DescriptorPool}
    BY <2>1 DEF Members, Discarded, Templates, SetLayouts, Desktop, Named, Sets, Loader, TextureView, Sampler,
       DescriptorPool
  <2>8. MemberInv'
    BY <2>1, <2>2, <2>7
  <2> QED BY <2>6, <2>8
<1>2. CASE CreatePipelines
  <2>1. at = "create" /\ UNCHANGED ownVars
    BY <1>2 DEF CreatePipelines
  <2> QED BY <2>1, StateKept DEF ownVars
<1>3. CASE CreateTargets
  <2>1. /\ at = "create" /\ at' = "loop"
        /\ UNCHANGED <<poolVars, app, device, swapchain, buffers, textures, allocations>>
        /\ images' = Emplaced(images, Entry("depth", Depth))
        /\ targets' = [renderPass |-> passes[renderPass], swapchain |-> swapchain,
                       depth |-> images'["depth"], members |-> {DepthView, Framebuffers}]
        /\ members' = members \cup {DepthView, Framebuffers}
    BY <1>3 DEF CreateTargets
  <2>2. images = Empty /\ targets = NoTargets
    BY <2>1
  <2>3. images' = Entry("depth", Depth) /\ images'["depth"] = Depth
    <3>1. images' = Entry("depth", Depth)
      BY <2>1, <2>2, EntryTaken
    <3> QED BY <3>1 DEF Entry
  <2>4. MapInv'
    BY <2>1, <2>3 DEF poolVars, Desktop, BufferIds, Buffer, TextureImage, TextureMemory, Depth, DepthView,
       Framebuffers
  <2>5. NoTargets.members = {} /\ targets'.members = {DepthView, Framebuffers}
    BY <2>1 DEF NoTargets
  <2>6. MemberInv'
    BY <2>1, <2>2, <2>5 DEF Desktop, Members,
       Discarded, Templates, SetLayouts, Named, Sets, Loader, TextureView, Sampler, DescriptorPool
  <2> QED BY <2>4, <2>6
<1> QED BY <1>1, <1>2, <1>3

(* The handlers of a frame.                                                *)
LEMMA StateFrames ==
  ASSUME StateInv, Record \/ Submit \/ Present \/ OnFrame \/ UseOther
  PROVE  MapInv' /\ MemberInv'
<1> USE DEF StateInv, Equipped, Drawing, managerVars, poolVars
<1>1. CASE Record
  BY <1>1, StateKept DEF Record
<1>2. CASE Submit \/ Present
  BY <1>2, StateKept DEF Submit, Present
<1>3. CASE OnFrame
  <2>1. at = "loop" /\ Sweep /\ UNCHANGED <<app, at, device, swapchain, managerVars, members, targets>>
    BY <1>3 DEF OnFrame, SweepAll
  <2>2. renderPass # Null /\ UNCHANGED generations
    BY <2>1 DEF FlowInv, PhaseInv, PoolInv, PassInv, Sweep
  <2> QED BY <2>1, <2>2, SweptPass, StateKept DEF FlowInv
<1>4. CASE UseOther
  <2>1. at = "loop" /\ UNCHANGED ownVars /\ UNCHANGED <<generations, renderPass, passes>>
    BY <1>4 DEF UseOther, CreateOther, GetOrCreateGraphicsPipeline, GetOrCreateComputePipeline
  <2> QED BY <2>1, StateKept DEF ownVars
<1> QED BY <1>1, <1>2, <1>3, <1>4

(* cleanupVulkanResources forgets what createVulkanResources made.         *)
LEMMA StateCleans ==
  ASSUME StateInv, OnResize \/ SurfaceLost \/ DeviceLost \/ Destruct
  PROVE  MapInv' /\ MemberInv'
<1>1. /\ at \in Drawing /\ at' \in {"create", "destroyConstant"}
      /\ UNCHANGED <<app, device, buffers, textures, allocations>>
      /\ images' = Without(images, {"depth"}) /\ members' = members \ targets.members /\ targets' = NoTargets
  <2>1. CASE OnResize \/ SurfaceLost
    <3>1. Recreate
      BY <2>1 DEF OnResize, SurfaceLost
    <3>2. CleanUp /\ at' = "create" /\ UNCHANGED <<app, device, buffers, textures, allocations>> /\ at \in Drawing
      BY <3>1 DEF Recreate, Drawing
    <3> QED BY <3>2 DEF CleanUp, CleanedImages
  <2>2. CASE DeviceLost
    BY <2>2 DEF DeviceLost, CleanUp, CleanedImages, Drawing
  <2>3. CASE Destruct
    BY <2>3 DEF Destruct, CleanUp, CleanedImages, Drawing
  <2> QED BY <2>1, <2>2, <2>3
<1>2. images' = Empty
  <2>1. images = Entry("depth", Depth)
    BY <1>1 DEF StateInv, MapInv
  <2>2. DOMAIN images \subseteq {"depth"}
    BY <2>1, EntryFacts
  <2> QED BY <1>1, <2>2, AllGone
<1>3. MapInv'
  BY <1>1, <1>2, SameNames DEF StateInv, MapInv, Equipped, Drawing
<1>4. targets.members = {DepthView, Framebuffers} /\ NoTargets.members = {}
  BY <1>1 DEF StateInv, MapInv, NoTargets
<1>5. members = {DescriptorPool} \cup Members(Discarded \cup Templates \cup SetLayouts) \cup targets.members
  BY <1>1 DEF StateInv, MemberInv, Equipped, Drawing
<1>6. targets.members \cap ({DescriptorPool} \cup Members(Discarded \cup Templates \cup SetLayouts)) = {}
  BY <1>4, SMTT(30) DEF DepthView, Framebuffers, DescriptorPool, Members, Discarded, Templates, SetLayouts, Named,
     Loader, TextureView, Sampler
<1>7. MemberInv'
  <2>1. members' = {DescriptorPool} \cup Members(Discarded \cup Templates \cup SetLayouts)
    BY <1>1, <1>5, <1>6
  <2> QED BY <1>1, <1>4, <2>1, SameNames DEF MemberInv, Equipped
<1> QED BY <1>3, <1>7

(* The handlers that destroy, and the one that begins anew.                *)
LEMMA StateEnds ==
  ASSUME StateInv, \/ DestroyConstantAndroid \/ DestroyConstantDesktop \/ DestroySetLayouts
                   \/ ForcedSweep \/ DestroyManagers \/ DestroyDevice \/ CreateDevice
                   \/ UNCHANGED allVars
  PROVE  MapInv' /\ MemberInv'
<1> USE DEF StateInv, managerVars
<1>0. NoTargets.members = {} /\ (at \notin Drawing => targets = NoTargets)
  BY DEF NoTargets, MapInv
<1>1. ASSUME at = "destroyConstant"
      PROVE  /\ DescriptorPool \notin Members(Discarded \cup Templates \cup SetLayouts)
             /\ members = {DescriptorPool} \cup Members(Discarded \cup Templates \cup SetLayouts)
             /\ Without(buffers, BufferIds) = Empty
  <2>1. DescriptorPool \notin Members(Discarded \cup Templates \cup SetLayouts)
    BY DEF DescriptorPool, Members, Discarded, Templates, SetLayouts, Named, Loader, TextureView, Sampler
  <2>2. members = {DescriptorPool} \cup Members(Discarded \cup Templates \cup SetLayouts)
    BY <1>0, <1>1 DEF MemberInv, Equipped, Drawing
  <2>3. DOMAIN buffers \subseteq BufferIds
    BY <1>1 DEF MapInv, Equipped
  <2>4. Without(buffers, BufferIds) = Empty
    BY <2>3, AllGone
  <2> QED BY <2>1, <2>2, <2>4
<1>2. CASE DestroyConstantAndroid
  <2>1. /\ at = "destroyConstant" /\ ~Desktop /\ at' \in {"sweep", "managers"}
        /\ UNCHANGED <<app, device, images, textures, allocations, targets>>
        /\ buffers' = Without(buffers, BufferIds)
        /\ members' = members \ (Templates \cup SetLayouts \cup Discarded)
    BY <1>2 DEF DestroyConstantAndroid, ConstantBuffers
  <2>2. MapInv'
    BY <1>1, <2>1, SameNames DEF MapInv, Equipped, Drawing
  <2>3. members' = {DescriptorPool}
    BY <1>1, <2>1 DEF Members
  <2>4. MemberInv'
    BY <1>0, <2>1, <2>3, SameNames DEF MemberInv, Equipped, Drawing
  <2> QED BY <2>2, <2>4
<1>3. CASE DestroyConstantDesktop
  <2>1. /\ at = "destroyConstant" /\ Desktop /\ at' = "setLayouts"
        /\ UNCHANGED <<app, device, images, textures, allocations, targets>>
        /\ buffers' = Without(buffers, BufferIds) /\ members' = members \ (Templates \cup Discarded)
    BY <1>3 DEF DestroyConstantDesktop, ConstantBuffers
  <2>2. MapInv'
    BY <1>1, <2>1, SameNames DEF MapInv, Equipped, Drawing
  <2>3. Members(SetLayouts) \cap (Templates \cup Discarded) = {}
    BY DEF Members, Discarded, Templates, SetLayouts, Named, Loader, TextureView, Sampler
  <2>4. members' = {DescriptorPool} \cup Members(SetLayouts)
    BY <1>1, <2>1, <2>3 DEF Members
  <2>5. MemberInv'
    BY <1>0, <2>1, <2>4, SameNames DEF MemberInv, Equipped, Drawing
  <2> QED BY <2>2, <2>5
<1>4. CASE DestroySetLayouts
  <2>1. /\ at = "setLayouts" /\ at' = "sweep" /\ textures' = Without(textures, {"Tex"})
        /\ allocations' = Without(allocations, {textures["Tex"].allocationId})
        /\ members' = members \ (SetLayouts \cup {TextureView, Loader})
        /\ UNCHANGED <<app, device, buffers, images, targets>> /\ Desktop
    BY <1>4 DEF DestroySetLayouts, FlowInv, ControlInv
  <2>2. /\ textures = Entry("Tex", [image |-> TextureImage, allocationId |-> 2])
        /\ allocations = Entry(2, TextureMemory)
    BY <2>1 DEF MapInv
  <2>3. textures' = Empty /\ allocations' = Empty
    <3>1. /\ textures["Tex"] = [image |-> TextureImage, allocationId |-> 2]
          /\ DOMAIN textures = {"Tex"} /\ DOMAIN allocations = {2}
      BY <2>2 DEF Entry
    <3>2. textures["Tex"].allocationId = 2
      BY <3>1
    <3> QED BY <2>1, <3>1, <3>2, AllGone
  <2>4. MapInv'
    BY <2>1, <2>3 DEF MapInv, Equipped, Drawing
  <2>5. DescriptorPool \notin SetLayouts \cup {TextureView, Loader}
    BY DEF DescriptorPool, SetLayouts, Named, Loader, TextureView
  <2>6. members = {DescriptorPool} \cup Members(SetLayouts)
    BY <1>0, <2>1 DEF MemberInv, Equipped, Drawing
  <2>7. members' = {DescriptorPool}
    BY <2>1, <2>5, <2>6 DEF Members
  <2>8. MemberInv'
    BY <1>0, <2>1, <2>7, SameNames DEF MemberInv, Equipped, Drawing
  <2> QED BY <2>4, <2>8
<1>5. CASE ForcedSweep
  BY <1>5, StateKept DEF ForcedSweep, SweepAll, Equipped, Drawing
<1>6. CASE DestroyManagers
  <2>1. /\ at = "managers" /\ at' = "discardPool" /\ buffers' = Empty /\ images' = Empty
        /\ members' = members \ {DescriptorPool} /\ UNCHANGED <<app, device, textures, allocations, targets>>
    BY <1>6 DEF DestroyManagers
  <2>2. MapInv'
    BY <2>1 DEF MapInv, Equipped, Drawing
  <2>3. members' = {}
    BY <1>0, <2>1 DEF MemberInv, Equipped, Drawing
  <2> QED BY <1>0, <2>1, <2>2, <2>3 DEF MemberInv, Equipped, Drawing
<1>7. CASE DestroyDevice
  BY <1>7, StateKept DEF DestroyDevice, SweepAll, Equipped, Drawing
<1>8. CASE CreateDevice
  <2>1. /\ at = "device" /\ at' = "constant" /\ members' = members \cup {DescriptorPool'}
        /\ UNCHANGED <<app, buffers, images, textures, allocations, targets>>
    BY <1>8 DEF CreateDevice
  <2>2. MapInv'
    BY <2>1 DEF MapInv, Equipped, Drawing
  <2>3. members = {}
    BY <1>0, <2>1 DEF MemberInv, Equipped, Drawing
  <2> QED BY <1>0, <2>1, <2>2, <2>3 DEF MemberInv, Equipped, Drawing
<1>9. CASE UNCHANGED allVars
  BY <1>9, StateKept DEF allVars, ownVars, poolVars
<1> QED BY <1>2, <1>3, <1>4, <1>5, <1>6, <1>7, <1>8, <1>9

(* Together.                                                               *)
LEMMA StateStep ==
  ASSUME StateInv, [AppNext]_allVars
  PROVE  StateInv'
<1>1. FlowInv'
  BY FlowStep DEF StateInv
<1>2. MapInv' /\ MemberInv'
  BY StateCreates, StateFrames, StateCleans, StateEnds DEF AppNext, Terminated
<1> QED BY <1>1, <1>2 DEF StateInv

(* In the beginning.                                                       *)
LEMMA InitState ==
  ASSUME AppInit
  PROVE  StateInv
<1>1. /\ at = "constant" /\ buffers = Empty /\ images = Empty /\ textures = Empty /\ allocations = Empty
      /\ targets = NoTargets /\ members = {DescriptorPool}
  BY DEF AppInit
<1>2. MapInv
  BY <1>1 DEF MapInv, Equipped, Drawing
<1>3. MemberInv
  BY <1>1 DEF MemberInv, Equipped, Drawing, NoTargets
<1> QED BY <1>2, <1>3, InitFlow DEF StateInv

(* The application never trips over the ids of its own bookkeeping.        *)
THEOREM IdsAlwaysMatch == AppSpec => []IdsMatch
<1>1. AppSpec => []StateInv
  BY InitState, StateStep, PTL DEF AppSpec
<1>2. StateInv => IdsMatch
  <2> SUFFICES ASSUME StateInv PROVE IdsMatch
    OBVIOUS
  <2>1. DOMAIN Empty = {} /\ DOMAIN Entry("depth", Depth) = {"depth"}
    BY EntryFacts DEF Empty
  <2> QED BY <2>1 DEF IdsMatch, StateInv, MapInv, Equipped, Drawing
<1> QED BY <1>1, <1>2, PTL

-----------------------------------------------------------------------------
(* Owners *)

Constants == {Buffer(id) : id \in BufferIds}
Textured == IF Desktop THEN {TextureImage, TextureMemory} ELSE {}
OfDevice == Constants \cup Textured \cup {DescriptorPool} \cup Members(Discarded \cup Templates \cup SetLayouts)

\* What is owned outside the discard pool, by the handler that comes next
OwnedAt ==
  IF at \in Drawing THEN OfDevice \cup {Depth, DepthView, Framebuffers}
  ELSE IF at \in Equipped THEN OfDevice
  ELSE IF at = "setLayouts" THEN {TextureImage, TextureMemory, DescriptorPool} \cup Members(SetLayouts)
  ELSE IF at \in {"discardPool", "device", "done"} THEN {}
  ELSE {DescriptorPool}

(* The objects in the values of a map.                                     *)
LEMMA Ranges ==
  /\ Range(Empty) = {}
  /\ \A id, x : Range(Entry(id, x)) = {x}
  /\ Range([id \in BufferIds |-> Buffer(id)]) = Constants
BY DEF Range, Empty, Entry, Constants

(* The objects in each map, and the targets.                               *)
LEMMA MapContents ==
  ASSUME StateInv
  PROVE  /\ Range(buffers) = IF at \in Equipped THEN Constants ELSE {}
         /\ Range(images) = IF at \in Drawing THEN {Depth} ELSE {}
         /\ {textures[id].image : id \in DOMAIN textures}
              = IF Desktop /\ at \in Equipped \cup {"setLayouts"} THEN {TextureImage} ELSE {}
         /\ Range(allocations) = IF Desktop /\ at \in Equipped \cup {"setLayouts"} THEN {TextureMemory} ELSE {}
         /\ targets.members = IF at \in Drawing THEN {DepthView, Framebuffers} ELSE {}
<1>1. Range(buffers) = IF at \in Equipped THEN Constants ELSE {}
  BY Ranges DEF StateInv, MapInv
<1>2. Range(images) = IF at \in Drawing THEN {Depth} ELSE {}
  BY Ranges DEF StateInv, MapInv
<1>3. /\ {textures[id].image : id \in DOMAIN textures}
           = IF Desktop /\ at \in Equipped \cup {"setLayouts"} THEN {TextureImage} ELSE {}
      /\ Range(allocations) = IF Desktop /\ at \in Equipped \cup {"setLayouts"} THEN {TextureMemory} ELSE {}
  <2>1. CASE Desktop /\ at \in Equipped \cup {"setLayouts"}
    <3>1. /\ textures = Entry("Tex", [image |-> TextureImage, allocationId |-> 2])
          /\ allocations = Entry(2, TextureMemory)
      BY <2>1 DEF StateInv, MapInv
    <3>2. textures["Tex"].image = TextureImage /\ DOMAIN textures = {"Tex"}
      BY <3>1 DEF Entry
    <3> QED BY <2>1, <3>1, <3>2, Ranges
  <2>2. CASE ~(Desktop /\ at \in Equipped \cup {"setLayouts"})
    <3>1. textures = Empty /\ allocations = Empty
      BY <2>2 DEF StateInv, MapInv
    <3>2. DOMAIN textures = {}
      BY <3>1 DEF Empty
    <3> QED BY <2>2, <3>1, <3>2, Ranges
  <2> QED BY <2>1, <2>2
<1>4. targets.members = IF at \in Drawing THEN {DepthView, Framebuffers} ELSE {}
  BY DEF StateInv, MapInv, NoTargets
<1> QED BY <1>1, <1>2, <1>3, <1>4

(* All of them together.                                                   *)
LEMMA OwnedIs ==
  ASSUME StateInv
  PROVE  Owned = OwnedAt
<1>1. at = "setLayouts" => Desktop
  BY DEF StateInv, FlowInv, ControlInv
<1>2. Drawing \subseteq Equipped /\ "setLayouts" \notin Equipped
      /\ Equipped \cap {"discardPool", "device", "done"} = {}
  BY DEF Drawing, Equipped
<1>3. members = (IF at \in {"discardPool", "device", "done"} THEN {} ELSE {DescriptorPool})
            \cup (IF at \in Equipped THEN Members(Discarded \cup Templates \cup SetLayouts)
                  ELSE IF at = "setLayouts" THEN Members(SetLayouts) ELSE {})
            \cup targets.members
  BY DEF StateInv, MemberInv
<1>4. CASE at \in Equipped
  BY MapContents, <1>2, <1>3, <1>4 DEF Owned, OwnedAt, OfDevice, Textured
<1>5. CASE at \notin Equipped
  BY MapContents, <1>1, <1>2, <1>3, <1>5 DEF Owned, OwnedAt
<1> QED BY <1>4, <1>5

(* Objects of different kinds, or of different names, are different.       *)
LEMMA KindsApart ==
  /\ Constants \cap (Discarded \cup Templates \cup SetLayouts) = {}
  /\ Discarded \cap (Templates \cup SetLayouts) = {} /\ Templates \cap SetLayouts = {}
  /\ {TextureImage, TextureMemory, DescriptorPool, Loader, TextureView}
       \cap (Constants \cup Discarded \cup Templates \cup SetLayouts) = {}
  /\ TextureImage # TextureMemory
  /\ DescriptorPool \notin {TextureImage, TextureMemory, Loader, TextureView}
  /\ Loader \notin {TextureImage, TextureMemory, TextureView}
  /\ TextureView \notin {TextureImage, TextureMemory}
<1> USE DEF Constants, Buffer, Discarded, Templates, SetLayouts, Named, Sampler, TextureImage, TextureMemory,
            DescriptorPool, Loader, TextureView
<1>1. Constants \cap (Discarded \cup Templates \cup SetLayouts) = {}
  OBVIOUS
<1>2. Discarded \cap (Templates \cup SetLayouts) = {} /\ Templates \cap SetLayouts = {}
  OBVIOUS
<1>3. {TextureImage, TextureMemory, DescriptorPool, Loader, TextureView}
       \cap (Constants \cup Discarded \cup Templates \cup SetLayouts) = {}
  OBVIOUS
<1>4. /\ TextureImage # TextureMemory
      /\ DescriptorPool \notin {TextureImage, TextureMemory, Loader, TextureView}
      /\ Loader \notin {TextureImage, TextureMemory, TextureView}
      /\ TextureView \notin {TextureImage, TextureMemory}
  OBVIOUS
<1> QED BY <1>1, <1>2, <1>3, <1>4

(* What createVulkanResources makes differs from all else.                 *)
LEMMA TargetsApart ==
  /\ {Depth, DepthView, Framebuffers} \cap OfDevice = {}
  /\ Depth # DepthView /\ Depth # Framebuffers
  /\ \A o \in OfDevice : o[1] # "staging" /\ ~OfGeneration(o)
<1>1. \A o \in OfDevice : o[1] # "staging" /\ o[2] # "depth" /\ o[1] # "framebuffer"
  <2> SUFFICES ASSUME NEW o \in OfDevice PROVE o[1] # "staging" /\ o[2] # "depth" /\ o[1] # "framebuffer"
    OBVIOUS
  <2>1. CASE o \in Constants
    BY <2>1 DEF Constants, Buffer, BufferIds
  <2>2. CASE o \in Textured \cup {DescriptorPool, Loader, TextureView}
    BY <2>2 DEF Textured, TextureImage, TextureMemory, DescriptorPool, Loader, TextureView
  <2>3. CASE o \in Discarded \cup Templates \cup SetLayouts
    BY <2>3 DEF Discarded, Templates, SetLayouts, Named, Sampler, Sets
  <2> QED BY <2>1, <2>2, <2>3 DEF OfDevice, Members
<1>2. Depth[2] = "depth" /\ DepthView[2] = "depth" /\ Framebuffers[1] = "framebuffer" /\ Depth[1] # Framebuffers[1]
      /\ Depth[1] # DepthView[1]
  BY DEF Depth, DepthView, Framebuffers
<1>3. \A o : OfGeneration(o) => o[2] = "depth" \/ o[1] = "framebuffer"
  BY DEF OfGeneration
<1>4. Depth # Framebuffers /\ Depth # DepthView
  BY <1>2
<1> HIDE DEF OfDevice
<1> QED BY <1>1, <1>2, <1>3, <1>4

\* What the owners of the objects depend on.
OwnerInv == StateInv /\ WaitInv /\ ObjectInv

(* What waits in the discard pool is nobody else's.                        *)
LEMMA WaitingApart ==
  ASSUME StateInv, WaitInv
  PROVE  Owned \cap waiting = {}
<1> SUFFICES ASSUME NEW o \in waiting, o \in OwnedAt PROVE FALSE
  BY OwnedIs
<1>1. \/ o[1] = "staging" \/ OfGeneration(o)
      \/ at \in {"sweep", "managers", "discardPool"} /\ o[1] # "descriptorPool"
  BY DEF WaitInv
<1>2. CASE at \in {"sweep", "managers", "discardPool"}
  <2>1. o = DescriptorPool
    BY <1>2 DEF OwnedAt, Drawing, Equipped
  <2>2. o[1] = "descriptorPool" /\ o[2] = "active"
    BY <2>1 DEF DescriptorPool
  <2>3. ~OfGeneration(o)
    BY <2>2 DEF OfGeneration
  <2> QED BY <1>1, <2>2, <2>3
<1>3. CASE o \in OfDevice
  BY <1>1, <1>2, <1>3, TargetsApart
<1>4. CASE at \in Drawing /\ o \in {Depth, DepthView, Framebuffers}
  <2>1. o[1] # "staging" /\ o[3] = generations
    BY <1>4 DEF Depth, DepthView, Framebuffers
  <2>2. PICK g \in 1 .. generations :
          /\ o \in {<<"image", "depth", g>>, <<"imageView", "depth", g>>, <<"framebuffer", "all", g>>}
          /\ g < generations
    BY <1>1, <1>2, <1>4, <2>1 DEF OfGeneration
  <2>3. generations \in Nat
    BY DEF StateInv, FlowInv, PoolInv, PassInv
  <2> QED BY <2>1, <2>2, <2>3
<1>5. DescriptorPool \in OfDevice
  BY DEF OfDevice
<1>6. at = "setLayouts" =>
        {TextureImage, TextureMemory, DescriptorPool} \cup Members(SetLayouts) \subseteq OfDevice
  BY DEF OfDevice, Textured, StateInv, FlowInv, ControlInv, Members
<1> QED BY <1>2, <1>3, <1>4, <1>5, <1>6 DEF OwnedAt

(* What was made for an earlier generation remains so.                     *)
LEMMA GenerationsPass ==
  ASSUME StateInv, NEW o, OfGeneration(o), generations \in Nat, generations' \in Nat,
         generations' >= generations,
         at' \in Drawing \/ (at' = "create" /\ phase' # "create") =>
           at \in Drawing \/ (at = "create" /\ phase # "create") \/ generations' > generations
  PROVE  OfGeneration(o)'
<1>1. PICK g \in 1 .. generations :
        /\ o \in {<<"image", "depth", g>>, <<"imageView", "depth", g>>, <<"framebuffer", "all", g>>}
        /\ at \in Drawing \/ (at = "create" /\ phase # "create") => g < generations
  BY DEF OfGeneration
<1>2. at' \in Drawing \/ (at' = "create" /\ phase' # "create") => g < generations'
  BY <1>1
<1>3. g \in 1 .. generations'
  BY <1>1
<1> QED BY <1>1, <1>2, <1>3 DEF OfGeneration, Drawing

(* The present targets, once there are no longer frames that use them.     *)
LEMMA TargetsOld ==
  ASSUME StateInv, at \in Drawing, at' \notin Drawing, at' = "create" => phase' = "create",
         UNCHANGED generations
  PROVE  \A o \in {Depth, DepthView, Framebuffers} : OfGeneration(o)'
<1>1. generations \in Nat /\ generations > 0
  <2>1. renderPass # Null /\ renderPass \in RenderPasses
    BY DEF StateInv, FlowInv, PhaseInv, PoolInv, PassInv
  <2>2. passes[renderPass] \in 0 .. generations /\ passes[renderPass] # 0
    BY <2>1 DEF StateInv, FlowInv, PoolInv, PassInv
  <2>3. generations \in Nat
    BY DEF StateInv, FlowInv, PoolInv, PassInv
  <2> QED BY <2>2, <2>3
<1>2. generations' \in 1 .. generations'
  BY <1>1
<1> QED BY <1>2 DEF OfGeneration, Depth, DepthView, Framebuffers

(* Render passes are only added.                                           *)
LEMMA GenerationsGrow ==
  ASSUME StateInv, [AppNext]_allVars
  PROVE  /\ generations \in Nat /\ generations' \in Nat /\ generations' >= generations
         /\ at' \in Drawing \/ (at' = "create" /\ phase' # "create") =>
              at \in Drawing \/ (at = "create" /\ phase # "create") \/ generations' > generations
<1>1. generations \in Nat
  BY DEF StateInv, FlowInv, PoolInv, PassInv
<1>2. generations' = generations \/ generations' = generations + 1
  <2>1. PoolNext => generations' = generations \/ generations' = generations + 1
    BY DEF PoolNext, CreateRenderPass, CreateMain, CreateSkybox, CreateOnly, CreateOther, Cleanup, Sweep,
       DestroyAllPipelines, CreatePool, GetOrCreateGraphicsPipeline, GetOrCreateComputePipeline
  <2>2. UNCHANGED poolVars => generations' = generations
    BY DEF poolVars
  <2>3. UNCHANGED allVars => UNCHANGED poolVars
    BY DEF allVars
  <2> QED BY <2>1, <2>2, <2>3, AppIsPool
<1>3. \/ at' \in Drawing => at \in Drawing \/ (at = "create" /\ phase = "ready")
      \/ at' \notin Drawing
  <2>1. CASE AppNext
    BY <2>1 DEF AppNext, CreateConstantDesktop, CreateConstantAndroid, CreateConstants, CreatePipelines, ownVars,
       CreateTargets, Record, Submit, Present, OnFrame, UseOther, OnResize, SurfaceLost, Recreate, DeviceLost,
       Destruct, DestroyConstantAndroid, DestroyConstantDesktop, DestroySetLayouts, ForcedSweep,
       DestroyManagers, DestroyDevice, CreateDevice, Terminated, allVars, Drawing
  <2>2. CASE UNCHANGED allVars
    BY <2>2 DEF allVars, ownVars
  <2> QED BY <2>1, <2>2
<1>4. at' = "create" /\ phase' # "create" =>
        (at = "create" /\ phase # "create") \/ generations' > generations
  <2> SUFFICES ASSUME at' = "create", phase' # "create"
               PROVE  (at = "create" /\ phase # "create") \/ generations' > generations
    OBVIOUS
  <2>1. CASE CreatePipelines
    BY <1>1, <2>1 DEF CreatePipelines, ownVars, CreateRenderPass, CreateMain, CreateSkybox, CreateOnly
  <2>2. CASE CreateConstantDesktop \/ CreateConstantAndroid
    BY <2>2 DEF CreateConstantDesktop, CreateConstantAndroid, CreateConstants, StateInv, FlowInv,
       PhaseInv, poolVars
  <2>3. CASE OnResize \/ SurfaceLost
    BY <2>3 DEF OnResize, SurfaceLost, Recreate, CleanUp, Cleanup
  <2>4. CASE UNCHANGED allVars
    BY <2>4 DEF allVars, ownVars, poolVars
  <2>5. at' = "create" =>
          \/ CreatePipelines \/ CreateConstantDesktop \/ CreateConstantAndroid
          \/ OnResize \/ SurfaceLost \/ UNCHANGED allVars
    BY DEF AppNext, CreateTargets, Record, Submit, Present, OnFrame, UseOther, ownVars, DeviceLost, Destruct,
       DestroyConstantAndroid, DestroyConstantDesktop, DestroySetLayouts, ForcedSweep,
       DestroyManagers, DestroyDevice, CreateDevice, Terminated
  <2> QED BY <2>1, <2>2, <2>3, <2>4, <2>5
<1> QED BY <1>1, <1>2, <1>3, <1>4

\* What may be put into the discard pool.
Discardable(o) ==
  \/ o[1] = "staging" \/ OfGeneration(o)
  \/ at \in {"sweep", "managers", "discardPool"} /\ o[1] # "descriptorPool"

(* The discard pool through each handler.                                  *)
LEMMA WaitStep ==
  ASSUME StateInv, StateInv', WaitInv, [AppNext]_allVars
  PROVE  WaitInv'
<1> DEFINE Ok == /\ \A o \in waiting' \ waiting : Discardable(o)'
                 /\ at \in {"sweep", "managers", "discardPool"} =>
                      at' \in {"sweep", "managers", "discardPool"} \/ waiting' = {}
                 /\ at' \in {"constant", "device", "done"} => waiting' = {} /\ discarded' = {}
<1>1. Ok
  <2>1. CASE CreateConstantDesktop \/ CreateConstantAndroid \/ CreateTargets \/ Submit \/ Present
    <3>1. /\ waiting' = waiting /\ at \notin {"sweep", "managers", "discardPool"}
          /\ at' \notin {"constant", "device", "done"}
      BY <2>1 DEF CreateConstantDesktop, CreateConstantAndroid, CreateConstants, CreateTargets, Submit, Present
    <3> QED BY <3>1
  <2>2. CASE CreatePipelines \/ UseOther
    <3>1. waiting' = waiting /\ at' = at /\ at \in {"create", "loop"}
      BY <2>2 DEF CreatePipelines, UseOther, ownVars
    <3> QED BY <3>1
  <2>3. CASE Record
    <3>1. /\ at = "loop" /\ at' = "submit"
          /\ waiting' = waiting \/ waiting' = waiting \cup {Staging(id) : id \in Staged}
      BY <2>3 DEF Record
    <3>2. \A o \in {Staging(id) : id \in Staged} : Discardable(o)'
      BY DEF Staging, Discardable
    <3> QED BY <3>1, <3>2
  <2>4. CASE OnFrame \/ DestroyDevice \/ DestroyConstantDesktop \/ ForcedSweep
    <3>1. waiting' = {} /\ discarded' = {}
      BY <2>4 DEF OnFrame, DestroyDevice, DestroyConstantDesktop, ForcedSweep, SweepAll, Sweep
    <3> QED BY <3>1
  <2>5. CASE OnResize \/ SurfaceLost \/ DeviceLost \/ Destruct
    <3>1. /\ at \in Drawing /\ at' \in {"create", "destroyConstant"} /\ phase' = "create" /\ UNCHANGED generations
          /\ waiting' = waiting \cup targets.members \cup {images["depth"]}
      BY <2>5 DEF OnResize, SurfaceLost, Recreate, DeviceLost, Destruct, CleanUp, Cleanup, Drawing
    <3>2. targets.members = {DepthView, Framebuffers} /\ images["depth"] = Depth
      <4>1. images = Entry("depth", Depth) /\ targets.members = {DepthView, Framebuffers}
        BY <3>1 DEF StateInv, MapInv
      <4> QED BY <4>1 DEF Entry
    <3>3. \A o \in {Depth, DepthView, Framebuffers} : OfGeneration(o)'
      BY <3>1, TargetsOld DEF Drawing
    <3>4. \A o \in {Depth, DepthView, Framebuffers} : Discardable(o)'
      BY <3>3 DEF Discardable
    <3> QED BY <3>1, <3>2, <3>4 DEF Drawing
  <2>6. CASE DestroyConstantAndroid
    <3>1. at = "destroyConstant" /\ at' \in {"sweep", "managers"} /\ waiting' = waiting \cup DiscardedConstants
      BY <2>6 DEF DestroyConstantAndroid
    <3>2. DiscardedConstants = Discarded \cup Constants
      BY <3>1 DEF DiscardedConstants, ConstantBuffers, Constants, StateInv, MapInv, Equipped
    <3>3. \A o \in Discarded \cup Constants : o[1] # "descriptorPool"
      BY DEF Discarded, Named, Constants, Buffer
    <3>4. \A o \in Discarded \cup Constants : Discardable(o)'
      BY <3>1, <3>3 DEF Discardable
    <3> QED BY <3>1, <3>2, <3>4
  <2>7. CASE DestroySetLayouts
    <3>1. at = "setLayouts" /\ at' = "sweep" /\ waiting' = waiting \cup DiscardedTexture(textures["Tex"])
      BY <2>7 DEF DestroySetLayouts
    <3>2. DiscardedTexture(textures["Tex"]) = {TextureView, TextureImage, TextureMemory}
      <4>1. /\ textures = Entry("Tex", [image |-> TextureImage, allocationId |-> 2])
            /\ allocations = Entry(2, TextureMemory)
        BY <3>1 DEF StateInv, MapInv, FlowInv, ControlInv
      <4>2. textures["Tex"] = [image |-> TextureImage, allocationId |-> 2] /\ allocations[2] = TextureMemory
        BY <4>1 DEF Entry
      <4> QED BY <4>2 DEF DiscardedTexture
    <3>3. \A o \in {TextureView, TextureImage, TextureMemory} : o[1] # "descriptorPool"
      BY DEF TextureView, TextureImage, TextureMemory
    <3>4. \A o \in {TextureView, TextureImage, TextureMemory} : Discardable(o)'
      BY <3>1, <3>3 DEF Discardable
    <3> QED BY <3>1, <3>2, <3>4
  <2>8. CASE DestroyManagers
    BY <2>8 DEF DestroyManagers
  <2>9. CASE CreateDevice
    BY <2>9 DEF CreateDevice, CreatePool, WaitInv
  <2>10. CASE Terminated \/ UNCHANGED allVars
    <3>1. waiting' = waiting /\ discarded' = discarded /\ at' = at
      BY <2>10 DEF Terminated, allVars, ownVars, poolVars
    <3> QED BY <3>1 DEF WaitInv
  <2> QED BY <2>1, <2>2, <2>3, <2>4, <2>5, <2>6, <2>7, <2>8, <2>9, <2>10 DEF AppNext
<1>2. \A o : OfGeneration(o) => OfGeneration(o)'
  BY GenerationsGrow, GenerationsPass
<1>3. \A o \in waiting' : Discardable(o)'
  <2> SUFFICES ASSUME NEW o \in waiting', o \in waiting PROVE Discardable(o)'
    BY <1>1
  <2>1. waiting' # {}
    OBVIOUS
  <2>2. CASE at \in {"sweep", "managers", "discardPool"} /\ o[1] # "descriptorPool"
    BY <1>1, <2>1, <2>2 DEF Discardable
  <2>3. CASE o[1] = "staging" \/ OfGeneration(o)
    BY <1>2, <2>3 DEF Discardable
  <2> QED BY <2>2, <2>3 DEF WaitInv
<1> QED BY <1>1, <1>3 DEF WaitInv, Discardable

(* The objects and their owners through each handler.                      *)
LEMMA OwnersStep ==
  ASSUME OwnerInv, StateInv', WaitInv', [AppNext]_allVars
  PROVE  objects' = Owned' \cup waiting'
<1>1. objects = Owned \cup waiting /\ Owned \cap waiting = {} /\ Owned = OwnedAt
  BY OwnedIs DEF OwnerInv, ObjectInv
<1>2. Owned' = OwnedAt'
  <2>1. (StateInv => Owned = OwnedAt)'
    BY OwnedIs, PTL
  <2> QED BY <2>1
<1>3. device' = device /\ app' = app => /\ Constants' = Constants /\ Textured' = Textured /\ OfDevice' = OfDevice
  <2> SUFFICES ASSUME device' = device, app' = app
               PROVE  Constants' = Constants /\ Textured' = Textured /\ OfDevice' = OfDevice
    OBVIOUS
  <2>1. Constants' = Constants
    BY DEF Constants, BufferIds, Buffer, Desktop
  <2>2. Textured' = Textured
    BY SameNames DEF Textured
  <2> QED BY <2>1, <2>2, SameNames DEF OfDevice
<1> DEFINE All == Discarded \cup Templates \cup SetLayouts
<1>4. CASE CreateConstantDesktop
  <2>1. /\ at = "constant" /\ Desktop /\ at' = "create" /\ UNCHANGED <<app, device, waiting>>
        /\ objects' = objects \cup All \cup {Loader, TextureView} \cup Range(buffers')
                              \cup {TextureImage, TextureMemory}
    BY <1>4 DEF CreateConstantDesktop, CreateConstants
  <2>2. Range(buffers') = Constants
    <3>1. buffers' = [id \in BufferIds |-> Buffer(id)]'
      BY <2>1 DEF StateInv, MapInv, Equipped
    <3> QED BY <2>1, <3>1, SameNames, Ranges
  <2>3. Owned = {DescriptorPool} /\ Owned' = OfDevice
    BY <1>1, <1>2, <1>3, <2>1 DEF OwnedAt, Drawing, Equipped
  <2>4. OfDevice = Constants \cup {TextureImage, TextureMemory, DescriptorPool} \cup All \cup {Loader, TextureView}
    BY <2>1 DEF OfDevice, Textured, Members
  <2> HIDE DEF All
  <2> QED BY <1>1, <2>1, <2>2, <2>3, <2>4
<1>5. CASE CreateConstantAndroid
  <2>1. /\ at = "constant" /\ ~Desktop /\ at' = "create" /\ UNCHANGED <<app, device, waiting>>
        /\ objects' = objects \cup All \cup Range(buffers')
    BY <1>5 DEF CreateConstantAndroid, CreateConstants
  <2>2. Range(buffers') = Constants
    <3>1. buffers' = [id \in BufferIds |-> Buffer(id)]'
      BY <2>1 DEF StateInv, MapInv, Equipped
    <3> QED BY <2>1, <3>1, SameNames, Ranges
  <2>3. Owned = {DescriptorPool} /\ Owned' = OfDevice
    BY <1>1, <1>2, <1>3, <2>1 DEF OwnedAt, Drawing, Equipped
  <2>4. OfDevice = Constants \cup {DescriptorPool} \cup All
    BY <2>1 DEF OfDevice, Textured, Members
  <2> HIDE DEF All
  <2> QED BY <1>1, <2>1, <2>2, <2>3, <2>4
<1>6. CASE CreatePipelines \/ UseOther \/ Submit \/ Present \/ Terminated \/ UNCHANGED allVars
  <2>1. UNCHANGED <<objects, waiting, buffers, images, textures, allocations, members>>
    BY <1>6 DEF CreatePipelines, UseOther, Submit, Present, Terminated, ownVars, allVars, managerVars
  <2>2. Owned' = Owned
    BY <2>1 DEF Owned
  <2> QED BY <1>1, <2>1, <2>2
<1>7. CASE CreateTargets
  <2>1. /\ at = "create" /\ at' = "loop" /\ UNCHANGED <<app, device, waiting, generations>>
        /\ objects' = objects \cup {Depth, DepthView, Framebuffers}
    BY <1>7 DEF CreateTargets, poolVars
  <2>2. Owned = OfDevice /\ Owned' = OfDevice \cup {Depth, DepthView, Framebuffers}
    BY <1>1, <1>2, <1>3, <2>1 DEF OwnedAt, Drawing, Equipped, Depth, DepthView, Framebuffers
  <2> QED BY <1>1, <2>1, <2>2
<1>8. CASE Record
  <2>1. /\ UNCHANGED <<buffers, images, textures, allocations, members>>
        /\ \/ UNCHANGED <<objects, waiting>>
           \/ \E staging : objects' = objects \cup staging /\ waiting' = waiting \cup staging
    BY <1>8 DEF Record, managerVars
  <2>2. Owned' = Owned
    BY <2>1 DEF Owned
  <2> QED BY <1>1, <2>1, <2>2
<1>9. CASE OnFrame \/ ForcedSweep \/ DestroyDevice
  <2>1. /\ UNCHANGED <<buffers, images, textures, allocations, members>>
        /\ objects' = objects \ waiting /\ waiting' = {}
    BY <1>9 DEF OnFrame, ForcedSweep, DestroyDevice, SweepAll, managerVars
  <2>2. Owned' = Owned
    BY <2>1 DEF Owned
  <2> QED BY <1>1, <2>1, <2>2
<1>10. CASE OnResize \/ SurfaceLost \/ DeviceLost \/ Destruct
  <2>1. /\ at \in Drawing /\ at' \in {"create", "destroyConstant"} /\ UNCHANGED <<app, device, objects>>
        /\ waiting' = waiting \cup targets.members \cup {images["depth"]}
    BY <1>10 DEF OnResize, SurfaceLost, Recreate, DeviceLost, Destruct, CleanUp, Drawing
  <2>2. targets.members = {DepthView, Framebuffers} /\ images["depth"] = Depth
    <3>1. images = Entry("depth", Depth) /\ targets.members = {DepthView, Framebuffers}
      BY <2>1 DEF OwnerInv, StateInv, MapInv
    <3> QED BY <3>1 DEF Entry
  <2>3. Owned = OfDevice \cup {Depth, DepthView, Framebuffers} /\ Owned' = OfDevice
    BY <1>1, <1>2, <1>3, <2>1 DEF OwnedAt, Drawing, Equipped
  <2> QED BY <1>1, <2>1, <2>2, <2>3
<1>11. CASE DestroyConstantAndroid
  <2>1. /\ at = "destroyConstant" /\ ~Desktop /\ at' \in {"sweep", "managers"} /\ UNCHANGED <<app, device>>
        /\ objects' = objects \ (Templates \cup SetLayouts) /\ waiting' = waiting \cup DiscardedConstants
    BY <1>11 DEF DestroyConstantAndroid
  <2>2. DiscardedConstants = Discarded \cup Constants
    BY <2>1 DEF DiscardedConstants, ConstantBuffers, Constants, OwnerInv, StateInv, MapInv, Equipped
  <2>3. Owned = OfDevice /\ Owned' = {DescriptorPool}
    <3>1. Owned = OfDevice
      BY <1>1, <2>1 DEF OwnedAt, Drawing, Equipped
    <3>2. Owned' = {DescriptorPool}
      BY <1>2, <2>1, SameNames DEF OwnedAt, Drawing, Equipped
    <3> QED BY <3>1, <3>2
  <2>4. OfDevice = Constants \cup {DescriptorPool} \cup Discarded \cup Templates \cup SetLayouts
    BY <2>1 DEF OfDevice, Textured, Members
  <2>5. (Constants \cup {DescriptorPool} \cup Discarded) \cap (Templates \cup SetLayouts) = {}
    BY KindsApart
  <2> QED BY <1>1, <2>1, <2>2, <2>3, <2>4, <2>5
<1>12. CASE DestroyConstantDesktop
  <2>1. /\ at = "destroyConstant" /\ Desktop /\ at' = "setLayouts" /\ UNCHANGED <<app, device>>
        /\ objects' = objects \ (waiting \cup DiscardedConstants \cup Templates) /\ waiting' = {}
    BY <1>12 DEF DestroyConstantDesktop
  <2>2. DiscardedConstants = Discarded \cup Constants
    BY <2>1 DEF DiscardedConstants, ConstantBuffers, Constants, OwnerInv, StateInv, MapInv, Equipped
  <2>3. Owned = OfDevice
    BY <1>1, <2>1 DEF OwnedAt, Drawing, Equipped
  <2>4. Owned' = {TextureImage, TextureMemory, DescriptorPool} \cup SetLayouts \cup {Loader, TextureView}
    <3>1. Owned' = ({TextureImage, TextureMemory, DescriptorPool} \cup Members(SetLayouts))'
      BY <1>2, <2>1 DEF OwnedAt, Drawing, Equipped
    <3>2. Owned' = {TextureImage, TextureMemory, DescriptorPool} \cup Members(SetLayouts)
      BY <2>1, <3>1, SameNames
    <3> QED BY <2>1, <3>2 DEF Members
  <2>5. OfDevice = Constants \cup {TextureImage, TextureMemory, DescriptorPool} \cup All \cup {Loader, TextureView}
    BY <2>1 DEF OfDevice, Textured, Members
  <2>6. ({TextureImage, TextureMemory, DescriptorPool, Loader, TextureView} \cup SetLayouts)
          \cap (Discarded \cup Constants \cup Templates) = {}
    BY KindsApart
  <2> QED BY <1>1, <2>1, <2>2, <2>3, <2>4, <2>5, <2>6
<1>13. CASE DestroySetLayouts
  <2>1. /\ at = "setLayouts" /\ Desktop /\ at' = "sweep" /\ UNCHANGED <<app, device>>
        /\ textures' = Empty /\ allocations' = Empty
        /\ waiting' = waiting \cup DiscardedTexture(textures["Tex"])
        /\ objects' = objects \ (SetLayouts \cup LoaderCleanup(textures', allocations'))
    <3>1. at = "setLayouts" /\ Desktop /\ at' = "sweep" /\ UNCHANGED <<app, device>>
      BY <1>13 DEF DestroySetLayouts, OwnerInv, StateInv, FlowInv, ControlInv
    <3>2. textures' = Empty /\ allocations' = Empty
      BY <3>1 DEF StateInv, MapInv, Equipped
    <3> QED BY <1>13, <3>1, <3>2 DEF DestroySetLayouts
  <2>2. DiscardedTexture(textures["Tex"]) = {TextureView, TextureImage, TextureMemory}
    <3>1. /\ textures = Entry("Tex", [image |-> TextureImage, allocationId |-> 2])
          /\ allocations = Entry(2, TextureMemory)
      BY <2>1 DEF OwnerInv, StateInv, MapInv
    <3>2. textures["Tex"] = [image |-> TextureImage, allocationId |-> 2] /\ allocations[2] = TextureMemory
      BY <3>1 DEF Entry
    <3> QED BY <3>2 DEF DiscardedTexture
  <2>3. LoaderCleanup(textures', allocations') = {Loader}
    <3>1. DOMAIN textures' = {} /\ Range(allocations') = {}
      BY <2>1, Ranges DEF Empty
    <3> QED BY <3>1 DEF LoaderCleanup
  <2>4. Owned = {TextureImage, TextureMemory, DescriptorPool} \cup SetLayouts \cup {Loader, TextureView}
    BY <1>1, <2>1 DEF OwnedAt, Drawing, Equipped, Members
  <2>5. Owned' = {DescriptorPool}
    BY <1>2, <2>1, SameNames DEF OwnedAt, Drawing, Equipped
  <2>6. {TextureImage, TextureMemory, DescriptorPool, TextureView} \cap (SetLayouts \cup {Loader}) = {}
    BY KindsApart
  <2> QED BY <1>1, <2>1, <2>2, <2>3, <2>4, <2>5, <2>6
<1>14. CASE DestroyManagers
  <2>1. at = "managers" /\ at' = "discardPool" /\ objects' = objects \ {DescriptorPool} /\ waiting' = waiting
    BY <1>14 DEF DestroyManagers
  <2>2. Owned = {DescriptorPool} /\ Owned' = {}
    BY <1>1, <1>2, <2>1 DEF OwnedAt, Drawing, Equipped
  <2> QED BY <1>1, <2>1, <2>2
<1>15. CASE CreateDevice
  <2>1. at = "device" /\ at' = "constant" /\ objects' = objects \cup {DescriptorPool'} /\ waiting' = waiting
    BY <1>15 DEF CreateDevice
  <2>2. Owned = {} /\ Owned' = {DescriptorPool'}
    BY <1>1, <1>2, <2>1 DEF OwnedAt, Drawing, Equipped
  <2> QED BY <1>1, <2>1, <2>2
<1> QED
  BY <1>4, <1>5, <1>6, <1>7, <1>8, <1>9, <1>10, <1>11, <1>12, <1>13, <1>14, <1>15 DEF AppNext

(* Together.                                                               *)
LEMMA OwnerStep ==
  ASSUME OwnerInv, [AppNext]_allVars
  PROVE  OwnerInv'
<1>1. StateInv'
  BY StateStep DEF OwnerInv
<1>2. WaitInv'
  BY <1>1, WaitStep DEF OwnerInv
<1>3. objects' = Owned' \cup waiting'
  BY <1>1, <1>2, OwnersStep
<1>4. (StateInv /\ WaitInv => Owned \cap waiting = {})'
  BY WaitingApart, PTL
<1> QED BY <1>1, <1>2, <1>3, <1>4 DEF OwnerInv, ObjectInv

(* In the beginning.                                                       *)
LEMMA InitOwner ==
  ASSUME AppInit
  PROVE  OwnerInv
<1>1. StateInv
  BY InitState
<1>2. at = "constant" /\ waiting = {} /\ discarded = {} /\ objects = {DescriptorPool}
  BY DEF AppInit, PoolInit
<1>3. WaitInv
  BY <1>2 DEF WaitInv
<1>4. Owned = {DescriptorPool}
  BY <1>1, <1>2, OwnedIs DEF OwnedAt, Drawing, Equipped
<1> QED BY <1>1, <1>2, <1>3, <1>4 DEF OwnerInv, ObjectInv

(* No two owners have the same object.                                     *)
LEMMA OwnersApart ==
  ASSUME StateInv, WaitInv
  PROVE  \A i, j \in 1 .. 6 : i # j => Owners[i] \cap Owners[j] = {}
<1>1. /\ Owners[1] = Range(buffers) /\ Owners[2] = Range(images)
      /\ Owners[3] = {textures[id].image : id \in DOMAIN textures}
      /\ Owners[4] = Range(allocations) /\ Owners[5] = members /\ Owners[6] = waiting
  BY DEF Owners
<1>2. /\ \A o \in Owners[1] : o[1] = "buffer"
      /\ \A o \in Owners[2] : o[1] = "image" /\ o[2] = "depth"
      /\ \A o \in Owners[3] : o[1] = "image" /\ o[2] = "Tex"
      /\ \A o \in Owners[4] : o[1] = "memory"
  <2>1. \A o \in Constants : o[1] = "buffer"
    BY DEF Constants, Buffer
  <2>2. Depth[1] = "image" /\ Depth[2] = "depth" /\ TextureImage[1] = "image" /\ TextureImage[2] = "Tex"
        /\ TextureMemory[1] = "memory"
    BY DEF Depth, TextureImage, TextureMemory
  <2> QED BY <1>1, <2>1, <2>2, MapContents
<1>3. \A o \in Owners[5] : o[1] \notin {"buffer", "image", "memory"}
  <2>1. members \subseteq {DescriptorPool, Loader, TextureView, DepthView, Framebuffers}
                            \cup Discarded \cup Templates \cup SetLayouts
    BY MapContents DEF StateInv, MemberInv, Members
  <2>2. \A o \in {DescriptorPool, Loader, TextureView, DepthView, Framebuffers} :
          o[1] \notin {"buffer", "image", "memory"}
    BY DEF DescriptorPool, Loader, TextureView, DepthView, Framebuffers
  <2>3. \A o \in Discarded \cup Templates \cup SetLayouts : o[1] \notin {"buffer", "image", "memory"}
    BY DEF Discarded, Templates, SetLayouts, Named, Sampler
  <2> QED BY <1>1, <2>1, <2>2, <2>3
<1>4. Owned \cap waiting = {}
  BY WaitingApart
<1>5. Owned = Owners[1] \cup Owners[2] \cup Owners[3] \cup Owners[4] \cup Owners[5]
  BY <1>1 DEF Owned
<1> HIDE DEF Owners
<1>6. \A i \in 1 .. 6 : i = 1 \/ i = 2 \/ i = 3 \/ i = 4 \/ i = 5 \/ i = 6
  OBVIOUS
<1>7. \A i, j \in 1 .. 5 : i # j => Owners[i] \cap Owners[j] = {}
  BY <1>2, <1>3
<1>8. \A i \in 1 .. 5 : Owners[i] \cap Owners[6] = {}
  BY <1>1, <1>4, <1>5
<1> QED BY <1>7, <1>8

(* Every object of the device has exactly one owner, and nothing outlives  *)
(* the device.                                                             *)
THEOREM NothingIsLeft == AppSpec => []NothingLeft
<1>1. AppSpec => []OwnerInv
  BY InitOwner, OwnerStep, PTL DEF AppSpec
<1>2. OwnerInv => NothingLeft
  <2> SUFFICES ASSUME OwnerInv PROVE NothingLeft
    OBVIOUS
  <2> USE DEF OwnerInv
  <2>1. OwnedOnce
    BY OwnedByPool DEF StateInv, FlowInv
  <2>2. DOMAIN Owners = 1 .. 6 /\ (\A o : o \in Owned \cup waiting <=> \E i \in 1 .. 6 : o \in Owners[i])
    <3>1. /\ Owners[1] = Range(buffers) /\ Owners[2] = Range(images)
          /\ Owners[3] = {textures[id].image : id \in DOMAIN textures}
          /\ Owners[4] = Range(allocations) /\ Owners[5] = members /\ Owners[6] = waiting
          /\ DOMAIN Owners = 1 .. 6
      BY DEF Owners
    <3> HIDE DEF Owners
    <3> QED BY <3>1 DEF Owned
  <2>3. \A o \in objects : Cardinality({i \in DOMAIN Owners : o \in Owners[i]}) = 1
    <3> SUFFICES ASSUME NEW o \in objects PROVE Cardinality({i \in DOMAIN Owners : o \in Owners[i]}) = 1
      OBVIOUS
    <3>1. PICK i \in 1 .. 6 : o \in Owners[i]
      BY <2>2 DEF ObjectInv
    <3>2. {j \in DOMAIN Owners : o \in Owners[j]} = {i}
      BY <2>2, <3>1, OwnersApart
    <3> QED BY <3>2, FS_Singleton
  <2>4. \A i \in DOMAIN Owners : Owners[i] \subseteq objects
    BY <2>2 DEF ObjectInv
  <2>5. ASSUME at \in {"device", "done"}
        PROVE  objects = {} /\ \A h \in RenderPasses : passes[h] = 0
    <3>1. waiting = {} /\ discarded = {}
      BY <2>5 DEF WaitInv
    <3>2. objects = {}
      BY <2>5, <3>1, OwnedIs DEF ObjectInv, OwnedAt, Drawing, Equipped
    <3>3. renderPass = Null /\ \A h \in RenderPasses : h # Null
      BY <2>5, PipelinePoolAssumption DEF StateInv, FlowInv, PhaseInv, PoolInv, PassInv, Null
    <3>4. \A h \in RenderPasses : passes[h] = 0
      BY <3>1, <3>3 DEF StateInv, FlowInv, PoolInv, PassInv
    <3> QED BY <3>2, <3>4
  <2> QED BY <2>1, <2>3, <2>4, <2>5 DEF NothingLeft
<1> QED BY <1>1, <1>2, PTL

-----------------------------------------------------------------------------
(* Data *)

(* What there is to bind does not change while the buffers do not.         *)
LEMMA SameBinding ==
  ASSUME UNCHANGED <<app, device, buffers>>
  PROVE  /\ BufferIds' = BufferIds /\ Sets' = Sets /\ Desktop' = Desktop
         /\ Bound' = Bound /\ \A id : Buffer(id)' = Buffer(id)
BY SameNames DEF Buffer, Bound

(* The objects of the device stay bound and filled until they are          *)
(* destroyed.                                                              *)
LEMMA DataKept ==
  ASSUME StateInv, StateInv', DataInv,
         UNCHANGED <<app, device, timeline, sets, written, copied>>, lost' = lost \/ lost',
         at \in Equipped, at \in {"submit", "present"} \/ at' \notin {"submit", "present"}
  PROVE  DataInv'
<1>1. at' \in Equipped => buffers' = buffers /\ buffers = [id \in BufferIds |-> Buffer(id)]
  BY SameNames DEF StateInv, MapInv
<1>2. at' \in Equipped => Bound' = Bound
  BY <1>1, SameNames DEF Bound
<1>3. /\ BufferIds' = BufferIds /\ Sets' = Sets /\ Desktop' = Desktop
      /\ \A id \in BufferIds : Buffer(id)' = Buffer(id)
  BY SameNames DEF Buffer
<1> QED BY <1>2, <1>3 DEF DataInv, CopyStage, Equipped

\* What the frames depend on.
FrameInv == OwnerInv /\ DataInv

(* The data through each handler.                                          *)
LEMMA DataStep ==
  ASSUME FrameInv, OwnerInv', [AppNext]_allVars
  PROVE  DataInv'
<1> USE DEF FrameInv, OwnerInv
<1>1. CASE CreateConstantDesktop \/ CreateConstantAndroid
  <2>1. /\ at = "constant" /\ at' = "create" /\ UNCHANGED <<app, device, timeline, lost>>
        /\ sets' = Allocated /\ (~Desktop => written' = {Buffer(id) : id \in BufferIds})
    BY <1>1 DEF CreateConstantDesktop, CreateConstantAndroid, CreateConstants
  <2>2. lost \/ timeline = 0
    BY <2>1 DEF StateInv, FlowInv, ControlInv
  <2>3. DOMAIN sets' \subseteq Sets'
    BY <2>1, SameNames DEF Allocated
  <2>4. ~Desktop' => \A id \in BufferIds' : Buffer(id)' \in written'
    BY <2>1, SameNames DEF Buffer
  <2> QED BY <2>1, <2>2, <2>3, <2>4 DEF DataInv, Equipped
<1>2. CASE CreatePipelines \/ UseOther \/ Terminated \/ UNCHANGED allVars
  <2>1. UNCHANGED <<app, device, timeline, sets, written, copied, lost, at, buffers, closing>>
    BY <1>2 DEF CreatePipelines, UseOther, Terminated, allVars, ownVars
  <2>2. /\ BufferIds' = BufferIds /\ Sets' = Sets /\ Desktop' = Desktop
        /\ Bound' = Bound /\ \A id : Buffer(id)' = Buffer(id)
    BY <2>1, SameBinding
  <2> QED BY <2>1, <2>2 DEF DataInv, CopyStage
<1>3. CASE CreateTargets
  <2>1. /\ at = "create" /\ at' = "loop" /\ UNCHANGED <<app, device, buffers, sets, written, copied>>
        /\ IF lost THEN timeline' = 0 ELSE timeline' = timeline
    BY <1>3 DEF CreateTargets, TimelineRegained, dataVars
  <2>2. /\ BufferIds' = BufferIds /\ Sets' = Sets /\ Desktop' = Desktop
        /\ Bound' = Bound /\ \A id : Buffer(id)' = Buffer(id)
    BY <2>1, SameBinding
  <2> QED BY <2>1, <2>2 DEF DataInv, CopyStage, Equipped
<1>4. CASE Record
  <2>1. /\ at = "loop" /\ at' = "submit" /\ UNCHANGED <<app, device, timeline, lost, buffers, written>>
        /\ IF timeline = 0
           THEN /\ sets' = [s \in Sets |-> Bound[s]]
                /\ copied' = copied \cup {<<buffers[id], CopyStage(id)>> : id \in Staged}
           ELSE UNCHANGED <<sets, copied>>
    BY <1>4 DEF Record, managerVars
  <2>2. /\ BufferIds' = BufferIds /\ Sets' = Sets /\ Desktop' = Desktop
        /\ Bound' = Bound /\ \A id : Buffer(id)' = Buffer(id)
    BY <2>1, SameBinding
  <2>3. ~lost /\ timeline \in Nat
    BY <2>1 DEF StateInv, FlowInv, ControlInv, Drawing
  <2>4. buffers = [id \in BufferIds |-> Buffer(id)]
    BY <2>1 DEF StateInv, MapInv, Equipped
  <2>5. \A id \in BufferIds : Buffer(id) \in written \/ <<Buffer(id), CopyStage(id)>> \in copied'
    <3>1. CASE timeline = 0
      BY <2>1, <2>4, <3>1 DEF Staged, DataInv, Equipped
    <3>2. CASE timeline # 0
      BY <2>1, <2>3, <3>2 DEF DataInv, Equipped
    <3> QED BY <3>1, <3>2
  <2>6. sets' = [s \in Sets |-> Bound[s]]
    BY <2>1, <2>3 DEF DataInv, Equipped
  <2> QED BY <2>1, <2>2, <2>5, <2>6 DEF DataInv, CopyStage, Equipped
<1>5. CASE Submit
  <2>1. /\ at = "submit" /\ at' = "present" /\ UNCHANGED <<app, device, lost, buffers, sets, written, copied>>
    BY <1>5 DEF Submit, managerVars, dataVars
  <2>2. /\ BufferIds' = BufferIds /\ Sets' = Sets /\ Desktop' = Desktop
        /\ Bound' = Bound /\ \A id : Buffer(id)' = Buffer(id)
    BY <2>1, SameBinding
  <2> QED BY <2>1, <2>2 DEF DataInv, CopyStage, Equipped
<1>6. CASE Present \/ OnFrame \/ OnResize \/ SurfaceLost \/ DeviceLost \/ Destruct
  <2>1. /\ at \in Equipped /\ UNCHANGED <<app, device, timeline, sets, written, copied>> /\ (lost' = lost \/ lost')
        /\ at' \notin {"submit", "present"} \/ at' = at
    BY <1>6 DEF Present, OnFrame, OnResize, SurfaceLost, Recreate, DeviceLost, Destruct, dataVars, Equipped
  <2> QED BY <2>1, DataKept
<1>7. CASE DestroyConstantAndroid \/ DestroyConstantDesktop \/ DestroySetLayouts \/ ForcedSweep \/ DestroyManagers
           \/ DestroyDevice \/ CreateDevice
  <2>1. at' \notin Equipped /\ app' = app /\ (sets' = sets \/ sets' = Empty)
    BY <1>7 DEF DestroyConstantAndroid, DestroyConstantDesktop, DestroySetLayouts, ForcedSweep, DestroyManagers,
       DestroyDevice, CreateDevice, Equipped, dataVars
  <2>2. Sets' = Sets
    BY <2>1 DEF Sets, Desktop
  <2> QED BY <2>1, <2>2 DEF DataInv, Empty
<1> QED BY <1>1, <1>2, <1>3, <1>4, <1>5, <1>6, <1>7 DEF AppNext

(* All that the applications rely on.                                      *)
THEOREM AppInvariant == AppSpec => []AppInv
<1>1. AppInit => FrameInv
  <2> SUFFICES ASSUME AppInit PROVE FrameInv
    OBVIOUS
  <2>1. OwnerInv
    BY InitOwner
  <2>2. DataInv
    BY DEF AppInit, DataInv, Empty, Equipped
  <2> QED BY <2>1, <2>2 DEF FrameInv
<1>2. FrameInv /\ [AppNext]_allVars => FrameInv'
  BY OwnerStep, DataStep DEF FrameInv
<1>3. FrameInv => AppInv
  BY DEF FrameInv, OwnerInv, StateInv, FlowInv, AppInv
<1> QED BY <1>1, <1>2, <1>3, PTL DEF AppSpec

(* A pipeline that the application draws with lives, and was made for the  *)
(* present render pass.                                                    *)
LEMMA PipelineReady ==
  ASSUME PoolInv, renderPass # Null, NEW u \in {"main", "skybox"}, held[u].pipeline # Null
  PROVE  /\ held[u].pipeline \in DOMAIN made \ destroyed
         /\ made[held[u].pipeline].generation = passes[renderPass]
<1>1. u \in Users
  BY DEF Users
<1>2. PICK e \in entries : e.pipeline = held[u].pipeline /\ SameInfo(e.info, held[u].info)
  BY <1>1 DEF PoolInv, HeldInv
<1>3. Asked(held[u].info) /\ Asked(e.info) /\ held[u].info \notin ComputeInfos /\ held[u].info.layout \in Layouts
  BY <1>1, <1>2 DEF PoolInv, HeldInv, EntryInv
<1>4. e.info \notin ComputeInfos /\ e.info.layout \in Layouts
  BY <1>2, <1>3, FoundAlike
<1>5. made[e.pipeline].generation = passes[renderPass]
  BY <1>4 DEF PoolInv, CurrentInv
<1>6. e.pipeline \in 1 .. Len(made) /\ e.pipeline \notin destroyed /\ made \in Seq(Made)
  BY DEF PoolInv, EntryInv, PipelineInv
<1>7. DOMAIN made = 1 .. Len(made)
  BY <1>6
<1> QED BY <1>2, <1>5, <1>6, <1>7

(* What a frame submits reads only living objects that hold their data.    *)
THEOREM DrawsAreReady == AppSpec => []DrawsReady
<1>1. AppInv => DrawsReady
  <2> SUFFICES ASSUME AppInv, at = "submit" PROVE DrawsReady
    BY DEF DrawsReady
  <2>1. StateInv /\ objects = Owned \cup waiting /\ DataInv
    BY DEF AppInv, StateInv, FlowInv, ObjectInv
  <2>2. /\ ~lost /\ phase = "ready" /\ at \in Drawing /\ at \in Equipped /\ PoolInv
        /\ held["main"].pipeline # Null /\ (Desktop => held["skybox"].pipeline # Null) /\ renderPass # Null
    <3>1. at \in Drawing /\ at \in Equipped
      BY DEF Drawing, Equipped
    <3>2. ~lost /\ phase = "ready" /\ PoolInv /\ (Desktop => held["skybox"].pipeline # Null)
      BY <3>1 DEF AppInv, ControlInv, PhaseInv
    <3>3. held["main"].pipeline # Null /\ renderPass # Null
      BY <3>2 DEF PoolInv, HeldInv, PassInv
    <3> QED BY <3>1, <3>2, <3>3
  <2>3. targets = [renderPass |-> passes[renderPass], swapchain |-> swapchain, depth |-> Depth,
                   members |-> {DepthView, Framebuffers}]
    BY <2>2 DEF AppInv, MapInv
  <2>4. OfDevice \cup {Depth, DepthView, Framebuffers} \subseteq objects
    BY <2>1, <2>2, OwnedIs DEF OwnedAt
  <2>5. /\ targets.renderPass = passes[renderPass] /\ targets.swapchain = swapchain
        /\ targets.members \cup {targets.depth, DescriptorPool} \subseteq objects
    BY <2>3, <2>4 DEF OfDevice
  <2>6. buffers = [id \in BufferIds |-> Buffer(id)] /\ sets = [s \in Sets |-> Bound[s]]
        /\ \A id \in BufferIds : Buffer(id) \in written \/ <<Buffer(id), CopyStage(id)>> \in copied
    BY <2>1, <2>2 DEF StateInv, MapInv, DataInv
  <2>7. \A id \in BufferIds : Readable(buffers[id], CopyStage(id))
    BY <2>4, <2>6 DEF Readable, OfDevice, Constants
  <2>8. /\ \A id \in {"Vertex", "Index", "SkyboxVertex", "SkyboxIndex"} : CopyStage(id) = "vertexInput"
        /\ CopyStage("Cube") = "fragment" /\ CopyStage("Model") = "vertex"
    BY DEF CopyStage
  <2>9. {"Vertex", "Index", "Cube", "Model"} \subseteq BufferIds
        /\ (Desktop => {"SkyboxVertex", "SkyboxIndex"} \subseteq BufferIds)
    BY DEF BufferIds
  <2>10. Readable(buffers["Cube"], "fragment") /\ Readable(buffers["Model"], "vertex")
    BY <2>7, <2>8, <2>9
  <2>11. Desktop => Readable(TextureView, "fragment") /\ Readable(Sampler, "fragment")
    <3> SUFFICES ASSUME Desktop PROVE Readable(TextureView, "fragment") /\ Readable(Sampler, "fragment")
      OBVIOUS
    <3>1. {TextureView, Sampler, TextureImage} \subseteq OfDevice
      BY DEF OfDevice, Members, Templates, Textured
    <3> QED BY <2>4, <3>1 DEF Readable
  <2>12. ASSUME NEW s \in Sets
         PROVE  LET pipeline == held[Drawn[s].user].pipeline IN
                /\ pipeline \in DOMAIN made \ destroyed
                /\ made[pipeline].generation = targets.renderPass
                /\ \A id \in Drawn[s].buffers : Readable(buffers[id], "vertexInput")
                /\ \A binding \in 1 .. 2 : Readable(sets[s][binding], SetLayout[s][binding])
    <3>1. CASE s = "cube"
      <4>1. Drawn[s].user = "main" /\ Drawn[s].buffers = {"Vertex", "Index"}
        BY <3>1 DEF Drawn
      <4>2. sets[s] = <<buffers["Cube"], buffers["Model"]>> /\ SetLayout[s] = <<"fragment", "vertex">>
        BY <2>6, <3>1 DEF Bound, SetLayout
      <4>3. \A binding \in 1 .. 2 : Readable(sets[s][binding], SetLayout[s][binding])
        <5> SUFFICES ASSUME NEW binding \in 1 .. 2 PROVE Readable(sets[s][binding], SetLayout[s][binding])
          OBVIOUS
        <5>1. CASE binding = 1
          <6>1. sets[s][1] = buffers["Cube"] /\ SetLayout[s][1] = "fragment"
            BY <4>2
          <6> QED BY <2>10, <5>1, <6>1
        <5>2. CASE binding = 2
          <6>1. sets[s][2] = buffers["Model"] /\ SetLayout[s][2] = "vertex"
            BY <4>2
          <6> QED BY <2>10, <5>2, <6>1
        <5> QED BY <5>1, <5>2
      <4>4. \A id \in {"Vertex", "Index"} : Readable(buffers[id], "vertexInput")
        BY <2>7, <2>8, <2>9
      <4>5. /\ held["main"].pipeline \in DOMAIN made \ destroyed
            /\ made[held["main"].pipeline].generation = targets.renderPass
        BY <2>2, <2>5, PipelineReady
      <4> QED BY <4>1, <4>3, <4>4, <4>5
    <3>2. CASE s = "skybox"
      <4>1. Drawn[s].user = "skybox" /\ Drawn[s].buffers = {"SkyboxVertex", "SkyboxIndex"}
        BY <3>2 DEF Drawn
      <4>2. sets[s] = <<TextureView, Sampler>> /\ SetLayout[s] = <<"fragment", "fragment">>
        BY <2>6, <3>2 DEF Bound, SetLayout
      <4>3. Desktop
        BY <3>2 DEF Sets
      <4>4. \A binding \in 1 .. 2 : Readable(sets[s][binding], SetLayout[s][binding])
        <5> SUFFICES ASSUME NEW binding \in 1 .. 2 PROVE Readable(sets[s][binding], SetLayout[s][binding])
          OBVIOUS
        <5>1. CASE binding = 1
          <6>1. sets[s][1] = TextureView /\ SetLayout[s][1] = "fragment"
            BY <4>2
          <6> QED BY <2>11, <4>3, <5>1, <6>1
        <5>2. CASE binding = 2
          <6>1. sets[s][2] = Sampler /\ SetLayout[s][2] = "fragment"
            BY <4>2
          <6> QED BY <2>11, <4>3, <5>2, <6>1
        <5> QED BY <5>1, <5>2
      <4>5. \A id \in {"SkyboxVertex", "SkyboxIndex"} : Readable(buffers[id], "vertexInput")
        BY <2>7, <2>8, <2>9, <4>3
      <4>6. /\ held["skybox"].pipeline \in DOMAIN made \ destroyed
            /\ made[held["skybox"].pipeline].generation = targets.renderPass
        BY <2>2, <2>5, <4>3, PipelineReady
      <4> QED BY <4>1, <4>4, <4>5, <4>6
    <3>3. s = "cube" \/ s = "skybox"
      BY DEF Sets
    <3> QED BY <3>1, <3>2, <3>3
  <2> QED BY <2>5, <2>12 DEF DrawsReady
<1> QED BY <1>1, AppInvariant, PTL

(* Every variable keeps its type.                                          *)
THEOREM AppTypes == AppSpec => []AppTypeOK
<1>1. AppInv => AppTypeOK
  <2> SUFFICES ASSUME AppInv PROVE AppTypeOK
    OBVIOUS
  <2>1. StateInv /\ FlowInv /\ PoolInv /\ objects = Owned \cup waiting
    BY DEF AppInv, StateInv, FlowInv, ObjectInv
  <2>2. PoolTypeOK
    <3>1. made \in Seq(Made)
      BY <2>1 DEF PoolInv, EntryInv
    <3>2. DOMAIN made = 1 .. Len(made)
      BY <3>1
    <3>3. \A e \in entries : e.pipeline \in DOMAIN made
      BY <2>1, <3>2 DEF PoolInv, EntryInv
    <3>4. \A u \in Users : held[u].pipeline \in {Null} \cup DOMAIN made
      BY <2>1, <3>3 DEF PoolInv, HeldInv
    <3>5. /\ phase \in {"create", "main", "skybox", "ready", "done"}
          /\ renderPass \in RenderPasses \cup {Null} /\ generations \in 0 .. MaxGenerations
          /\ discarded \subseteq ({"pipeline"} \X DOMAIN made) \cup ({"renderPass"} \X RenderPasses)
          /\ destroyed \subseteq DOMAIN made
      BY <2>1, <3>2 DEF PoolInv, PassInv, PipelineInv
    <3>6. passes \in [RenderPasses -> 0 .. MaxGenerations]
      <4>1. passes \in [RenderPasses -> 0 .. generations] /\ 0 .. generations \subseteq 0 .. MaxGenerations
        BY <2>1, PipelinePoolAssumption DEF PoolInv, PassInv
      <4> QED BY <4>1
    <3>7. NoFace \in Faces
      BY DEF NoFace, Faces
    <3>8. template \in {Constructed, Cleared(Constructed)} /\ compute = ComputeConstructed
      BY <2>1 DEF PoolInv, TemplateInv
    <3>9. /\ DOMAIN Cleared(Constructed) = DOMAIN Constructed
          /\ Constructed.depthStencil.front = NoFace /\ Constructed.depthStencil.back = NoFace
          /\ Cleared(Constructed).depthStencil.front = NoFace /\ Cleared(Constructed).depthStencil.back = NoFace
      <4>1. DOMAIN Cleared(Constructed) = DOMAIN Constructed
        BY DEF Cleared
      <4>2. "depthStencil" \in DOMAIN Constructed /\ Constructed.depthStencil = DepthStencil
        BY DEF Constructed
      <4>3. Cleared(Constructed).depthStencil = ClearedDepthStencil(DepthStencil)
        BY <4>2 DEF Cleared
      <4>4. DepthStencil.front = NoFace /\ DepthStencil.back = NoFace
        BY DEF DepthStencil
      <4>5. ClearedDepthStencil(DepthStencil).front = NoFace /\ ClearedDepthStencil(DepthStencil).back = NoFace
        <5>1. {"test", "write", "front", "back"} \subseteq DOMAIN DepthStencil
          BY DEF DepthStencil
        <5> QED BY <5>1 DEF ClearedDepthStencil
      <4> QED BY <4>1, <4>2, <4>3, <4>4, <4>5
    <3>10. DOMAIN template = DOMAIN Constructed /\ DOMAIN compute = DOMAIN ComputeConstructed
           /\ {template.depthStencil.front, template.depthStencil.back} \subseteq Faces
      BY <3>7, <3>8, <3>9
    <3> QED BY <3>3, <3>4, <3>5, <3>6, <3>10 DEF PoolTypeOK
  <2>3. /\ app \in {"desktop", "android"} /\ {closing, lost} \subseteq BOOLEAN
        /\ device \in 1 .. MaxDevices /\ timeline \in 0 .. MaxTimeline /\ swapchain \in Nat
        /\ at \in {"constant", "create", "loop", "submit", "present", "destroyConstant",
                   "setLayouts", "sweep", "managers", "discardPool", "device", "done"}
    BY DEF AppInv, ControlInv, Equipped, Leaving
  <2>4. DOMAIN Empty = {} /\ \A id, x : DOMAIN Entry(id, x) = {id}
    BY EntryFacts DEF Empty
  <2>5. /\ DOMAIN buffers \subseteq BufferIds /\ DOMAIN images \subseteq {"depth"}
        /\ DOMAIN textures \subseteq {"Tex"} /\ DOMAIN allocations \subseteq Nat
        /\ DOMAIN sets \subseteq Sets
    <3>1. DOMAIN buffers \subseteq BufferIds
      BY <2>1, <2>4 DEF StateInv, MapInv
    <3>2. DOMAIN images \subseteq {"depth"} /\ DOMAIN textures \subseteq {"Tex"}
      BY <2>1, <2>4 DEF StateInv, MapInv
    <3>3. DOMAIN allocations \subseteq Nat
      <4>1. allocations = Empty \/ allocations = Entry(2, TextureMemory)
        BY <2>1 DEF StateInv, MapInv
      <4> QED BY <4>1 DEF Entry, Empty
    <3> QED BY <3>1, <3>2, <3>3 DEF AppInv, DataInv
  <2>6. members \cup waiting \cup targets.members \subseteq objects
    <3>1. targets.members \subseteq members
      BY <2>1 DEF StateInv, MemberInv
    <3> QED BY <2>1, <3>1 DEF Owned
  <2> QED BY <2>2, <2>3, <2>5, <2>6 DEF AppTypeOK
<1> QED BY <1>1, AppInvariant, PTL
====
