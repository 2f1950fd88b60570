--------------------------- MODULE MC_AppResources ---------------------------
(* The two descriptions of the desktop applications (basicGraphicsInfo),   *)
(* and others that set what these leave alone, or leave alone what these   *)
(* set.                                                                     *)
EXTENDS AppResources
Main ==
  [vertex |-> 1, fragment |-> 2, geometry |-> 0, input |-> 1, topology |-> "triangles",
   viewports |-> 1, stencilFormat |-> TRUE, colors |-> 0, renderPass |-> 0, subpass |-> 0,
   flags |-> {"stencil"}, polygon |-> "fill", stencilCompare |-> "always",
   stencilLogic |-> "replace", reference |-> 1, layout |-> 1]
Skybox ==
  [Main EXCEPT !.vertex = 3, !.fragment = 4, !.stencilCompare = "equal",
               !.stencilLogic = "none", !.reference = 0, !.layout = 2,
               !.flags = {"stencil", "noDepthWrite"}]
Plain == [Main EXCEPT !.flags = {}, !.stencilCompare = "none", !.stencilLogic = "none"]
Lines == [Main EXCEPT !.topology = "lines", !.polygon = "line", !.geometry = 5,
                      !.flags = {"depthBias", "invertFrontFace", "cull", "front"}]
Volumes == [Skybox EXCEPT !.stencilCompare = "notEqual", !.stencilLogic = "countDepthFail",
                          !.flags = {"stencil", "cull"}, !.colors = 2]
Others == {Plain, Lines, Volumes}
\* Memory that the host sees in no case, in some and in all
Visible == {{}, {"Vertex", "Cube"}, {"Vertex", "Index", "SkyboxVertex", "SkyboxIndex", "Cube", "Model"}}
Computes == {[module |-> 6, layout |-> 3]}
ASSUME UsersSeeToIt == DescriptionsDiffer /\ LayoutsKnown
=============================================================================
