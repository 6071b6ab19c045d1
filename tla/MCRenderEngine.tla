---------------------------- MODULE MCRenderEngine ----------------------------
(* Up to three goroutines and three functions; the pipelines overlap       *)
(* without being equal, one uses a function in two steps, one has no steps. *)
EXTENDS RenderEngine

CONSTANTS f1, f2, f3

MCFunctions == {f1, f2, f3}
MCPipelines == {<< >>, <<f1>>, <<f1, f2>>, <<f2, f3, f2>>}
MCOrphaned == {f3}
=============================================================================
