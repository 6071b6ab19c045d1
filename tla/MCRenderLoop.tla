----------------------------- MODULE MCRenderLoop -----------------------------
(***************************************************************************)
(* TLC instance of RenderLoop.                                             *)
(***************************************************************************)
EXTENDS RenderLoop, TLC

(* The keys of either kind are only ever compared with each other.         *)
Symmetry == Permutations(Resources) \cup Permutations(Composed)
=============================================================================
