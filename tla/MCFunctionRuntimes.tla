-------------------------- MODULE MCFunctionRuntimes --------------------------
(* Compositions that share functions, one of them in two revisions and one *)
(* that needs a function that is not installed. One package has no         *)
(* registry, two have one image name and share a container, one function   *)
(* is annotated with an environment of its own.                            *)
EXTENDS FunctionRuntimes, TLC

CONSTANTS a, b, xr1, xr2, xr3, f1, f2, f3, f4, host, org, other, max, foo

MCCompositions ==
  {[name |-> xr1, pipeline |-> <<f1>>],
   [name |-> xr1, pipeline |-> <<f2>>],
   [name |-> xr2, pipeline |-> <<f1, f4, f1>>],
   [name |-> xr3, pipeline |-> <<f2, f3>>]}

MCPackage == (f1 :> <<host, org, f1>>) @@ (f2 :> <<org, f2>>) @@ (f4 :> <<other, org, f1>>)
MCPipelines == {<<f1>>, <<f2>>, <<f1, f4, f1>>}
MCHosts == {host, other}
MCRegistry == <<other>>
MCEnvPairs ==
  (f1 :> <<[key |-> foo, value |-> a], [key |-> max, value |-> a]>>) @@ (f2 :> << >>) @@ (f4 :> << >>)
MCMaxRecv == [key |-> max, value |-> b]
=============================================================================
