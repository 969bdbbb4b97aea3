------------------------- MODULE MCPipelineBuilder -------------------------
(***************************************************************************)
(* A library pipeline and the pipeline that embeds it.                     *)
(***************************************************************************)
EXTENDS PipelineBuilder

GroupsOf == ("main" :> {<<"lib", "g">>}) @@ ("sub" :> {<<"g">>, <<"h">>})
AgentsOf == ("main" :> {<<"a">>}) @@ ("sub" :> {<<"a">>, <<"b">>})
Library   == <<"lib">>
AllParts  == {"a", "b", "g", "h", "lib"}
GroupsAt  == ("main" :> 2) @@ ("sub" :> 2)
AgentsAt  == ("main" :> 1) @@ ("sub" :> 2)
PoliciesOf == ("main" :> {}) @@ ("sub" :> {"strict"})
=============================================================================
