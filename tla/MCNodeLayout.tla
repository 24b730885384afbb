---------------------------- MODULE MCNodeLayout ----------------------------
(***************************************************************************)
(* An instance of NodeLayout for TLC: four key bytes in two bitmap words,  *)
(* the four layouts scaled to 2, 3, 3 and 4 children.                      *)
(***************************************************************************)
EXTENDS NodeLayout, TLC

MCCap == ("Node4" :> 2) @@ ("Node16" :> 3) @@ ("Node48" :> 3) @@ ("Node256" :> 4)
MCPrefixes == {<<>>, <<1, 2, 3>>}
MCStarts == {{}, {1}, {0, 3}, {0, 1, 2}, {0, 1, 2, 3}}

=============================================================================
