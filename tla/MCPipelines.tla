---------------------------- MODULE MCPipelines ----------------------------
(***************************************************************************)
(* A source that an output and a second, incremental one are made from, the  *)
(* second from the first as well, so that the source is called for twice in  *)
(* a run and the first three times when both are asked for; and a volatile   *)
(* pipeline without an output that the first one reads.                      *)
(***************************************************************************)
EXTENDS Pipelines

MCNames == {"source", "lookup", "left", "top"}
MCDeps == [p \in MCNames |->
             CASE p = "left" -> {"source", "lookup"}
               [] p = "top" -> {"source", "left"}
               [] OTHER -> {}]
MCStored == MCNames \ {"lookup"}
MCSelections == {<<"top">>, <<"left", "top">>}
MCRefreshes == {{}, {"source"}}
MCRefreshesTop == {{}, {"top"}}
MCExclusions == {{}, {"left"}}
=============================================================================
