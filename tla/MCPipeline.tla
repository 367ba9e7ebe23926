----------------------------- MODULE MCPipeline -----------------------------
(* All stages, and selection and execution alone, with one asset or two.   *)
EXTENDS Pipeline
MCAssetLists == {<<"A">>, <<"A", "B">>}
MCSaved == {Stage, {selection, execution}} \X MCAssetLists
=============================================================================
