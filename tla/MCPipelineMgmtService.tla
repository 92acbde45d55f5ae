------------------------- MODULE MCPipelineMgmtService -------------------------
(* TLC instances of PipelineMgmtService: the symmetry of the safety run.    *)
EXTENDS PipelineMgmtService, TLC

Symmetry ==
    {s \in Permutations(Ids) : {s[id] : id \in Editable} = Editable}
================================================================================
