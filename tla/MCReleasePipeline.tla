-------------------------- MODULE MCReleasePipeline --------------------------
(* Two models that pass, fail, break, stop or die, and four policies.      *)
EXTENDS MCEvalRun, ReleasePipeline

EachModel == {{i} : i \in Position}
AnyModel == {Position}

MCPolicies ==
    {DefaultPolicy(EachModel), DefaultPolicy(AnyModel), DefaultPolicy({}),
     [DefaultPolicy(EachModel) EXCEPT !.advisoryBlocks = TRUE, !.allowUnknown = FALSE]}

(* A model that passes or fails its self-test, with and without a budget,  *)
(* and the invocations of MCEvalRun that stop, break or only route.        *)
PipelineInvocations ==
    ModelInvocations \cup
    {Invoke(FALSE, TRUE, FALSE, TRUE, selfTest, GoodFile, 1, 0, NoLimits, limits) :
        selfTest \in {"off", "no"}, limits \in {NoLimits, Only("max_calls", 3)}}
==============================================================================
