-------------------------- MODULE ProviderSelection --------------------------
(***************************************************************************)
(* Which backend `j-rig eval' and `j-rig refine' use, from the --provider  *)
(* flags and the environment: keys of vendors, the generic LLM_* triple,   *)
(* and J_RIG_ALLOW_STUB.  A key is absent, set and blank, too short, or    *)
(* good; "none" is an option that was not given.  Pure.                    *)
(***************************************************************************)
EXTENDS Sequences, SequencesExt

Preset == <<"deepseek", "kimi", "openrouter", "openai", "minimax", "groq", "nvidia">>
Vendor == ToSet(Preset) \cup {"anthropic"}
KeyState == {"absent", "blank", "short", "good"}

-----------------------------------------------------------------------------
(* eval *)

\* fromPreset: the preset's own variable, or LLM_API_KEY where it is not set.
PresetKey(env, preset) == IF env.keys[preset] = "absent" THEN env.llmKey ELSE env.keys[preset]
Resolvable(env, preset) == PresetKey(env, preset) = "good"

\* The name of the endpoint, or "none".
ResolveOpenAICompatConfig(env, preferred) ==
    LET usable == SelectSeq(Preset, LAMBDA preset : Resolvable(env, preset))
    IN IF preferred # "none"
       THEN IF preferred \in ToSet(usable) THEN preferred ELSE "none"
       ELSE IF env.llmKey = "good" /\ env.llmBase THEN env.llmName
       ELSE IF usable = <<>> THEN "none" ELSE Head(usable)

\* LLM_BASE_URL stands in for every endpoint but Anthropic's.
BaseOf(env, backend) ==
    IF env.llmBase /\ backend \notin {"anthropic", "stub", "refused"} THEN "LLM_BASE_URL" ELSE backend

\* The base legs: trigger, execution and judge.
SelectProviders(env, want) ==
    LET config == ResolveOpenAICompatConfig(env, want)
    IN IF want = "stub" THEN "stub"
       ELSE IF want # "anthropic" /\ config # "none" THEN config
       ELSE IF env.keys["anthropic"] = "good" THEN "anthropic" ELSE "stub"

HasAnyRealKey(env, want) ==
    /\ want # "stub"
    /\ \/ want # "anthropic" /\ ResolveOpenAICompatConfig(env, want) # "none"
       \/ want \in {"anthropic", "none"} /\ env.keys["anthropic"] = "good"

\* The preflight asks for a key or the opt-in, the constructors of the stubs
\* for the opt-in.
EvalBackend(env, want) ==
    IF ~HasAnyRealKey(env, want) /\ ~env.allowStub THEN "refused" ELSE SelectProviders(env, want)

SelectJudgeOverride(env, judge, judgeModel) ==
    LET config == ResolveOpenAICompatConfig(env, judge)
        real   == env.keys["anthropic"] = "good"
    IN CASE judge = "none" /\ ~judgeModel -> "none"
         [] judge = "stub" -> "stub"
         [] judge = "anthropic" -> IF real THEN "anthropic" ELSE "throws"
         [] OTHER -> IF config # "none" THEN config
                     ELSE IF judge # "none" THEN "throws"
                     ELSE IF real THEN "anthropic" ELSE "stub"

\* The judge can be constructed.
JudgeStands(env, want, judge, judgeModel) ==
    LET override == SelectJudgeOverride(env, judge, judgeModel)
    IN override # "throws" /\ (override = "stub" => env.allowStub)

\* --execution-reasoning-effort
EffortAccepted(env, want, functional) ==
    functional /\ want \notin {"stub", "anthropic"} /\ ResolveOpenAICompatConfig(env, want) # "none"

\* --execution-provider: "off", "on" or "throws".
ResolveClaudeCodeSettings(want, ccFlags, functional, effort, mcp) ==
    IF want = "none" THEN IF ccFlags THEN "throws" ELSE "off"
    ELSE IF want = "claude-code" /\ functional /\ ~effort /\ ~mcp THEN "on" ELSE "throws"

-----------------------------------------------------------------------------
(* refine: a registry of its own, for propose and score.                   *)

AutoPick == <<"groq", "deepseek", "openai", "anthropic", "nvidia">>

\* A variable that is set and blank counts as absent here.
RefinerKey(env, vendor) ==
    IF env.keys[vendor] \in {"absent", "blank"} THEN env.llmKey ELSE env.keys[vendor]

ResolveProvider(env, want) ==
    LET usable == SelectSeq(AutoPick, LAMBDA vendor : RefinerKey(env, vendor) = "good")
    IN IF want # "none"
       THEN IF want \in Vendor /\ RefinerKey(env, want) = "good" THEN want ELSE "none"
       ELSE IF env.llmKey = "good" /\ env.llmBase THEN env.llmName
       ELSE IF usable = <<>> THEN "none" ELSE Head(usable)
=============================================================================
