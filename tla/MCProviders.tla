----------------------------- MODULE MCProviders -----------------------------
(***************************************************************************)
(* A provider under load and a case with tools: three callers share one    *)
(* plan transport whose answers an adapter reads, or one execution drives  *)
(* the tool loop over an adapter.  `driver' says which of the two runs.    *)
(***************************************************************************)
EXTENDS ToolLoop, ProviderSelection

CONSTANTS Request, ModelOf, Answers, Gap, Cache, Recovery, OverloadWait, Soon, Late

\* In the code: a gap of 1 s, readings kept 30 s, an overload wait of 30 s, at
\* most 70 s of recovery; Soon and Late are resets within and beyond that, and
\* the wait for a reset adds the length of a gap to it (minimax-plan.ts:183).
ASSUME PlanAssumption ==
    /\ {Gap, Cache, Recovery, OverloadWait, Soon, Late} \subseteq Nat \ {0}
    /\ Gap <= OverloadWait /\ OverloadWait <= Recovery /\ Recovery < Late
    /\ Gap <= Soon + 1 /\ Soon <= Late
    /\ None \notin Answers
    /\ \A response \in Answers :
          /\ response.kind = "response"
          /\ response.status \in Nat /\ response.retryAfter \in Nat

VARIABLES driver, canonical, queue, send, settled, aborted, quota, circuit,
          recoveryUsed, pause, sends, lull

Plan == INSTANCE PlanTransport

plan == <<canonical, queue, send, settled, aborted, quota, circuit, recoveryUsed,
          pause, sends, lull>>
vars == <<driver, tools, plan>>

\* Bodies: what a completion may hold, and what a refusal may say.
Said(text, finish, requested) ==
    [choices |-> TRUE, usage |-> TRUE, billing |-> FALSE, code |-> "none",
     text |-> text, finish |-> finish, calls |-> requested]
Told(billing, code) ==
    [choices |-> FALSE, usage |-> FALSE, billing |-> billing, code |-> code,
     text |-> "empty", finish |-> "none", calls |-> <<>>]

Answer(status, retryAfter, body) ==
    [kind |-> "response", status |-> status, retryAfter |-> retryAfter, body |-> body]

McAnswers ==
    {Answer(200, 0, Said("yes", "stop", <<>>)), Answer(402, 0, Told(TRUE, "none")),
     Answer(429, 0, Told(FALSE, "none")), Answer(503, 0, Told(FALSE, "none")),
     Answer(529, 0, Told(FALSE, "2064")), Answer(529, 4, Told(FALSE, "2064"))}

McRequest == {"q1", "q2", "q3"}
McModelOf == [r \in McRequest |-> IF r = "q3" THEN "other" ELSE "m3"]

Ask(id, name, args) == [id |-> id, name |-> name, args |-> args]

McBodies ==
    {Said("yes", "stop", <<>>), Said("yes", "end_turn", <<>>), Said("empty", "length", <<>>),
     Said("prose", "tool_calls", <<>>), Told(FALSE, "none")}
    \cup {Said("empty", finish, requested) :
            finish \in {"tool_calls", "tool_use", "stop"},
            requested \in {<<Ask("c3", "echo", "object")>>, <<Ask("c2", "echo", "object_text")>>,
                           <<Ask("c1", "echo", "object"), Ask("c2", "other", "object")>>,
                           <<Ask("c1", "echo", "object"), Ask("c1", "echo", "object")>>,
                           <<Ask("c1", "echo", "object"), Ask("c2", "echo", "object")>>,
                           <<Ask("c1", "echo", "object"), Ask("", "echo", "object")>>}}
McConfigured == <<"s1", "s2">>

Init ==
    /\ driver \in {"plan", "tools"}
    /\ ToolInit /\ Plan!PlanInit
    /\ driver = "plan" => provider = "anthropic" /\ ~observing
    /\ driver = "tools" => canonical

PlanStep == driver = "plan" /\ Plan!PlanNext /\ UNCHANGED <<driver, tools>>
ToolStep == driver = "tools" /\ ToolNext /\ UNCHANGED <<driver, plan>>

Next == PlanStep \/ ToolStep

Spec == Init /\ [][Next]_vars

PlanOwed == driver = "plan" /\ Plan!PlanCallback /\ UNCHANGED <<driver, tools>>
Time     == driver = "plan" /\ Plan!Tick /\ UNCHANGED <<driver, tools>>
LoopOwed == driver = "tools" /\ LoopStep /\ UNCHANGED <<driver, plan>>
Timer    == driver = "tools" /\ TimerFires /\ UNCHANGED <<driver, plan>>
AbortOwed == driver = "tools" /\ Honoured /\ UNCHANGED <<driver, plan>>

FairSpec == Spec /\ WF_vars(PlanOwed) /\ WF_vars(Time)
                 /\ WF_vars(LoopOwed) /\ WF_vars(Timer) /\ WF_vars(AbortOwed)

(* A case completes, and a vote is decisive, only if the endpoint was      *)
(* asked that very request: a response the closed transport hands to the   *)
(* requests behind, or a throw, never passes for an answer.                *)
OnlyAnswersCount ==
    \A r \in Request : settled[r].kind \in {"response", "thrown"} =>
        LET result == OpenAICompatComplete(settled[r], FALSE)
        IN \/ OpenAICompatExecute(result).status = "failed"
              /\ OpenAICompatJudge(result) = "throws"
           \/ Plan!CallsFor(r) # {}

(* What the plan transport promises of every call it made and every answer *)
(* it passed on.                                                           *)
PlanIsRespected == Plan!OneRetryAtMost /\ Plan!SentUnderQuota /\ OnlyAnswersCount

(* It never spends too early, against a closed plan or for nobody.         *)
SpendsCarefully == Plan!SpendsCarefully

(* Every caller of the plan transport is told something, and every case    *)
(* with tools ends, over services that may never answer.                   *)
EverybodySettles ==
    /\ driver = "plan" => Plan!CallersSettle
    /\ driver = "tools" => CaseEnds

-----------------------------------------------------------------------------
(* The adapters side by side, over every body a service may send.          *)
Bodied == {Said(text, finish, requested) :
              text \in Text, finish \in {"stop", "length", "tool_calls", "end_turn", "max_tokens"},
              requested \in {<<>>} \cup {<<call>> : call \in RawCall}}
          \cup {Told(billing, "none") : billing \in BOOLEAN}
Deliveries ==
    {[kind |-> "keyless"]} \cup {[kind |-> "thrown", what |-> what] : what \in {"abort", "refused", "socket"}}
    \cup {[kind |-> "response", status |-> status, body |-> body] :
            status \in {200, 401, 404, 408, 429, 500, 503, 529}, body \in Bodied}

Completions(delivery) ==
    {OpenAICompatComplete(delivery, FALSE), AnthropicComplete(delivery, FALSE),
     LiteLlmComplete(delivery, FALSE), VercelComplete(delivery, FALSE, "openai")}
ToolReplies(delivery) ==
    {OpenAICompatCallTool(delivery), AnthropicCallTool(delivery),
     LiteLlmCallTool(delivery), VercelCallTool(delivery, "openai")}

\* No adapter makes an answer out of anything but a success, ...
ASSUME OnlySuccessIsAnswered ==
    \A delivery \in Deliveries : ~IsSuccess(delivery) =>
        \A result \in Completions(delivery) \cup ToolReplies(delivery) : ~result.ok

\* ... the real ones hand a tool loop whole calls and all of them, ...
ASSUME RealTurnsAreWhole ==
    \A delivery \in Deliveries : IsSuccess(delivery) =>
        \A result \in {OpenAICompatCallTool(delivery), AnthropicCallTool(delivery)} :
            result.ok /\ delivery.body.choices =>
                /\ Len(result.calls) = Len(delivery.body.calls)
                /\ \A i \in DOMAIN result.calls : IsModelToolCall(result.calls[i])

\* ... and they part over a billing text, a 503 and a 529 only.
ASSUME CategoriesAgree ==
    \A delivery \in Deliveries :
        delivery.kind = "response" /\ ~IsSuccess(delivery) /\ ~delivery.body.billing
        /\ delivery.status \notin {503, 529}
        => Cardinality(Completions(delivery)) = 1

\* The bridges part over a truncated empty text, a think block and a body
\* without choices.
ASSUME BridgesPart ==
    \A delivery \in Deliveries :
        LET here  == OpenAICompatExecute(OpenAICompatComplete(delivery, FALSE))
            there == AnthropicExecute(AnthropicComplete(delivery, FALSE))
        IN IsSuccess(delivery) /\ here # there =>
            delivery.body.text \in {"empty", "thinking"} \/ ~delivery.body.choices

\* A vote or a routing comes from an answer and from nothing else: truncated
\* text may still vote by its regex, never route.
ASSUME VotesAreAnswers ==
    \A delivery \in Deliveries :
        LET here  == OpenAICompatComplete(delivery, FALSE)
            there == AnthropicComplete(delivery, FALSE)
        IN /\ OpenAICompatJudge(here) \in {"yes", "no"} \/ AnthropicJudge(there) \in {"yes", "no"}
                 => IsSuccess(delivery) /\ delivery.body.text \in {"yes", "no", "cut_yes"}
           /\ OpenAICompatSelectSkill(here) = "chosen" \/ AnthropicSelectSkill(there) = "chosen"
                 => IsSuccess(delivery) /\ IsJson(delivery.body.text)

\* Which backend a run uses: three vendors' keys in every state, the others absent.
Environments ==
    [keys : {[v \in Vendor |-> IF v \in DOMAIN some THEN some[v] ELSE "absent"] :
                 some \in [{"deepseek", "groq", "anthropic"} -> KeyState]},
     llmKey : KeyState, llmBase : BOOLEAN, llmName : {"openai-compatible", "groq"},
     allowStub : BOOLEAN]

Wanted == {"none", "stub", "anthropic", "deepseek", "groq", "kimi", "unheard-of"}

\* openai-compatible.ts:243-245 "do NOT silently fall through to a different
\* vendor": a named vendor is used or refused, unless stubs are allowed.
ASSUME NamedVendorIsKept ==
    \A env \in Environments, want \in Wanted \ {"none"} :
        EvalBackend(env, want) \in {want, "refused"} \/ env.allowStub

\* What passes the preflight of eval is not refused when the providers are
\* constructed inside the model loop, except by the judge it never looked at.
ASSUME LateThrowsAreTheJudges ==
    \A env \in Environments, want \in Wanted, judge \in Wanted, judgeModel \in BOOLEAN :
        EvalBackend(env, want) # "refused" =>
            /\ SelectProviders(env, want) = "stub" => env.allowStub
            /\ ~JudgeStands(env, want, judge, judgeModel) =>
                   judge # "none" /\ (judge = "stub" => ~env.allowStub)

\* A stub routes to the first skill and votes yes, or throws, whatever it is
\* shown: a run falls back on it with the opt-in only.
ASSUME StubsProveNothing ==
    /\ \A env \in Environments, want \in Wanted :
          EvalBackend(env, want) = "stub" => ~StubRefused(env.allowStub)
    /\ \A failing \in BOOLEAN : {StubExecute(failing), StubJudge(failing)} \cap {"failed", "no"} = {}
    /\ \A roster \in {<<>>, <<"b">>, <<"b", "a">>} : StubSelectSkill(roster) # "a"

\* An explicit judge is that vendor or an error, and it is another endpoint
\* than the execution's unless LLM_BASE_URL stands for both.
ASSUME JudgeIsDecoupled ==
    \A env \in Environments, want \in Wanted, judge \in Wanted \ {"none"}, judgeModel \in BOOLEAN :
        LET chosen == SelectJudgeOverride(env, judge, judgeModel)
        IN /\ chosen \in {judge, "throws"}
           /\ chosen = judge /\ judge # EvalBackend(env, want)
              /\ BaseOf(env, judge) = BaseOf(env, EvalBackend(env, want)) => env.llmBase

\* providers.ts:18-20 (refiner): `refine score' and the `j-rig eval' it runs
\* resolve the same backend.  They part over the generic endpoint, whose name
\* eval does not know, a variable that is set and blank, and LLM_API_KEY in
\* the place of an Anthropic key.
ASSUME ScoreReachesItsBackend ==
    \A env \in Environments, want \in Wanted \ {"stub"} :
        LET resolved == ResolveProvider(env, want)
        IN resolved # "none" /\ EvalBackend(env, resolved) # resolved =>
              /\ env.llmKey = "good"
              /\ \/ want = "none" /\ env.llmBase
                 \/ env.keys[resolved] = "blank"
                 \/ resolved = "anthropic" /\ env.keys[resolved] = "absent"

\* An option of the execution leg reaches a backend that honours it, or is
\* refused before anything is written.
ASSUME ExecutionOptionsAgree ==
    /\ \A env \in Environments, want \in Wanted, functional \in BOOLEAN :
          EffortAccepted(env, want, functional) /\ EvalBackend(env, want) # "refused" =>
              SelectProviders(env, want) \notin {"stub", "anthropic"}
    /\ \A leg \in {"none", "claude-code", "unheard-of"}, flags, functional, effort, mcp \in BOOLEAN :
          LET settings == ResolveClaudeCodeSettings(leg, flags, functional, effort, mcp)
          IN settings # "throws" =>
                 /\ flags => settings = "on"
                 /\ effort \/ mcp => settings = "off"
                 /\ settings = "on" => functional /\ leg = "claude-code"
=============================================================================
