-------------------------- MODULE ProviderAdapters --------------------------
(***************************************************************************)
(* How the provider adapters turn what a transport delivers into results,  *)
(* and how the bridges turn results into routing choices, outcomes and     *)
(* votes.  A transport delivers a response (any HTTP status) or throws.  A *)
(* body keeps what some adapter tells apart; wire formats are left out.    *)
(***************************************************************************)
EXTENDS Naturals, Sequences, SequencesExt

\* What the text of a completion amounts to.  "thinking" is an unterminated
\* <think> block; "cut_" texts are a JSON object cut off by the token ceiling.
Text == {"empty", "thinking", "prose", "yes", "no", "cut_yes"}
IsJson(text) == text \in {"yes", "no"}

\* A tool call as a model writes it; ArgShape is what stands for arguments.
ArgShape == {"object", "object_text", "broken_text", "array", "missing"}
RawCall == [id : {"c1", "c2", ""}, name : {"echo", "other", ""}, args : ArgShape]

Failure(category) ==
    [ok |-> FALSE, category |-> category,
     retryable |-> category \in {"rate_limit", "network_timeout"}]

Final(category) == [Failure(category) EXCEPT !.retryable = FALSE]

Completion(text, finish) == [ok |-> TRUE, text |-> text, finish |-> finish]
ToolReply(text, finish, calls) ==
    [ok |-> TRUE, text |-> text, finish |-> finish, calls |-> calls]

-----------------------------------------------------------------------------
(* Shared conventions.                                                     *)
IsSuccess(delivery) == delivery.kind = "response" /\ delivery.status \in 200..299

StripThinkBlock(text) == IF text = "thinking" THEN "empty" ELSE text

\* Every finish reason a model may give; what an adapter does not know is a stop.
MapFinishReason(raw, names) == IF raw \in DOMAIN names THEN names[raw] ELSE "stop"

ChatFinish == [stop |-> "stop", length |-> "length", tool_calls |-> "tool_use",
               function_call |-> "tool_use", content_filter |-> "refusal"]
AnthropicFinish == [end_turn |-> "stop", stop_sequence |-> "stop", max_tokens |-> "length",
                    tool_use |-> "tool_use", refusal |-> "refusal"]
GatewayFinish == [stop |-> "stop", length |-> "length", tool_calls |-> "tool_use",
                  content_filter |-> "refusal", error |-> "error"]

\* What an HTTP status means to every adapter; timeouts are each one's own list.
CategoryOf(status, timeouts) ==
    CASE status \in {401, 403} -> "authentication"
      [] status = 404          -> "model_not_found"
      [] status = 429          -> "rate_limit"
      [] status \in timeouts   -> "network_timeout"
      [] OTHER                 -> "unknown"

\* errorForThrow of the two real adapters: a ProviderError passes through.
ErrorForThrow(delivery) ==
    CASE delivery.what = "abort"   -> Failure("network_timeout")
      [] delivery.what = "refused" -> Final("rate_limit")
      [] OTHER                     -> Failure("unknown")

\* #assertKey, and the same test in the prototypes: nothing is sent.
Keyless(delivery) == delivery.kind = "keyless"

\* The prototypes look at names and messages only.
PrototypeErrorForThrow(delivery) ==
    IF delivery.what = "abort" THEN Failure("network_timeout") ELSE Failure("unknown")

-----------------------------------------------------------------------------
(* openai-compatible.ts                                                    *)
OpenAICompatErrorForStatus(response) ==
    IF response.status \notin {401, 403, 404} /\ (response.status = 402 \/ response.body.billing)
    THEN Final("rate_limit")
    ELSE Failure(CategoryOf(response.status, {408, 503, 504, 529}))

OpenAICompatComplete(delivery, schema) ==
    IF Keyless(delivery) THEN Failure("authentication")
    ELSE IF delivery.kind = "thrown" THEN ErrorForThrow(delivery)
    ELSE IF ~IsSuccess(delivery) THEN OpenAICompatErrorForStatus(delivery)
    ELSE IF ~delivery.body.choices THEN Failure("unknown")
    ELSE LET text == StripThinkBlock(delivery.body.text)
         IN IF schema /\ ~IsJson(text)
            THEN Failure("schema_violation")
            ELSE Completion(text, MapFinishReason(delivery.body.finish, ChatFinish))

\* modelToolCall: an id, a name and an object of arguments, or the turn fails.
IsModelToolCall(call) == call.id # "" /\ call.name # "" /\ call.args = "object"

OpenAICompatParsedArgs(shape) == IF shape = "object_text" THEN "object" ELSE shape

OpenAICompatCallTool(delivery) ==
    LET result == OpenAICompatComplete(delivery, FALSE)
        calls  == [i \in DOMAIN delivery.body.calls |->
                     [delivery.body.calls[i] EXCEPT !.args = OpenAICompatParsedArgs(@)]]
    IN IF ~result.ok THEN result
       ELSE IF \E i \in DOMAIN calls : ~IsModelToolCall(calls[i])
       THEN Failure("schema_violation")
       ELSE ToolReply(result.text, result.finish, calls)

-----------------------------------------------------------------------------
(* anthropic-real.ts: no think block, no billing text, no 503, and a body  *)
(* without content is an empty completion.                                 *)
AnthropicErrorForStatus(response) == Failure(CategoryOf(response.status, {408, 504, 529}))

AnthropicText(body) == IF body.choices THEN body.text ELSE "empty"

AnthropicComplete(delivery, schema) ==
    IF Keyless(delivery) THEN Failure("authentication")
    ELSE IF delivery.kind = "thrown" THEN ErrorForThrow(delivery)
    ELSE IF ~IsSuccess(delivery) THEN AnthropicErrorForStatus(delivery)
    ELSE LET text == AnthropicText(delivery.body)
         IN IF schema /\ ~IsJson(text)
            THEN Failure("schema_violation")
            ELSE Completion(text, MapFinishReason(delivery.body.finish, AnthropicFinish))

AnthropicCallTool(delivery) ==
    LET result == AnthropicComplete(delivery, FALSE)
        calls  == IF delivery.body.choices THEN delivery.body.calls ELSE <<>>
    IN IF ~result.ok THEN result
       ELSE IF \E i \in DOMAIN calls : ~IsModelToolCall(calls[i])
       THEN Failure("schema_violation")
       ELSE ToolReply(result.text, result.finish, calls)

-----------------------------------------------------------------------------
(* The measurement prototypes.  Only the first tool call is read, and a    *)
(* call that is not well formed is repaired instead of refused.            *)
PrototypeErrorForStatus(response) == Failure(CategoryOf(response.status, {408, 504}))

PrototypeArgs(shape) ==
    CASE shape = "missing" -> "null"
      [] shape = "array"   -> "array"
      [] shape \in {"object_text", "object"} -> "object"
      [] OTHER -> "empty_object"

FirstCall(calls) ==
    <<[id |-> calls[1].id, name |-> calls[1].name, args |-> PrototypeArgs(calls[1].args)]>>

LiteLlmComplete(delivery, schema) ==
    IF Keyless(delivery) THEN Failure("authentication")
    ELSE IF delivery.kind = "thrown" THEN PrototypeErrorForThrow(delivery)
    ELSE IF ~IsSuccess(delivery) THEN PrototypeErrorForStatus(delivery)
    ELSE IF ~delivery.body.choices THEN Failure("unknown")
    ELSE IF schema /\ ~IsJson(delivery.body.text) THEN Failure("schema_violation")
    ELSE Completion(delivery.body.text, MapFinishReason(delivery.body.finish, ChatFinish))

LiteLlmCallTool(delivery) ==
    LET result == LiteLlmComplete(delivery, FALSE)
    IN IF ~result.ok THEN result
       ELSE IF delivery.body.calls = <<>> THEN ToolReply(result.text, result.finish, <<>>)
       ELSE ToolReply(result.text, "tool_use", FirstCall(delivery.body.calls))

\* A model id without a known vendor is refused before anything is sent.
VercelRouted(vendor) == vendor \in {"anthropic", "openai", "google"}

VercelComplete(delivery, schema, vendor) ==
    IF Keyless(delivery) THEN Failure("authentication")
    ELSE IF ~VercelRouted(vendor) THEN Failure("model_not_found")
    ELSE IF delivery.kind = "thrown" THEN PrototypeErrorForThrow(delivery)
    ELSE IF ~IsSuccess(delivery) THEN PrototypeErrorForStatus(delivery)
    ELSE IF schema /\ ~IsJson(AnthropicText(delivery.body)) THEN Failure("schema_violation")
    ELSE Completion(AnthropicText(delivery.body),
                    MapFinishReason(delivery.body.finish, GatewayFinish))

VercelCallTool(delivery, vendor) ==
    LET result == VercelComplete(delivery, FALSE, vendor)
        calls  == IF delivery.body.choices THEN delivery.body.calls ELSE <<>>
    IN IF ~result.ok THEN result
       ELSE IF calls = <<>> THEN ToolReply(result.text, result.finish, <<>>)
       ELSE ToolReply(result.text, "tool_use", FirstCall(calls))

-----------------------------------------------------------------------------
(* The bridges of the two real adapters.  A thrown ProviderError becomes a *)
(* failed outcome with a provider failure; a plain Error one without.      *)
FailedBy(result) == [status |-> "failed", text |-> "empty", provider |-> result.category]

OpenAICompatExecute(result) ==
    IF ~result.ok THEN FailedBy(result)
    ELSE IF result.text = "empty" /\ result.finish = "length"
    THEN [status |-> "failed", text |-> "empty", provider |-> "none"]
    ELSE [status |-> "completed", text |-> result.text, provider |-> "none"]

AnthropicExecute(result) ==
    IF ~result.ok THEN FailedBy(result)
    ELSE [status |-> "completed", text |-> result.text, provider |-> "none"]

\* The verdict of the JSON object, or of a regex over the raw text.
ExtractVerdict(text) ==
    CASE text = "yes"     -> "yes"
      [] text = "no"      -> "no"
      [] text = "cut_yes" -> "yes"
      [] OTHER            -> "unsure"

OpenAICompatJudge(result) == IF result.ok THEN ExtractVerdict(result.text) ELSE "throws"
AnthropicJudge(result)    == IF result.ok THEN ExtractVerdict(result.text) ELSE "throws"

\* A router that answers no JSON object routes to no skill, and says nothing.
OpenAICompatSelectSkill(result) ==
    IF ~result.ok THEN "throws" ELSE IF result.text = "yes" THEN "chosen" ELSE "none"
AnthropicSelectSkill(result) ==
    IF ~result.ok THEN "throws" ELSE IF result.text = "yes" THEN "chosen" ELSE "none"

-----------------------------------------------------------------------------
(* The stubs: refused without J_RIG_ALLOW_STUB=1, then always agreeable.   *)
StubRefused(allowed) == ~allowed
StubSelectSkill(roster) == IF roster = <<>> THEN "none" ELSE Head(roster)
StubExecute(failing) == IF failing THEN "throws" ELSE "completed"
StubJudge(failing) == IF failing THEN "throws" ELSE "yes"
=============================================================================
