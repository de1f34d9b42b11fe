------------------------------ MODULE ToolLoop ------------------------------
(***************************************************************************)
(* executeWithTools (tool-execution.ts) over one session of tool servers   *)
(* and one provider adapter: turns of the model, calls of the tools, the   *)
(* limits, the timer, and the evidence the run leaves for the judges.      *)
(* Bytes are counted in units: a text and the arguments of a call cost 1.  *)
(***************************************************************************)
EXTENDS McpSession, ProviderAdapters

CONSTANTS Bodies, MaxTurns, MaxCalls, MaxResult, MaxTotal, None

\* A requested call; a reason a case may fail for.
Requested == [id : CallId \cup {""}, name : STRING, args : ArgShape]
Reasons ==
    {"timeout", "turn_limit", "observation_limit", "initialization_failed", "output_limit",
     "incomplete_response", "missing_tool_call", "unexpected_tool_call", "invalid_tool_call",
     "call_or_output_limit", "provider_failure", "call_failed", "cleanup_failed",
     "authentication", "model_not_found", "rate_limit", "network_timeout", "unknown",
     "schema_violation"}

ASSUME LoopAssumption ==
    /\ {MaxTurns, MaxCalls, MaxResult, MaxTotal} \subseteq Nat \ {0}
    /\ Configured \in Seq(Server)
    /\ \A body \in Bodies : body.calls \in Seq(Requested)
    /\ None \notin Reasons

VARIABLES provider,      \* the adapter the bridge drives
          observing,     \* judgeObservations of the configuration
          loop,          \* what executeWithTools awaits
          armed,         \* is the timeout still set
          turn, ids, todo, calls, total,
          events, observations,
          answer, failure,
          outcome        \* what runFunctionalTests stores for the case

control == <<provider, observing, loop, armed, turn, ids, todo, calls, total,
             events, observations, answer, failure, outcome>>
tools   == <<session, fired, control>>

ToolInit ==
    /\ SessionInit
    /\ fired = FALSE /\ armed = TRUE
    /\ provider \in {"openai-compatible", "anthropic"}
    /\ observing \in BOOLEAN
    /\ loop = "open" /\ turn = 0 /\ ids = {} /\ todo = <<>> /\ calls = 0 /\ total = 0
    /\ events = <<>> /\ observations = <<>>
    /\ answer = None /\ failure = None /\ outcome = None

\* Byte length of the observation record: an envelope and what was retained.
ObservationSize(log) ==
    1 + FoldSeq(LAMBDA entry, size : size + 1 + entry.result, 0, log)

\* throw: the catch block names a timeout if the signal fired, else the reason.
Fail(reason) ==
    /\ failure' = IF fired THEN "timeout" ELSE reason
    /\ loop' = "close"
    /\ armed' = FALSE

Stay == UNCHANGED <<armed, failure>>

(* The timer, or the caller's own signal.                                  *)
TimerFires ==
    /\ armed /\ ~fired
    /\ fired' = TRUE
    /\ UNCHANGED <<session, control>>

(* await runtime.open(signal)                                              *)
OpenNext == loop = "open" /\ StartServer /\ UNCHANGED <<fired, control>>
Connected == loop = "open" /\ ServerReady /\ UNCHANGED <<fired, control>>

\* Mutant: the timeout covers the opening only.
OpenedDisarmed ==
    /\ loop = "open" /\ AllReady
    /\ IF observing /\ ObservationSize(<<>>) > MaxTotal
       THEN Fail("observation_limit")
       ELSE loop' = "turn" /\ armed' = FALSE /\ UNCHANGED failure
    /\ UNCHANGED <<session, fired, provider, observing, turn, ids, todo, calls, total,
                   events, observations, answer, outcome>>

Opened ==
    /\ loop = "open" /\ AllReady
    /\ IF observing /\ ObservationSize(<<>>) > MaxTotal
       THEN Fail("observation_limit")
       ELSE loop' = "turn" /\ Stay
    /\ UNCHANGED <<session, fired, provider, observing, turn, ids, todo, calls, total,
                   events, observations, answer, outcome>>

\* open() closes what it started before it throws; there is no session then.
OpenThrows ==
    /\ loop = "open" /\ OpenFails
    /\ CloseSession
    /\ failure' = IF fired THEN "timeout" ELSE "initialization_failed"
    /\ loop' = "report" /\ armed' = FALSE
    /\ UNCHANGED <<fired, provider, observing, turn, ids, todo, calls, total,
                   events, observations, answer, outcome>>

(* The head of the for loop and the call of the model.                     *)
NextTurn ==
    /\ loop = "turn"
    /\ IF fired \/ turn = MaxTurns
       THEN Fail("turn_limit") /\ UNCHANGED turn
       ELSE loop' = "model" /\ turn' = turn + 1 /\ Stay
    /\ UNCHANGED <<session, fired, provider, observing, ids, todo, calls, total,
                   events, observations, answer, outcome>>

CallTool(delivery) ==
    IF provider = "anthropic" THEN AnthropicCallTool(delivery) ELSE OpenAICompatCallTool(delivery)

RequestedIds(requested) == {requested[i].id : i \in DOMAIN requested}

\* Every call of the turn is known, named and new, and the ids are distinct.
ValidTurn(requested) ==
    /\ \A i \in DOMAIN requested :
        /\ requested[i].id # "" /\ requested[i].id \notin ids
        /\ requested[i].name \in Tool
        /\ requested[i].args = "object"
    /\ Cardinality(RequestedIds(requested)) = Len(requested)

TextCost(text) == IF text = "empty" THEN 0 ELSE 1

\* The whole turn is judged before any of its calls goes out.
ReasonToRefuse(result) ==
    LET requested == result.calls
        withText  == total + TextCost(result.text)
    IN CASE withText > MaxTotal -> "output_limit"
         [] withText <= MaxTotal /\ result.finish \in {"length", "error"} -> "incomplete_response"
         [] withText <= MaxTotal /\ result.finish = "tool_use" /\ requested = <<>> ->
              "missing_tool_call"
         [] withText <= MaxTotal /\ result.finish \in {"stop", "refusal"} /\ requested # <<>> ->
              "unexpected_tool_call"
         [] withText <= MaxTotal /\ result.finish = "tool_use" /\ requested # <<>>
              /\ ~ValidTurn(requested) -> "invalid_tool_call"
         [] withText <= MaxTotal /\ result.finish = "tool_use" /\ requested # <<>>
              /\ ValidTurn(requested)
              /\ (calls + Len(requested) > MaxCalls \/ withText + Len(requested) > MaxTotal) ->
              "call_or_output_limit"
         [] OTHER -> "none"

ModelReplies ==
    /\ loop = "model" /\ ~fired
    /\ \E body \in Bodies :
        LET result == CallTool([kind |-> "response", status |-> 200, body |-> body])
        IN IF ~result.ok
           THEN /\ Fail(result.category)
                /\ UNCHANGED <<ids, todo, total, answer>>
           ELSE IF ReasonToRefuse(result) # "none"
           THEN Fail(ReasonToRefuse(result)) /\ UNCHANGED <<ids, todo, total, answer>>
           ELSE IF result.calls = <<>>
           THEN /\ answer' = result.text
                /\ loop' = "close" /\ armed' = FALSE /\ UNCHANGED failure
                /\ total' = total + TextCost(result.text)
                /\ UNCHANGED <<ids, todo>>
           ELSE /\ ids' = ids \cup RequestedIds(result.calls)
                /\ todo' = result.calls
                /\ total' = total + TextCost(result.text) + Len(result.calls)
                /\ loop' = "issue" /\ Stay /\ UNCHANGED answer
    /\ UNCHANGED <<session, fired, provider, observing, turn, calls, events,
                   observations, outcome>>

\* The provider call rejects, or answers after the signal fired.
ModelThrows ==
    /\ loop = "model"
    /\ Fail("provider_failure")
    /\ UNCHANGED <<session, fired, provider, observing, turn, ids, todo, calls, total,
                   events, observations, answer, outcome>>

(* One call of the turn goes to its server.                                *)
Started(call) == [id |-> call.id, status |-> "started", result |-> 0]

BeginCall ==
    /\ loop = "issue"
    /\ LET log == Append(observations, Started(Head(todo)))
       IN IF fired \/ (observing /\ ObservationSize(log) > MaxTotal)
          THEN /\ Fail("observation_limit")
               /\ UNCHANGED <<session, calls, events, observations>>
          ELSE /\ observations' = IF observing THEN log ELSE observations
               /\ calls' = calls + 1
               /\ events' = Append(events, "started")
               /\ IssueCall(Head(todo).id)
               /\ loop' = "call" /\ Stay
    /\ UNCHANGED <<fired, provider, observing, turn, ids, todo, total, answer, outcome>>

Completed(log, size) ==
    [log EXCEPT ![Len(log)] = [@ EXCEPT !.status = "completed", !.result = size]]

\* A result comes back: its server acted.  It is bounded before it is used.
CallReturns ==
    /\ loop = "call"
    /\ Head(todo).id \in effects
    /\ \E size \in 1..MaxResult + 1 :
        LET log == IF observing THEN Completed(observations, size) ELSE observations
            tooLarge == size > MaxResult \/ total + size > MaxTotal
        IN /\ total' = total + size
           /\ IF fired \/ tooLarge \/ (observing /\ ObservationSize(log) > MaxTotal)
              THEN /\ Fail(IF tooLarge THEN "output_limit" ELSE "observation_limit")
                   /\ UNCHANGED <<todo, events, observations>>
              ELSE /\ observations' = log
                   /\ events' = [events EXCEPT ![Len(events)] = "completed"]
                   /\ todo' = Tail(todo)
                   /\ loop' = IF Len(todo) = 1 THEN "turn" ELSE "issue"
                   /\ Stay
    /\ UNCHANGED <<session, fired, provider, observing, turn, ids, calls, answer, outcome>>

\* The call rejects: cancelled, timed out, a server that died.
CallThrows ==
    /\ loop = "call"
    /\ Fail("call_failed")
    /\ UNCHANGED <<session, fired, provider, observing, turn, ids, todo, calls, total,
                   events, observations, answer, outcome>>

(* finally: the servers go down; a client that rejects spoils a success.   *)
Close ==
    /\ loop = "close"
    /\ CloseSession
    /\ failure' \in IF failure = None THEN {None, "cleanup_failed"} ELSE {failure}
    /\ loop' = "report"
    /\ UNCHANGED <<fired, provider, observing, armed, turn, ids, todo, calls, total,
                   events, observations, answer, outcome>>

\* Mutant: only the calls that returned are reported.
ReportCompletedOnly ==
    /\ loop = "report"
    /\ outcome' = [status |-> IF failure = None THEN "completed" ELSE "failed",
                   tool_calls |-> Cardinality({i \in DOMAIN events : events[i] = "completed"}), observations |-> observations,
                   provider_failure |-> failure]
    /\ loop' = "done"
    /\ UNCHANGED <<session, fired, provider, observing, armed, turn, ids, todo, calls, total,
                   events, observations, answer, failure>>

\* The result or the ToolExecutionError, as runFunctionalTests records it.
Report ==
    /\ loop = "report"
    /\ outcome' = [status |-> IF failure = None THEN "completed" ELSE "failed",
                   tool_calls |-> calls, observations |-> observations,
                   provider_failure |-> failure]
    /\ loop' = "done"
    /\ UNCHANGED <<session, fired, provider, observing, armed, turn, ids, todo, calls, total,
                   events, observations, answer, failure>>

ActLate == ServerActs /\ UNCHANGED <<fired, control>>

\* What the loop does by itself once something it awaits is there.
LoopStep == OpenNext \/ Opened \/ NextTurn \/ BeginCall \/ Close \/ Report
\* What an operation that honours the signal owes after the signal fired.
Honoured == fired /\ (OpenThrows \/ ModelThrows \/ CallThrows)

ToolNext ==
    \/ LoopStep \/ Connected \/ OpenThrows \/ TimerFires \/ ModelReplies \/ ModelThrows
    \/ CallReturns \/ CallThrows \/ ActLate

-----------------------------------------------------------------------------
ToolTypeOK ==
    /\ SessionTypeOK
    /\ loop \in {"open", "turn", "model", "issue", "call", "close", "report", "done"}
    /\ turn \in 0..MaxTurns /\ calls \in 0..MaxCalls
    /\ ids \subseteq CallId /\ Len(events) = calls
    /\ total \in 0..MaxTotal + MaxResult + 1

\* getJudgeObservations (evidence.ts), which throws and so stops the eval.
JudgeAccepts(case) ==
    /\ ~(ObservationSize(case.observations) > MaxTotal)
    /\ \A i \in DOMAIN case.observations : case.observations[i].status = "completed"
    /\ Len(case.observations) = case.tool_calls
    /\ Cardinality({case.observations[i].id : i \in DOMAIN case.observations})
         = Len(case.observations)

\* The evidence of a completed case is what the judging phase accepts.
EvidenceIsAccepted ==
    outcome # None /\ outcome.status = "completed" /\ observing => JudgeAccepts(outcome)

\* What the servers did is never more than the case reports.
EffectsAreReported == outcome # None => Cardinality(effects) <= outcome.tool_calls

\* A refused turn has had no effect, and no call is ever issued twice.
RefusedTurnIsHarmless ==
    /\ issued \subseteq ids /\ calls = Cardinality(issued)
    /\ failure \in {"invalid_tool_call", "unexpected_tool_call", "call_or_output_limit",
                    "schema_violation", "incomplete_response"}
       => \A i \in DOMAIN events : events[i] = "completed"

\* No server survives the case.
SessionsAreClosed == loop = "done" => NoServerLeft

(* However a case ends (an answer, a refused turn, a limit, a timeout in   *)
(* mid-call, a server that dies): its report accounts for every effect it  *)
(* had, its evidence never stops the eval, nothing of a refused turn went  *)
(* out, and no server is left running.                                     *)
CaseIsAccountable ==
    /\ EvidenceIsAccepted
    /\ EffectsAreReported
    /\ RefusedTurnIsHarmless
    /\ SessionsAreClosed

(* A case ends, even over a provider or a server that never answers.       *)
CaseEnds == <>(loop = "done")
=============================================================================
