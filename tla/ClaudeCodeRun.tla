---------------------------- MODULE ClaudeCodeRun ----------------------------
(***************************************************************************)
(* One case of the claude-code execution provider: the stream of the agent *)
(* is parsed while it runs, and a turn budget, a wall clock and the        *)
(* no-API-key rule may end it.  An action is one callback.  The agent is   *)
(* not under src/: it prints an init line, then assistant turns, then one  *)
(* result line, and may stop anywhere.                                     *)
(***************************************************************************)
EXTENDS ProcessGroup

CONSTANT MaxTurns  \* maxTurns, also the bound of the model

ASSUME TurnsAssumption == MaxTurns \in Nat

VARIABLES group,    \* the operating system's side
          timer,    \* wall, killTimer and drainTimer
          stop,     \* why the host terminated the agent, "none" if it did not
          parsed,   \* what ClaudeStreamParser has seen
          tail,     \* a last line without its newline, still in its buffer
          refusal,  \* whether the stream reported an API key
          result    \* how execute() ended, "none" while it has not

claudeVars == <<group, timer, stop, parsed, tail, refusal, result>>

Line == {"subscription", "key", "turn", "success", "failure", "out_of_turns", "out_of_budget"}
Verdicts == {"success", "failure", "out_of_turns", "out_of_budget"}

Nothing == [init |-> "absent", turns |-> 0, verdict |-> "absent"]

\* The lines the agent may print next.
NextLines ==
    IF tail # "none" \/ parsed.verdict # "absent" THEN {}
    ELSE IF parsed.init = "absent" THEN {"subscription", "key"}
    ELSE Verdicts \cup (IF parsed.turns <= MaxTurns THEN {"turn"} ELSE {})

\* ClaudeStreamParser: #onInit, #onAssistant, #onResult.
Parse(seen, line) ==
    CASE line \in {"subscription", "key"} -> [seen EXCEPT !.init = line]
      [] line = "turn" -> [seen EXCEPT !.turns = @ + 1]
      [] line \in Verdicts -> [seen EXCEPT !.verdict = line]
      [] OTHER -> seen

ClaudeInit ==
    /\ group \in FreshGroups
    /\ timer = [timeout |-> "armed", kill |-> "off", force |-> "off"]
    /\ stop = "none"
    /\ parsed = Nothing
    /\ tail = "none"
    /\ refusal = FALSE
    /\ result = "none"

Running == result = "none"

\* Mutant: the reason of the last termination wins over the parsed result.
FinalStopByResult(seen) ==
    IF seen.verdict = "success" THEN "completed"
    ELSE IF stop # "none" THEN stop
    ELSE IF seen.verdict = "absent" THEN "no_result"
    ELSE IF seen.verdict = "out_of_turns" THEN "max_turns"
    ELSE IF seen.verdict = "out_of_budget" THEN "budget"
    ELSE "error"

\* finish(): the stop the trajectory records.
FinalStop(seen) ==
    IF stop # "none" THEN stop
    ELSE IF seen.verdict = "absent" THEN "no_result"
    ELSE IF seen.verdict = "out_of_turns" THEN "max_turns"
    ELSE IF seen.verdict = "out_of_budget" THEN "budget"
    ELSE IF seen.verdict = "failure" THEN "error"
    ELSE "completed"

\* execute() after #run: refused, a provider failure, or an output, which
\* carries an error unless the run completed.
Outcome(seen) ==
    IF refusal THEN "refused"
    ELSE IF FinalStop(seen) = "no_result" THEN "provider_error"
    ELSE FinalStop(seen)

Finish ==
    /\ parsed' = Parse(parsed, tail)
    /\ tail' = "none"
    /\ result' = Outcome(parsed')
    /\ timer' = [t \in DOMAIN timer |-> IF timer[t] = "armed" THEN "done" ELSE timer[t]]
    /\ UNCHANGED <<group, stop, refusal>>

\* terminate(): the first reason counts; SIGTERM, and SIGKILL after a grace.
\* `lapsed' is the wall timer when it is the one that calls.
Terminate(why, lapsed) ==
    IF stop # "none" THEN timer' = lapsed /\ UNCHANGED <<group, stop>>
    ELSE /\ stop' = why
         /\ group' \in AfterTerm(group)
         /\ timer' = [lapsed EXCEPT !.kill = "armed"]

WallFires ==
    /\ Running /\ timer.timeout = "armed"
    /\ Terminate("timeout", [timer EXCEPT !.timeout = "done"])
    /\ UNCHANGED <<parsed, tail, refusal, result>>

ClaudeKillFires ==
    /\ Running /\ timer.kill = "armed"
    /\ group' \in AfterKill(group)
    /\ timer' = [timer EXCEPT !.kill = "done", !.force = "armed"]
    /\ UNCHANGED <<stop, parsed, tail, refusal, result>>

DrainFires == Running /\ timer.force = "armed" /\ Finish

\* A chunk of stdout that ends a line: first the key, then the turn budget.
Data(line) ==
    /\ Running /\ line \in NextLines
    /\ group.leader.code # "unspawned"
    /\ parsed' = Parse(parsed, line)
    /\ refusal' = (refusal \/ line = "key")
    /\ IF line = "key" THEN Terminate("error", timer)
       ELSE IF parsed'.turns > MaxTurns THEN Terminate("max_turns", timer)
       ELSE UNCHANGED <<group, stop, timer>>
    /\ UNCHANGED <<tail, result>>

\* The agent's last line comes without its newline.
Unterminated(line) ==
    /\ Running /\ line \in NextLines
    /\ group.leader.code # "unspawned"
    /\ tail' = line
    /\ UNCHANGED <<group, timer, stop, parsed, refusal, result>>

\* "error": the agent could not be started.
SpawnFails ==
    /\ Running /\ group.leader.code = "unspawned"
    /\ result' = "provider_error"
    /\ timer' = [t \in DOMAIN timer |-> IF timer[t] = "armed" THEN "done" ELSE timer[t]]
    /\ UNCHANGED <<group, stop, parsed, tail, refusal>>

ClaudeClose ==
    /\ Running /\ PipesFree(group) /\ group.leader.code # "unspawned"
    /\ Finish

AgentMoves ==
    /\ group' \in LeaderExits(group) \cup HelperExits(group)
    /\ UNCHANGED <<timer, stop, parsed, tail, refusal, result>>

ClaudeCallback == WallFires \/ ClaudeKillFires \/ DrainFires \/ SpawnFails \/ ClaudeClose

ClaudeOver == ~Running /\ UNCHANGED claudeVars

ClaudeNext ==
    \/ ClaudeCallback
    \/ \E line \in Line : Data(line) \/ Unterminated(line)
    \/ AgentMoves
    \/ ClaudeOver

-----------------------------------------------------------------------------
ClaudeTypeOK ==
    /\ group \in Groups
    /\ timer \in [{"timeout", "kill", "force"} -> {"off", "armed", "done"}]
    /\ stop \in {"none", "timeout", "error", "max_turns"}
    /\ parsed \in [init : {"absent", "subscription", "key"}, turns : 0..MaxTurns + 2,
                   verdict : Verdicts \cup {"absent"}]
    /\ tail \in Line \cup {"none"}
    /\ refusal \in BOOLEAN
    /\ result \in {"none", "refused", "provider_error", "timeout", "error", "max_turns",
                   "budget", "completed"}

(* An output is graded only when the agent ended the case itself: its own  *)
(* success line was read, inside the turn budget, on the subscription, and *)
(* the host had not begun to terminate it.                                 *)
GradedIsComplete ==
    result = "completed" =>
        /\ parsed.verdict = "success" /\ parsed.init = "subscription"
        /\ parsed.turns <= MaxTurns
        /\ stop = "none" /\ ~group.leader.signalled

(* Once a case ended no timer is left that could signal another process.   *)
ClaudeQuiet == result # "none" => \A t \in DOMAIN timer : timer[t] # "armed"

=============================================================================
