--------------------------- MODULE ExecutableRunner ---------------------------
(***************************************************************************)
(* ExecutableRunner.run(): one harness in a process group of its own, from *)
(* spawn to the sealed result.  An action is one callback of the host: a   *)
(* timer, an event of the child, a chunk of output, a signal.              *)
(***************************************************************************)
EXTENDS ProcessGroup

VARIABLES group,    \* the operating system's side
          timer,    \* timeoutHandle, killHandle, forceHandle
          heard,    \* `exited': the code of the "exit" event, "none" before it
          cause,    \* timedOut, overflowStream and processError, as flags
          result,   \* the sealed status, "none" while the promise is pending
          host,     \* "up", or "down" once the host process has ended
          guarded   \* whether the host's signal and exit handlers are attached

runnerVars == <<group, timer, heard, cause, result, host, guarded>>

Timer == {"off", "armed", "done"}
Causes == {"timed_out", "overflow", "process_error"}

Pending == result = "none" /\ host = "up"

RunnerInit ==
    /\ group \in FreshGroups
    /\ timer = [timeout |-> "armed", kill |-> "off", force |-> "off"]
    /\ heard = "none"
    /\ cause = {}
    /\ result = "none"
    /\ host = "up"
    /\ guarded = TRUE

\* Mutant: only the leader is signalled.
KillTreeLeaderOnly(signal) ==
    \E g \in IF signal = "SIGTERM" THEN AfterTerm(group) ELSE AfterKill(group) :
        group' = [g EXCEPT !.helper = group.helper]

\* killTree(): the whole group, or nobody when it is gone.
KillTree(signal) == group' \in IF signal = "SIGTERM" THEN AfterTerm(group) ELSE AfterKill(group)

\* Mutant: an overflow is forgotten when the harness then exits well.
StatusOfExit(code) ==
    IF "timed_out" \in cause THEN "timed_out"
    ELSE IF "process_error" \in cause \/ code # "ok" THEN "runner_error"
    ELSE "completed"

StatusOf(code) ==
    IF "timed_out" \in cause THEN "timed_out"
    ELSE IF cause # {} \/ code # "ok" THEN "runner_error"
    ELSE "completed"

\* Mutant: the timers are left running.
FinishKeepingTimers(code) ==
    /\ result' = StatusOf(code)
    /\ guarded' = FALSE
    /\ UNCHANGED timer

\* finish(): seals once, clears every timer, detaches from the host.
Finish(code) ==
    /\ result' = StatusOf(code)
    /\ timer' = [t \in DOMAIN timer |-> IF timer[t] = "armed" THEN "done" ELSE timer[t]]
    /\ guarded' = FALSE

\* armForceFinish(), `??=': the first to arm it sets the delay.
ForceArmed(now) == [now EXCEPT !.force = IF @ = "off" THEN "armed" ELSE @]

TimeoutFires ==
    /\ Pending /\ timer.timeout = "armed"
    /\ IF "overflow" \in cause
       THEN /\ timer' = [timer EXCEPT !.timeout = "done"]
            /\ UNCHANGED <<group, cause>>
       ELSE /\ timer' = [timer EXCEPT !.timeout = "done", !.kill = "armed"]
            /\ cause' = cause \cup {"timed_out"}
            /\ KillTree("SIGTERM")
    /\ UNCHANGED <<heard, result, host, guarded>>

\* Mutant: after SIGKILL the run waits for the pipes to close.
KillFiresPatiently ==
    /\ Pending /\ timer.kill = "armed"
    /\ KillTree("SIGKILL")
    /\ timer' = [timer EXCEPT !.kill = "done"]
    /\ UNCHANGED <<heard, cause, result, host, guarded>>

KillFires ==
    /\ Pending /\ timer.kill = "armed"
    /\ KillTree("SIGKILL")
    /\ timer' = ForceArmed([timer EXCEPT !.kill = "done"])
    /\ UNCHANGED <<heard, cause, result, host, guarded>>

ForceFires ==
    /\ Pending /\ timer.force = "armed"
    /\ Finish(IF heard = "none" THEN "signal" ELSE heard)
    /\ UNCHANGED <<group, heard, cause, host>>

\* BoundedCapture: the first chunk over the ceiling, from whoever holds a pipe.
Overflow ==
    /\ Pending
    /\ "timed_out" \notin cause /\ "overflow" \notin cause
    /\ group.leader.code # "unspawned"
    /\ cause' = cause \cup {"overflow"}
    /\ KillTree("SIGKILL")
    /\ timer' = ForceArmed(timer)
    /\ UNCHANGED <<heard, result, host, guarded>>

\* "error" of the child that could not be spawned, or of its stdin.
ErrorEvent ==
    /\ Pending
    /\ "process_error" \notin cause
    /\ cause' = cause \cup {"process_error"}
    /\ UNCHANGED <<group, timer, heard, result, host, guarded>>

ExitEvent ==
    /\ Pending /\ heard = "none"
    /\ group.leader.code \notin {"none", "unspawned"}
    /\ heard' = group.leader.code
    /\ UNCHANGED <<group, timer, cause, result, host, guarded>>

CloseEvent ==
    /\ Pending /\ PipesFree(group)
    /\ \/ heard # "none" /\ Finish(heard)
       \/ group.leader.code = "unspawned" /\ "process_error" \in cause /\ Finish("bad")
    /\ UNCHANGED <<group, heard, cause, host>>

\* Mutant: an interrupted host dies without killing the group.
HostInterruptedSilently ==
    /\ host = "up" /\ guarded
    /\ guarded' = FALSE
    /\ host' = "down"
    /\ UNCHANGED <<group, timer, heard, cause, result>>

\* SIGINT, SIGTERM, SIGHUP or process exit while the handlers are attached: a
\* host that has other listeners for the signal goes on.
HostInterrupted ==
    /\ host = "up" /\ guarded
    /\ KillTree("SIGKILL")
    /\ guarded' = FALSE
    /\ host' \in {"up", "down"}
    /\ UNCHANGED <<timer, heard, cause, result>>

GroupMoves ==
    /\ group' \in LeaderExits(group) \cup HelperExits(group)
    /\ UNCHANGED <<timer, heard, cause, result, host, guarded>>

\* The callbacks the event loop owes the run.
Callback == TimeoutFires \/ KillFires \/ ForceFires \/ ExitEvent \/ CloseEvent

RunnerOver == ~Pending /\ UNCHANGED runnerVars

RunnerNext ==
    \/ Callback
    \/ Overflow
    \/ ErrorEvent
    \/ HostInterrupted
    \/ GroupMoves
    \/ RunnerOver

-----------------------------------------------------------------------------
RunnerTypeOK ==
    /\ group \in Groups
    /\ timer \in [{"timeout", "kill", "force"} -> Timer]
    /\ heard \in Code \ {"unspawned"}
    /\ cause \subseteq Causes
    /\ result \in {"none", "completed", "runner_error", "timed_out"}
    /\ host \in {"up", "down"} /\ guarded \in BOOLEAN

(* A run is "completed" only when the harness ended on its own, with a     *)
(* code it declares as completed, with its whole output captured.          *)
CompletedIsHonest ==
    result = "completed" =>
        /\ group.leader.code = "ok" /\ ~group.leader.signalled
        /\ cause = {}

(* What the kill escalation leaves behind: after an overflow nothing, after *)
(* a timeout nothing but a helper that ignores SIGTERM.                     *)
EscalationReaches ==
    result \in {"timed_out", "runner_error"} /\ cause \cap {"timed_out", "overflow"} # {} =>
        \/ GroupEmpty(group)
        \/ "timed_out" \in cause /\ group.helper.deaf /\ ~group.leader.alive

(* Once the run is sealed no timer is left that could signal a process id  *)
(* the system may have given to somebody else.                             *)
QuietAfterSettle == result # "none" => \A t \in DOMAIN timer : timer[t] # "armed"

(* executable-runner.ts:22: an interrupted host leaves no harness group.   *)
HostLeavesNothing == host = "down" /\ result = "none" => GroupEmpty(group)

=============================================================================
