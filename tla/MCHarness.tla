------------------------------ MODULE MCHarness ------------------------------
(***************************************************************************)
(* The two hosts of a child process, over every child: the runner of       *)
(* `j-rig run' and the claude-code provider.  They share the system's side *)
(* of the child, the timers and the result; `driver' says which one runs.  *)
(***************************************************************************)
EXTENDS ClaudeCodeRun

VARIABLES driver, heard, cause, host, guarded

Exec == INSTANCE ExecutableRunner

runner == <<heard, cause, host, guarded>>
stream == <<stop, parsed, tail, refusal>>
vars   == <<driver, runner, group, timer, stream, result>>

Init ==
    /\ driver \in {"executable", "claude-code"}
    /\ Exec!RunnerInit
    /\ ClaudeInit

ExecutableNext == driver = "executable" /\ Exec!RunnerNext /\ UNCHANGED <<driver, stream>>
AgentNext      == driver = "claude-code" /\ ClaudeNext /\ UNCHANGED <<driver, runner>>

Next == ExecutableNext \/ AgentNext

\* The event loop delivers what is due, whichever host it belongs to.
Due == (driver = "executable" /\ Exec!Callback /\ UNCHANGED <<driver, stream>>)
       \/ (driver = "claude-code" /\ ClaudeCallback /\ UNCHANGED <<driver, runner>>)

Spec == Init /\ [][Next]_vars

FairSpec == Spec /\ WF_vars(Due)

(* "completed" means complete: the generic runner says it only of a        *)
(* harness that ended on its own with a declared code and whose whole      *)
(* output it holds, and a claude-code output is graded only when the agent *)
(* itself ended the case.                                                  *)
CompletedIsHonest ==
    IF driver = "executable" THEN Exec!CompletedIsHonest ELSE GradedIsComplete

(* What the kill escalation of the generic runner leaves behind: after an  *)
(* overflow nothing, after a timeout nothing but a helper deaf to SIGTERM. *)
EscalationReaches == driver = "executable" => Exec!EscalationReaches

(* Nothing outlives its host: an interrupted runner leaves no process of   *)
(* the harness group, and after either host has its result no timer is     *)
(* left that could signal a process id the system gave to somebody else.   *)
NothingOutlivesTheHost ==
    /\ driver = "executable" => Exec!HostLeavesNothing
    /\ IF driver = "executable" THEN Exec!QuietAfterSettle ELSE ClaudeQuiet

(* Every child is settled, whatever it ignores, holds or prints.           *)
EverySettles == <>(result # "none" \/ host = "down")
=============================================================================
