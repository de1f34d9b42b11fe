---------------------------- MODULE EvalContract ----------------------------
(***************************************************************************)
(* What one invocation of `j-rig eval' promises about its --models list,   *)
(* without budgets, phases, calls or evidence: the models are evaluated    *)
(* one after the other, each ends with a verdict, an infrastructure error  *)
(* or a budget stop, a budget stop skips every later model, and the exit   *)
(* code summarises how they ended.  The process may also abort (exit 1) or *)
(* be killed at any time, and then promises nothing more.                  *)
(***************************************************************************)
EXTENDS Integers

CONSTANT N  \* how many models the invocation evaluates, at least one

VARIABLES outcome,  \* how the evaluation of each model stands
          exit      \* "alive" until the process ends

Position == 1..N
Finished == {"verdict", "error"}

ContractTypeOK ==
    /\ outcome \in [Position -> {"waiting", "running", "stopped", "skipped"} \cup Finished]
    /\ exit \in {"alive", "killed", "0", "1", "2", "3"}

ContractInit ==
    /\ outcome = [i \in Position |-> "waiting"]
    /\ exit = "alive"

Begin(i) ==
    /\ exit = "alive"
    /\ outcome[i] = "waiting"
    /\ \A j \in Position : j < i => outcome[j] \in Finished
    /\ outcome' = [outcome EXCEPT ![i] = "running"]
    /\ UNCHANGED exit

Settle(i) ==
    /\ exit = "alive"
    /\ outcome[i] = "running"
    /\ \E how \in Finished : outcome' = [outcome EXCEPT ![i] = how]
    /\ UNCHANGED exit

StopAll(i) ==
    /\ exit = "alive"
    /\ outcome[i] = "running"
    /\ outcome' = [j \in Position |-> IF j < i THEN outcome[j]
                                      ELSE IF j = i THEN "stopped" ELSE "skipped"]
    /\ UNCHANGED exit

\* The exit code of an invocation that ran to its end: 3 wins over 2.
ExitCode(how) ==
    IF \E i \in Position : how[i] = "stopped" THEN "3"
    ELSE IF \E i \in Position : how[i] = "error" THEN "2"
    ELSE "0"

Finish ==
    /\ exit = "alive"
    /\ \A i \in Position : outcome[i] \notin {"waiting", "running"}
    /\ exit' = ExitCode(outcome)
    /\ UNCHANGED outcome

BreakOff ==
    /\ exit = "alive"
    /\ exit' \in {"1", "killed"}
    /\ UNCHANGED outcome

ContractNext ==
    \/ \E i \in Position : Begin(i) \/ Settle(i) \/ StopAll(i)
    \/ Finish
    \/ BreakOff

ContractSpec == ContractInit /\ [][ContractNext]_<<outcome, exit>>
=============================================================================
