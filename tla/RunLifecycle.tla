---------------------------- MODULE RunLifecycle ----------------------------
(***************************************************************************)
(* The `runs' table's status column and its legal transitions              *)
(* (db/src/lifecycle.ts, db/src/evidence.ts).  "absent" is a row that has  *)
(* not been inserted.                                                      *)
(***************************************************************************)

RunStatus == {"pending", "running", "completed", "failed", "timed_out", "canceled"}

Transitions(from) ==
    CASE from = "pending" -> {"running", "canceled"}
      [] from = "running" -> {"completed", "failed", "timed_out", "canceled"}
      [] OTHER -> {}

IsTerminal(status) == status \in RunStatus /\ Transitions(status) = {}

\* createRun inserts a "pending" row; transitionRun throws on an illegal step.
CreateRun(table, table2, run) ==
    /\ table[run] = "absent"
    /\ table2 = [table EXCEPT ![run] = "pending"]

TransitionRun(table, table2, run, to) ==
    /\ to \in Transitions(table[run])
    /\ table2 = [table EXCEPT ![run] = to]
=============================================================================
