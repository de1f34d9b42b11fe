---------------------------- MODULE SampleLedger ----------------------------
(***************************************************************************)
(* What the raw-run store promises whoever writes to it: a sample is       *)
(* opened once, sealed once, and graded only after it completed; no grade  *)
(* and no outcome is ever taken back.                                      *)
(***************************************************************************)
CONSTANTS Samples, Snapshots

VARIABLES outcome,    \* per sample: "none", "open", "completed" or "failed"
          graded      \* per sample, the grader snapshots it was graded with

Init ==
    /\ outcome = [s \in Samples |-> "none"]
    /\ graded = [s \in Samples |-> {}]

Open(s) ==
    /\ outcome[s] = "none"
    /\ outcome' = [outcome EXCEPT ![s] = "open"]
    /\ UNCHANGED graded

Seal(s) ==
    /\ outcome[s] = "open"
    /\ \E o \in {"completed", "failed"} : outcome' = [outcome EXCEPT ![s] = o]
    /\ UNCHANGED graded

Grade(s) ==
    /\ outcome[s] = "completed"
    /\ \E g \in Snapshots \ graded[s] : graded' = [graded EXCEPT ![s] = @ \cup {g}]
    /\ UNCHANGED outcome

Next == \E s \in Samples : Open(s) \/ Seal(s) \/ Grade(s)

Spec == Init /\ [][Next]_<<outcome, graded>>
=============================================================================
