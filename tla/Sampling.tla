------------------------------ MODULE Sampling ------------------------------
(***************************************************************************)
(* core/src/sampling/substrate.ts: the balanced top-up plan.  A sample is  *)
(* a cell (Task x Config x Model) and a sample index; `row' maps every     *)
(* sample to the status of its raw run, "absent" when there is none.       *)
(***************************************************************************)
EXTENDS Integers, FiniteSets, Sequences, SequencesExt

Reserved == {"pending", "running"}

\* Array.filter: what a sequence has at the given positions, in its order.
Filter(seq, positions) ==
    LET kept[n \in 0..Len(seq)] ==
            IF n = 0 THEN <<>>
            ELSE IF n \in positions THEN Append(kept[n - 1], seq[n]) ELSE kept[n - 1]
    IN  kept[Len(seq)]

HarnessFailure == {"runner_error", "timed_out"}

Present(row, cell) == {s \in DOMAIN row : s.cell = cell /\ row[s] # "absent"}

CountIn(row, cell, statuses) == Cardinality({s \in Present(row, cell) : row[s] \in statuses})

CompletedCount(row, cell) == CountIn(row, cell, {"completed"})

\* Mutant: a pending row does not hold its slot.
ActiveCountRunning(row, cell) == CountIn(row, cell, {"running"})

ActiveCount(row, cell) == CountIn(row, cell, Reserved)

NextSampleIndex(row, cell) == Max({0} \cup {s.index + 1 : s \in Present(row, cell)})

\* The samples of one pass over the cells: a cell whose completed, active
\* and already planned samples reach the target is passed over.
PlannedPass(row, cells, target, passes) ==
    LET due == [c \in Range(cells) |->
                   CompletedCount(row, c) + ActiveCount(row, c) + passes < target]
        open == Filter(cells, {k \in DOMAIN cells : due[cells[k]]})
    IN  [k \in 1..Len(open) |->
            [cell |-> open[k], index |-> NextSampleIndex(row, open[k]) + passes]]

(* planBalancedSamples: target-many passes.  A cell still open in a pass   *)
(* was open in every earlier one, so it has `passes' planned samples then. *)
PlanBalancedSamples(row, cells, target) ==
    FlattenSeq([pass \in 1..target |-> PlannedPass(row, cells, target, pass - 1)])
=============================================================================
