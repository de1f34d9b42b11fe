---------------------------- MODULE MCEvalSuite -----------------------------
(***************************************************************************)
(* Instances of EvalSuite for TLC: one suite that is interrupted and       *)
(* resumed, and two that share a database.                                 *)
(***************************************************************************)
EXTENDS EvalSuite

CONSTANTS c1, c2, p1, p2, d1, d2

MCCell == {c1, c2}
MCProcess == {p1, p2}
MCDir == {d1, d2}

OneCell == [cells |-> <<c1>>, target |-> 2, dir |-> (p1 :> d1), regrade |-> FALSE,
            snapshots |-> 1, throws |-> {}, kills |-> 2]

\* One process at a time; two cells, anything may throw, the grader changes.
AloneWorlds ==
    {OneCell,
     [OneCell EXCEPT !.cells = <<c1, c2>>],
     [OneCell EXCEPT !.throws = ThrowPlace],
     [OneCell EXCEPT !.snapshots = 2],
     [OneCell EXCEPT !.snapshots = 2, !.regrade = TRUE, !.throws = {"judge"}]}

\* Two processes, in one output directory or in two.
SharedWorlds ==
    {[OneCell EXCEPT !.dir = (p1 :> d1 @@ p2 :> d1), !.target = 1, !.kills = 1,
                     !.throws = ThrowPlace \ {"create"}],
     [OneCell EXCEPT !.dir = (p1 :> d1 @@ p2 :> d2), !.kills = 0]}

ResumedWorlds == AloneWorlds \cup SharedWorlds

\* A judge that fails once while a run is graded.
JudgeFailsOnce == {[OneCell EXCEPT !.throws = {"judge"}, !.kills = 0]}
=============================================================================
