---------------------------- MODULE ProcessGroup ----------------------------
(***************************************************************************)
(* What the operating system does with a detached child: a leader, whose   *)
(* exit the host hears of, and one process it started, the helper.  The    *)
(* helper may have left the group, may hold the output pipes, and either   *)
(* may be deaf to SIGTERM.                                                 *)
(***************************************************************************)
EXTENDS Naturals

Code == {"none", "ok", "bad", "signal", "unspawned"}

Groups == [leader : [alive : BOOLEAN, deaf : BOOLEAN, code : Code, signalled : BOOLEAN],
           helper : [alive : BOOLEAN, deaf : BOOLEAN, grouped : BOOLEAN, holds : BOOLEAN]]

Leader(alive, deaf, code) ==
    [alive |-> alive, deaf |-> deaf, code |-> code, signalled |-> FALSE]

\* As spawned, or not spawned at all (the command does not exist).
FreshGroups ==
    {g \in [leader : {Leader(TRUE, deaf, "none") : deaf \in BOOLEAN},
            helper : [alive : BOOLEAN, deaf : BOOLEAN, grouped : BOOLEAN, holds : BOOLEAN]] :
        ~g.helper.alive => g.helper = [alive |-> FALSE, deaf |-> FALSE,
                                       grouped |-> FALSE, holds |-> FALSE]}
    \cup {[leader |-> Leader(FALSE, FALSE, "unspawned"),
           helper |-> [alive |-> FALSE, deaf |-> FALSE, grouped |-> FALSE, holds |-> FALSE]]}

\* The leader after a signal; one that handles SIGTERM may still choose its code.
Signalled(leader, codes) ==
    IF leader.alive
    THEN {[leader EXCEPT !.alive = FALSE, !.code = code, !.signalled = TRUE] : code \in codes}
    ELSE {leader}

SilenceHelper(helper) == [helper EXCEPT !.alive = @ /\ ~helper.grouped]

\* kill(-pid, SIGTERM) and kill(-pid, SIGKILL): everything still in the group.
AfterTerm(group) ==
    [leader : IF group.leader.deaf
              THEN {[group.leader EXCEPT !.signalled = @ \/ group.leader.alive]}
              ELSE Signalled(group.leader, {"ok", "bad", "signal"}),
     helper : {IF group.helper.deaf THEN group.helper ELSE SilenceHelper(group.helper)}]

AfterKill(group) ==
    [leader : Signalled(group.leader, {"signal"}), helper : {SilenceHelper(group.helper)}]

PipesFree(group) ==
    /\ ~group.leader.alive
    /\ ~(group.helper.alive /\ group.helper.holds)

\* Processes end on their own, when and as they like.
LeaderExits(group) ==
    {[group EXCEPT !.leader.alive = FALSE, !.leader.code = code] :
        code \in IF group.leader.alive THEN {"ok", "bad"} ELSE {}}

HelperExits(group) ==
    {[group EXCEPT !.helper.alive = FALSE] : once \in {TRUE} \cap {group.helper.alive}}

GroupEmpty(group) == ~group.leader.alive /\ ~(group.helper.alive /\ group.helper.grouped)
=============================================================================
