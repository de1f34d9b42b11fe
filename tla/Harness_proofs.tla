--------------------------- MODULE Harness_proofs ---------------------------
(***************************************************************************)
(* The two hosts of a child process keep their promises for every child    *)
(* and every turn budget: what they call complete is complete, what they   *)
(* kill is gone, and no timer of theirs outlives a result.                 *)
(***************************************************************************)
EXTENDS MCHarness, TLAPS

-----------------------------------------------------------------------------
(* The system's side.                                                      *)

GroupOK(g) ==
    /\ g \in Groups
    /\ g.leader.alive <=> g.leader.code = "none"

\* Nothing comes back to life, and the helper keeps its habits.
Shrinks(g, h) ==
    /\ GroupOK(h)
    /\ h.helper.deaf = g.helper.deaf /\ h.helper.grouped = g.helper.grouped
    /\ h.helper.alive => g.helper.alive
    /\ h.leader.alive => g.leader.alive
    /\ ~g.leader.alive => h.leader = g.leader

LEMMA FreshIsOK == ASSUME NEW g \in FreshGroups PROVE GroupOK(g) /\ ~g.leader.signalled
<1> DEFINE Helper == [alive : BOOLEAN, deaf : BOOLEAN, grouped : BOOLEAN, holds : BOOLEAN]
<1>1. ASSUME NEW deaf \in BOOLEAN, NEW helper \in Helper,
             g = [leader |-> Leader(TRUE, deaf, "none"), helper |-> helper]
      PROVE  GroupOK(g) /\ ~g.leader.signalled
  BY <1>1 DEF GroupOK, Groups, Leader, Code
<1>2. ASSUME g = [leader |-> Leader(FALSE, FALSE, "unspawned"),
                  helper |-> [alive |-> FALSE, deaf |-> FALSE, grouped |-> FALSE, holds |-> FALSE]]
      PROVE  GroupOK(g) /\ ~g.leader.signalled
  BY <1>2 DEF GroupOK, Groups, Leader, Code
<1>3. \/ g \in [leader : {Leader(TRUE, deaf, "none") : deaf \in BOOLEAN}, helper : Helper]
      \/ g = [leader |-> Leader(FALSE, FALSE, "unspawned"),
              helper |-> [alive |-> FALSE, deaf |-> FALSE, grouped |-> FALSE, holds |-> FALSE]]
  BY DEF FreshGroups
<1>4. CASE g \in [leader : {Leader(TRUE, deaf, "none") : deaf \in BOOLEAN}, helper : Helper]
  <2>1. PICK deaf \in BOOLEAN : g.leader = Leader(TRUE, deaf, "none")
    BY <1>4
  <2>2. g.helper \in Helper /\ g = [leader |-> g.leader, helper |-> g.helper]
    BY <1>4
  <2> QED
    BY <1>1, <2>1, <2>2
<1> QED
  BY <1>2, <1>3, <1>4

Leaders == [alive : BOOLEAN, deaf : BOOLEAN, code : Code, signalled : BOOLEAN]
Helpers == [alive : BOOLEAN, deaf : BOOLEAN, grouped : BOOLEAN, holds : BOOLEAN]

\* A group shrinks when its two processes do.
LEMMA ShrinksInParts ==
    ASSUME NEW g, GroupOK(g), NEW leader \in Leaders, NEW helper \in Helpers,
           NEW h, h = [leader |-> leader, helper |-> helper],
           leader.alive <=> leader.code = "none",
           leader.alive => g.leader.alive, ~g.leader.alive => leader = g.leader,
           helper.alive => g.helper.alive,
           helper.deaf = g.helper.deaf, helper.grouped = g.helper.grouped
    PROVE  Shrinks(g, h)
<1>1. h.leader = leader /\ h.helper = helper
  OBVIOUS
<1>2. h \in Groups
  BY DEF Groups, Leaders, Helpers
<1> QED
  BY <1>1, <1>2 DEF Shrinks, GroupOK

LEMMA PartsOf ==
    ASSUME NEW g, GroupOK(g)
    PROVE  /\ g.leader \in Leaders /\ g.helper \in Helpers
           /\ g = [leader |-> g.leader, helper |-> g.helper]
           /\ g.leader.alive <=> g.leader.code = "none"
  BY DEF GroupOK, Groups, Leaders, Helpers

\* A leader that a signal ended, with one of some codes.
LEMMA SignalledLeader ==
    ASSUME NEW old \in Leaders, NEW codes, codes \subseteq {"ok", "bad", "signal"},
           NEW new \in Signalled(old, codes)
    PROVE  /\ new \in Leaders /\ ~new.alive
           /\ old.alive => new.code \in codes
           /\ ~old.alive => new = old
<1>1. CASE old.alive
  <2>1. PICK code \in codes : new = [old EXCEPT !.alive = FALSE, !.code = code, !.signalled = TRUE]
    BY <1>1 DEF Signalled
  <2> QED
    BY <1>1, <2>1 DEF Leaders, Code
<1>2. CASE ~old.alive
  BY <1>2 DEF Signalled
<1> QED
  BY <1>1, <1>2

LEMMA SilencedHelper ==
    ASSUME NEW old \in Helpers, NEW new, new = SilenceHelper(old)
    PROVE  /\ new \in Helpers /\ new.deaf = old.deaf /\ new.grouped = old.grouped
           /\ new.alive <=> old.alive /\ ~old.grouped
  BY DEF SilenceHelper, Helpers

(* A group after SIGTERM: what is left in it is deaf.                      *)
LEMMA Termed ==
    ASSUME NEW g, GroupOK(g), NEW h \in AfterTerm(g)
    PROVE  Shrinks(g, h) /\ (h.helper.deaf \/ ~(h.helper.alive /\ h.helper.grouped))
<1>1. /\ g.leader \in Leaders /\ g.helper \in Helpers
      /\ g.leader.alive <=> g.leader.code = "none"
  BY PartsOf
<1>2. PICK leader, helper :
          /\ h = [leader |-> leader, helper |-> helper]
          /\ leader \in IF g.leader.deaf
                        THEN {[g.leader EXCEPT !.signalled = @ \/ g.leader.alive]}
                        ELSE Signalled(g.leader, {"ok", "bad", "signal"})
          /\ helper = IF g.helper.deaf THEN g.helper ELSE SilenceHelper(g.helper)
  BY DEF AfterTerm
<1>3. /\ helper \in Helpers /\ helper.deaf = g.helper.deaf
      /\ helper.grouped = g.helper.grouped
      /\ helper.alive => g.helper.alive
  BY <1>1, <1>2, SilencedHelper
<1>4. helper.deaf \/ ~(helper.alive /\ helper.grouped)
  BY <1>1, <1>2, SilencedHelper
<1>5. /\ leader \in Leaders
      /\ leader.alive <=> leader.code = "none"
      /\ leader.alive => g.leader.alive
      /\ ~g.leader.alive => leader = g.leader
  <2>1. CASE g.leader.deaf
    BY <1>1, <1>2, <2>1 DEF Leaders
  <2>2. CASE ~g.leader.deaf
    BY <1>1, <1>2, <2>2, SignalledLeader
  <2> QED
    BY <2>1, <2>2
<1>6. Shrinks(g, h)
  BY <1>2, <1>3, <1>5, ShrinksInParts
<1> QED
  BY <1>2, <1>4, <1>6

(* A group after SIGKILL is empty.                                         *)
LEMMA Killed ==
    ASSUME NEW g, GroupOK(g), NEW h \in AfterKill(g)
    PROVE  Shrinks(g, h) /\ GroupEmpty(h) /\ (g.leader.alive => h.leader.code = "signal")
<1>1. /\ g.leader \in Leaders /\ g.helper \in Helpers
      /\ g.leader.alive <=> g.leader.code = "none"
  BY PartsOf
<1>2. PICK leader, helper :
          /\ h = [leader |-> leader, helper |-> helper]
          /\ leader \in Signalled(g.leader, {"signal"})
          /\ helper = SilenceHelper(g.helper)
  BY DEF AfterKill
<1>3. /\ helper \in Helpers /\ helper.deaf = g.helper.deaf
      /\ helper.grouped = g.helper.grouped
      /\ helper.alive => g.helper.alive
      /\ ~(helper.alive /\ helper.grouped)
  BY <1>1, <1>2, SilencedHelper
<1>4. /\ leader \in Leaders /\ ~leader.alive /\ leader.code # "none"
      /\ g.leader.alive => leader.code = "signal"
      /\ ~g.leader.alive => leader = g.leader
  BY <1>1, <1>2, SignalledLeader
<1>5. Shrinks(g, h)
  BY <1>2, <1>3, <1>4, ShrinksInParts
<1> QED
  BY <1>2, <1>3, <1>4, <1>5 DEF GroupEmpty

LEMMA Moved ==
    ASSUME NEW g, GroupOK(g), NEW h \in LeaderExits(g) \cup HelperExits(g)
    PROVE  Shrinks(g, h) /\ h.leader.signalled = g.leader.signalled
<1>1. /\ g.leader \in Leaders /\ g.helper \in Helpers
      /\ g = [leader |-> g.leader, helper |-> g.helper]
      /\ g.leader.alive <=> g.leader.code = "none"
  BY PartsOf
<1>2. ASSUME h \in LeaderExits(g)
      PROVE  Shrinks(g, h) /\ h.leader.signalled = g.leader.signalled
  <2>1. PICK code \in {"ok", "bad"} :
            g.leader.alive /\ h = [g EXCEPT !.leader.alive = FALSE, !.leader.code = code]
    BY <1>2 DEF LeaderExits
  <2>2. PICK leader : leader = [g.leader EXCEPT !.alive = FALSE, !.code = code]
    OBVIOUS
  <2>3. h = [leader |-> leader, helper |-> g.helper]
    BY <1>1, <2>1, <2>2
  <2>4. leader \in Leaders /\ ~leader.alive /\ leader.code = code
        /\ leader.signalled = g.leader.signalled
    BY <1>1, <2>2 DEF Leaders, Code
  <2>5. Shrinks(g, h)
    BY <1>1, <2>1, <2>3, <2>4, ShrinksInParts
  <2> QED
    BY <2>3, <2>4, <2>5
<1>3. ASSUME h \in HelperExits(g)
      PROVE  Shrinks(g, h) /\ h.leader.signalled = g.leader.signalled
  <2>1. g.helper.alive /\ h = [g EXCEPT !.helper.alive = FALSE]
    BY <1>1, <1>3 DEF HelperExits, Helpers
  <2>2. PICK helper : helper = [g.helper EXCEPT !.alive = FALSE]
    OBVIOUS
  <2>3. h = [leader |-> g.leader, helper |-> helper]
    BY <1>1, <2>1, <2>2
  <2>4. helper \in Helpers /\ ~helper.alive
        /\ helper.deaf = g.helper.deaf /\ helper.grouped = g.helper.grouped
    BY <1>1, <2>2 DEF Helpers
  <2>5. Shrinks(g, h)
    BY <1>1, <2>3, <2>4, ShrinksInParts
  <2> QED
    BY <2>3, <2>5
<1> QED
  BY <1>2, <1>3

LEMMA EmptyStays ==
    ASSUME NEW g, NEW h, Shrinks(g, h) PROVE GroupEmpty(g) => GroupEmpty(h)
  BY DEF Shrinks, GroupEmpty

-----------------------------------------------------------------------------
(* The generic runner.  What it has heard is how the leader ended; a       *)
(* signal it sent is in `cause' or in the leader's code; and once it armed *)
(* the last timer the group is empty.                                      *)
RunnerInv ==
    /\ Exec!RunnerTypeOK /\ GroupOK(group)
    /\ heard # "none" => heard = group.leader.code
    /\ group.leader.signalled => cause \cap {"timed_out", "overflow"} # {}
                                 \/ group.leader.code = "signal"
    /\ timer.force # "off" \/ "overflow" \in cause => GroupEmpty(group)
    /\ "timed_out" \in cause =>
          group.helper.deaf \/ ~(group.helper.alive /\ group.helper.grouped)
    /\ host = "down" => GroupEmpty(group)
    /\ result # "none" => ~guarded /\ ~group.leader.alive
    /\ Exec!CompletedIsHonest /\ Exec!EscalationReaches
    /\ Exec!HostLeavesNothing /\ Exec!QuietAfterSettle

(* The runner sees the same system.                                        *)
LEMMA SameSystem ==
    /\ Exec!FreshGroups = FreshGroups /\ Exec!Groups = Groups /\ Exec!Code = Code
    /\ \A g : Exec!AfterTerm(g) = AfterTerm(g) /\ Exec!AfterKill(g) = AfterKill(g)
    /\ \A g : Exec!LeaderExits(g) = LeaderExits(g) /\ Exec!HelperExits(g) = HelperExits(g)
    /\ \A g : Exec!PipesFree(g) = PipesFree(g) /\ Exec!GroupEmpty(g) = GroupEmpty(g)
<1>1. Exec!Code = Code
  BY DEF Exec!Code, Code
<1>2. Exec!Groups = Groups
  BY <1>1 DEF Exec!Groups, Groups
<1>3. \A alive, deaf, code : Exec!Leader(alive, deaf, code) = Leader(alive, deaf, code)
  BY DEF Exec!Leader, Leader
<1>4. Exec!FreshGroups = FreshGroups
  BY <1>3 DEF Exec!FreshGroups, FreshGroups
<1>5. \A leader, codes : Exec!Signalled(leader, codes) = Signalled(leader, codes)
  BY DEF Exec!Signalled, Signalled
<1>6. \A helper : Exec!SilenceHelper(helper) = SilenceHelper(helper)
  BY DEF Exec!SilenceHelper, SilenceHelper
<1>7. \A g : Exec!AfterTerm(g) = AfterTerm(g) /\ Exec!AfterKill(g) = AfterKill(g)
  BY <1>5, <1>6 DEF Exec!AfterTerm, AfterTerm, Exec!AfterKill, AfterKill
<1>8. \A g : Exec!LeaderExits(g) = LeaderExits(g) /\ Exec!HelperExits(g) = HelperExits(g)
  BY DEF Exec!LeaderExits, LeaderExits, Exec!HelperExits, HelperExits
<1>9. \A g : Exec!PipesFree(g) = PipesFree(g) /\ Exec!GroupEmpty(g) = GroupEmpty(g)
  BY DEF Exec!PipesFree, PipesFree, Exec!GroupEmpty, GroupEmpty
<1> QED
  BY <1>1, <1>2, <1>4, <1>7, <1>8, <1>9

LEMMA TimerSet ==
    ASSUME RunnerInv
    PROVE  /\ timer \in [{"timeout", "kill", "force"} -> {"off", "armed", "done"}]
           /\ DOMAIN timer = {"timeout", "kill", "force"}
  BY DEF RunnerInv, Exec!RunnerTypeOK, Exec!Timer

LEMMA RunnerStarts == Exec!RunnerInit => RunnerInv
<1> SUFFICES ASSUME Exec!RunnerInit PROVE RunnerInv
  OBVIOUS
<1>1. GroupOK(group) /\ ~group.leader.signalled
  BY FreshIsOK, SameSystem DEF Exec!RunnerInit
<1>2. Exec!RunnerTypeOK
  <2>1. group \in Exec!Groups /\ heard \in Exec!Code \ {"unspawned"}
    BY <1>1, SameSystem DEF Exec!RunnerInit, GroupOK, Code
  <2> QED
    BY <2>1 DEF Exec!RunnerInit, Exec!RunnerTypeOK, Exec!Timer, Exec!Causes
<1>3. timer.force = "off" /\ cause = {} /\ heard = "none" /\ host = "up" /\ result = "none"
  BY DEF Exec!RunnerInit
<1> QED
  BY <1>1, <1>2, <1>3 DEF RunnerInv, Exec!CompletedIsHonest, Exec!EscalationReaches,
                          Exec!HostLeavesNothing, Exec!QuietAfterSettle

(* Sealing: from a dead leader, with the code it left.                     *)
LEMMA FinishKeeps ==
    ASSUME RunnerInv, Exec!Pending, NEW code, Exec!Finish(code),
           UNCHANGED <<group, heard, cause, host>>, ~group.leader.alive,
           code = "ok" => group.leader.code = "ok",
           "timed_out" \in cause => GroupEmpty(group) \/ group.helper.deaf
    PROVE  RunnerInv'
<1>1. /\ timer' \in [{"timeout", "kill", "force"} -> {"off", "armed", "done"}]
      /\ \A t \in DOMAIN timer' : timer'[t] # "armed"
      /\ timer'.force # "off" => timer.force # "off"
  BY TimerSet DEF Exec!Finish
<1>2. /\ result' \in {"completed", "runner_error", "timed_out"}
      /\ result' = "completed" => cause = {} /\ code = "ok"
  BY DEF Exec!Finish, Exec!StatusOf
<1>3. guarded' = FALSE
  BY DEF Exec!Finish
<1>4. Exec!RunnerTypeOK'
  BY <1>1, <1>2, <1>3 DEF RunnerInv, Exec!RunnerTypeOK, Exec!Timer
<1>5. Exec!CompletedIsHonest' /\ Exec!EscalationReaches'
  BY <1>2, SameSystem DEF RunnerInv, Exec!CompletedIsHonest, Exec!EscalationReaches
<1>6. Exec!HostLeavesNothing' /\ Exec!QuietAfterSettle'
  BY <1>1, <1>2 DEF Exec!HostLeavesNothing, Exec!QuietAfterSettle
<1> QED
  BY <1>1, <1>2, <1>3, <1>4, <1>5, <1>6 DEF RunnerInv

(* Whatever shrinks a group leaves what was known of it true.              *)
LEMMA ShrinkKeeps ==
    ASSUME RunnerInv, Shrinks(group, group')
    PROVE  /\ GroupOK(group') /\ group' \in Groups
           /\ GroupEmpty(group) => GroupEmpty(group')
           /\ heard # "none" => heard = group'.leader.code
           /\ result # "none" => group'.leader = group.leader
           /\ "timed_out" \in cause =>
                 group'.helper.deaf \/ ~(group'.helper.alive /\ group'.helper.grouped)
<1>1. heard # "none" => ~group.leader.alive
  BY DEF RunnerInv, GroupOK
<1> QED
  BY <1>1, EmptyStays DEF RunnerInv, Shrinks, GroupOK

LEMMA RunnerTimeout == ASSUME RunnerInv, Exec!TimeoutFires PROVE RunnerInv'
<1>1. CASE "overflow" \in cause
  <2>1. timer' = [timer EXCEPT !.timeout = "done"]
    BY <1>1 DEF Exec!TimeoutFires
  <2>2. timer' \in [{"timeout", "kill", "force"} -> {"off", "armed", "done"}]
        /\ timer'.force = timer.force
    BY <2>1, TimerSet
  <2> QED
    BY <1>1, <2>2 DEF Exec!TimeoutFires, Exec!Pending, RunnerInv, Exec!RunnerTypeOK, Exec!Timer,
          Exec!CompletedIsHonest, Exec!EscalationReaches, Exec!HostLeavesNothing,
          Exec!QuietAfterSettle
<1>2. CASE "overflow" \notin cause
  <2>1. /\ timer' = [timer EXCEPT !.timeout = "done", !.kill = "armed"]
        /\ cause' = cause \cup {"timed_out"} /\ group' \in AfterTerm(group)
        /\ UNCHANGED <<heard, result, host, guarded>> /\ result = "none" /\ host = "up"
    BY <1>2, SameSystem DEF Exec!TimeoutFires, Exec!KillTree, Exec!Pending
  <2>2. timer' \in [{"timeout", "kill", "force"} -> {"off", "armed", "done"}]
        /\ timer'.force = timer.force
    BY <2>1, TimerSet
  <2>3. /\ Shrinks(group, group')
        /\ group'.helper.deaf \/ ~(group'.helper.alive /\ group'.helper.grouped)
    BY <2>1, Termed DEF RunnerInv
  <2>4. Exec!RunnerTypeOK'
    BY <2>1, <2>2, <2>3, ShrinkKeeps, SameSystem
       DEF RunnerInv, Exec!RunnerTypeOK, Exec!Timer, Exec!Causes
  <2> QED
    BY <2>1, <2>2, <2>3, <2>4, <1>2, ShrinkKeeps
       DEF RunnerInv, Exec!CompletedIsHonest, Exec!EscalationReaches, Exec!HostLeavesNothing,
           Exec!QuietAfterSettle
<1> QED
  BY <1>1, <1>2

(* SIGKILL by a pending run, with the last timer armed.                    *)
LEMMA RunnerKills ==
    ASSUME RunnerInv, Exec!KillFires \/ Exec!Overflow PROVE RunnerInv'
<1>1. /\ group' \in AfterKill(group) /\ result = "none" /\ host = "up"
      /\ UNCHANGED <<heard, result, host, guarded>>
      /\ cause' = cause \/ cause' = cause \cup {"overflow"}
  BY SameSystem DEF Exec!KillFires, Exec!Overflow, Exec!KillTree, Exec!Pending
<1>2. timer' \in [{"timeout", "kill", "force"} -> {"off", "armed", "done"}]
  <2>1. timer' = [timer EXCEPT !.force = IF @ = "off" THEN "armed" ELSE @]
        \/ \E now : /\ now = [timer EXCEPT !.kill = "done"]
                    /\ timer' = [now EXCEPT !.force = IF @ = "off" THEN "armed" ELSE @]
    BY DEF Exec!KillFires, Exec!Overflow, Exec!ForceArmed
  <2> QED
    BY <2>1, TimerSet
<1>3. Shrinks(group, group') /\ GroupEmpty(group')
  BY <1>1, Killed DEF RunnerInv
<1>4. group'.leader.signalled => cause' \cap {"timed_out", "overflow"} # {}
                                 \/ group'.leader.code = "signal"
  <2>1. group.leader.alive => group'.leader.code = "signal"
    BY <1>1, Killed DEF RunnerInv
  <2>2. ~group.leader.alive => group'.leader = group.leader
    BY <1>3 DEF Shrinks
  <2> QED
    BY <1>1, <2>1, <2>2 DEF RunnerInv
<1>5. Exec!RunnerTypeOK'
  BY <1>1, <1>2, <1>3, ShrinkKeeps, SameSystem
     DEF RunnerInv, Exec!RunnerTypeOK, Exec!Timer, Exec!Causes
<1>6. "timed_out" \in cause' =>
          group'.helper.deaf \/ ~(group'.helper.alive /\ group'.helper.grouped)
  BY <1>3 DEF GroupEmpty
<1> QED
  BY <1>1, <1>3, <1>4, <1>5, <1>6, ShrinkKeeps
     DEF RunnerInv, Exec!CompletedIsHonest, Exec!EscalationReaches, Exec!HostLeavesNothing,
         Exec!QuietAfterSettle

LEMMA RunnerSeals == ASSUME RunnerInv, Exec!ForceFires \/ Exec!CloseEvent PROVE RunnerInv'
<1>1. CASE Exec!ForceFires
  <2>1. GroupEmpty(group)
    BY <1>1 DEF RunnerInv, Exec!ForceFires
  <2> DEFINE code == IF heard = "none" THEN "signal" ELSE heard
  <2>2. code = "ok" => group.leader.code = "ok"
    BY DEF RunnerInv
  <2>3. ~group.leader.alive
    BY <2>1 DEF GroupEmpty
  <2> QED
    BY <1>1, <2>1, <2>2, <2>3, FinishKeeps DEF Exec!ForceFires
<1>2. CASE Exec!CloseEvent
  <2>1. ~group.leader.alive /\ ~(group.helper.alive /\ group.helper.holds)
    BY <1>2, SameSystem DEF Exec!CloseEvent, PipesFree
  <2>2. "timed_out" \in cause => GroupEmpty(group) \/ group.helper.deaf
    BY <2>1 DEF RunnerInv, GroupEmpty
  <2>3. heard = "ok" => group.leader.code = "ok"
    BY DEF RunnerInv
  <2> QED
    BY <1>2, <2>1, <2>2, <2>3, FinishKeeps DEF Exec!CloseEvent
<1> QED
  BY <1>1, <1>2

LEMMA RunnerHears == ASSUME RunnerInv, Exec!ErrorEvent \/ Exec!ExitEvent PROVE RunnerInv'
<1>1. CASE Exec!ErrorEvent
  BY <1>1 DEF Exec!ErrorEvent, Exec!Pending, RunnerInv, Exec!RunnerTypeOK, Exec!Causes,
      Exec!CompletedIsHonest, Exec!EscalationReaches, Exec!HostLeavesNothing,
      Exec!QuietAfterSettle
<1>2. CASE Exec!ExitEvent
  <2>1. group.leader.code \in Code \ {"unspawned"}
    BY <1>2 DEF Exec!ExitEvent, RunnerInv, GroupOK, Groups
  <2> QED
    BY <1>2, <2>1, SameSystem
       DEF Exec!ExitEvent, Exec!Pending, RunnerInv, Exec!RunnerTypeOK,
           Exec!CompletedIsHonest, Exec!EscalationReaches, Exec!HostLeavesNothing,
           Exec!QuietAfterSettle
<1> QED
  BY <1>1, <1>2

LEMMA RunnerInterrupted == ASSUME RunnerInv, Exec!HostInterrupted PROVE RunnerInv'
<1>1. /\ group' \in AfterKill(group) /\ guarded /\ guarded' = FALSE
      /\ host' \in {"up", "down"} /\ UNCHANGED <<timer, heard, cause, result>>
  BY SameSystem DEF Exec!HostInterrupted, Exec!KillTree
<1>2. result = "none"
  BY <1>1 DEF RunnerInv
<1>3. Shrinks(group, group') /\ GroupEmpty(group')
  BY <1>1, Killed DEF RunnerInv
<1>4. group'.leader.signalled => cause \cap {"timed_out", "overflow"} # {}
                                 \/ group'.leader.code = "signal"
  <2>1. group.leader.alive => group'.leader.code = "signal"
    BY <1>1, Killed DEF RunnerInv
  <2>2. ~group.leader.alive => group'.leader = group.leader
    BY <1>3 DEF Shrinks
  <2> QED
    BY <2>1, <2>2 DEF RunnerInv
<1>5. Exec!RunnerTypeOK'
  BY <1>1, <1>3, ShrinkKeeps, SameSystem DEF RunnerInv, Exec!RunnerTypeOK
<1> QED
  BY <1>1, <1>2, <1>3, <1>4, <1>5, ShrinkKeeps, SameSystem
     DEF RunnerInv, Exec!CompletedIsHonest, Exec!EscalationReaches, Exec!HostLeavesNothing,
         Exec!QuietAfterSettle

LEMMA RunnerMoved == ASSUME RunnerInv, Exec!GroupMoves PROVE RunnerInv'
<1>1. /\ group' \in LeaderExits(group) \cup HelperExits(group)
      /\ UNCHANGED <<timer, heard, cause, result, host, guarded>>
  BY SameSystem DEF Exec!GroupMoves
<1>2. Shrinks(group, group') /\ group'.leader.signalled = group.leader.signalled
  BY <1>1, Moved DEF RunnerInv
<1>3. group'.leader.signalled => cause \cap {"timed_out", "overflow"} # {}
                                 \/ group'.leader.code = "signal"
  <2>1. group.leader.alive => group.leader.code = "none"
    BY DEF RunnerInv, GroupOK
  <2>2. ~group.leader.alive => group'.leader = group.leader
    BY <1>2 DEF Shrinks
  <2> QED
    BY <1>2, <2>1, <2>2 DEF RunnerInv
<1>4. Exec!RunnerTypeOK'
  BY <1>1, <1>2, ShrinkKeeps, SameSystem DEF RunnerInv, Exec!RunnerTypeOK
<1>5. Exec!CompletedIsHonest' /\ Exec!HostLeavesNothing' /\ Exec!QuietAfterSettle'
  BY <1>1, <1>2, ShrinkKeeps, SameSystem
     DEF RunnerInv, Exec!CompletedIsHonest, Exec!HostLeavesNothing, Exec!QuietAfterSettle
<1>6. Exec!EscalationReaches'
  BY <1>1, <1>2, ShrinkKeeps, SameSystem DEF RunnerInv, Exec!EscalationReaches, Shrinks
<1> QED
  BY <1>1, <1>2, <1>3, <1>4, <1>5, <1>6, ShrinkKeeps, SameSystem DEF RunnerInv

LEMMA RunnerKept == ASSUME RunnerInv, Exec!RunnerNext PROVE RunnerInv'
<1>1. CASE Exec!RunnerOver
  BY <1>1 DEF Exec!RunnerOver, Exec!runnerVars, RunnerInv, Exec!RunnerTypeOK,
      Exec!CompletedIsHonest, Exec!EscalationReaches, Exec!HostLeavesNothing,
      Exec!QuietAfterSettle
<1> QED
  BY <1>1, RunnerTimeout, RunnerKills, RunnerSeals, RunnerHears, RunnerInterrupted,
     RunnerMoved DEF Exec!RunnerNext, Exec!Callback

-----------------------------------------------------------------------------
(* The claude-code host.  It terminates before it signals; a verdict comes *)
(* after the init line and is the last line; an API key refuses the case,  *)
(* and a turn over the budget stops it.                                    *)
ClaudeInv ==
    /\ ClaudeTypeOK /\ GroupOK(group)
    /\ stop = "none" => ~group.leader.signalled /\ timer.kill = "off"
    /\ Running /\ parsed.init = "key" => refusal
    /\ parsed.verdict # "absent" => parsed.init # "absent" /\ tail = "none"
    /\ tail \in Verdicts => parsed.init # "absent"
    /\ tail # "none" => parsed.verdict = "absent"
    /\ tail = "turn" => parsed.turns <= MaxTurns
    /\ Running /\ parsed.turns > MaxTurns => stop # "none"
    /\ GradedIsComplete /\ ClaudeQuiet

Stages == [init : {"absent", "subscription", "key"}, turns : Nat,
           verdict : Verdicts \cup {"absent"}]

(* What one line changes.                                                  *)
LEMMA ParseFields ==
    ASSUME NEW seen \in Stages, NEW line, NEW next, next = Parse(seen, line)
    PROVE  /\ next \in Stages
           /\ next.init = IF line \in {"subscription", "key"} THEN line ELSE seen.init
           /\ next.turns = IF line = "turn" THEN seen.turns + 1 ELSE seen.turns
           /\ next.verdict = IF line \in Verdicts THEN line ELSE seen.verdict
<1>1. CASE line \in {"subscription", "key"}
  <2>1. next = [seen EXCEPT !.init = line]
    BY <1>1 DEF Parse, Verdicts
  <2> QED
    BY <1>1, <2>1 DEF Stages, Verdicts
<1>2. CASE line = "turn"
  <2>1. next = [seen EXCEPT !.turns = @ + 1]
    BY <1>2 DEF Parse, Verdicts
  <2> QED
    BY <1>2, <2>1 DEF Stages, Verdicts
<1>3. CASE line \in Verdicts
  <2>1. next = [seen EXCEPT !.verdict = line]
    BY <1>3 DEF Parse, Verdicts
  <2> QED
    BY <1>3, <2>1 DEF Stages, Verdicts
<1>4. CASE line \notin {"subscription", "key", "turn"} \cup Verdicts
  <2>1. next = seen
    BY <1>4 DEF Parse
  <2> QED
    BY <1>4, <2>1
<1> QED
  BY <1>1, <1>2, <1>3, <1>4

LEMMA ClaudeTyped ==
    ASSUME ClaudeInv
    PROVE  /\ parsed \in Stages /\ parsed.turns \in 0..MaxTurns + 2
           /\ timer \in [{"timeout", "kill", "force"} -> {"off", "armed", "done"}]
  BY TurnsAssumption DEF ClaudeInv, ClaudeTypeOK, Stages

LEMMA ClaudeStarts == ClaudeInit => ClaudeInv
<1> SUFFICES ASSUME ClaudeInit PROVE ClaudeInv
  OBVIOUS
<1>1. GroupOK(group) /\ ~group.leader.signalled
  BY FreshIsOK DEF ClaudeInit
<1>2. parsed \in Stages /\ parsed.turns = 0 /\ parsed.init = "absent" /\ parsed.verdict = "absent"
  BY DEF ClaudeInit, Nothing, Stages
<1>3. ClaudeTypeOK
  <2>1. parsed \in [init : {"absent", "subscription", "key"}, turns : 0..MaxTurns + 2,
                    verdict : Verdicts \cup {"absent"}]
    BY <1>2, TurnsAssumption DEF Stages
  <2>2. timer \in [{"timeout", "kill", "force"} -> {"off", "armed", "done"}]
    BY DEF ClaudeInit
  <2>3. group \in Groups /\ stop = "none" /\ tail = "none" /\ refusal = FALSE /\ result = "none"
    BY <1>1 DEF ClaudeInit, GroupOK
  <2> QED
    BY <2>1, <2>2, <2>3 DEF ClaudeTypeOK
<1>4. tail = "none" /\ result = "none" /\ timer.kill = "off" /\ tail \notin Verdicts
  BY DEF ClaudeInit, Verdicts
<1> QED
  BY <1>1, <1>2, <1>3, <1>4, TurnsAssumption DEF ClaudeInv, GradedIsComplete, ClaudeQuiet

LEMMA ClaudeTerminates ==
    ASSUME ClaudeInv, NEW why \in {"timeout", "error", "max_turns"},
           NEW lapsed \in [{"timeout", "kill", "force"} -> {"off", "armed", "done"}],
           lapsed.kill = timer.kill, Terminate(why, lapsed)
    PROVE  /\ GroupOK(group') /\ group' \in Groups
           /\ timer' \in [{"timeout", "kill", "force"} -> {"off", "armed", "done"}]
           /\ stop' # "none" /\ stop' \in {"timeout", "error", "max_turns"}
<1>1. CASE stop # "none"
  BY <1>1 DEF Terminate, ClaudeInv, ClaudeTypeOK
<1>2. CASE stop = "none"
  <2>1. Shrinks(group, group')
    BY <1>2, Termed DEF Terminate, ClaudeInv
  <2> QED
    BY <1>2, <2>1 DEF Terminate, Shrinks, GroupOK
<1> QED
  BY <1>1, <1>2

LEMMA ClaudeTimers == ASSUME ClaudeInv, WallFires \/ ClaudeKillFires PROVE ClaudeInv'
<1>1. CASE WallFires
  <2>1. PICK lapsed : lapsed = [timer EXCEPT !.timeout = "done"]
    OBVIOUS
  <2>2. lapsed \in [{"timeout", "kill", "force"} -> {"off", "armed", "done"}]
        /\ lapsed.kill = timer.kill
    BY <2>1, ClaudeTyped
  <2>3. /\ GroupOK(group') /\ group' \in Groups
        /\ timer' \in [{"timeout", "kill", "force"} -> {"off", "armed", "done"}]
        /\ stop' # "none" /\ stop' \in {"timeout", "error", "max_turns"}
    BY <1>1, <2>1, <2>2, ClaudeTerminates DEF WallFires
  <2> QED
    BY <1>1, <2>3 DEF WallFires, Running, ClaudeInv, ClaudeTypeOK, GradedIsComplete, ClaudeQuiet
<1>2. CASE ClaudeKillFires
  <2>1. Shrinks(group, group')
    BY <1>2, Killed DEF ClaudeKillFires, ClaudeInv
  <2>2. timer' \in [{"timeout", "kill", "force"} -> {"off", "armed", "done"}]
    BY <1>2, ClaudeTyped DEF ClaudeKillFires
  <2>3. stop # "none"
    BY <1>2 DEF ClaudeKillFires, ClaudeInv
  <2> QED
    BY <1>2, <2>1, <2>2, <2>3
       DEF ClaudeKillFires, Running, ClaudeInv, ClaudeTypeOK, GradedIsComplete, ClaudeQuiet,
           Shrinks, GroupOK
<1> QED
  BY <1>1, <1>2

LEMMA ClaudeReads == ASSUME ClaudeInv, NEW line \in Line, Data(line) PROVE ClaudeInv'
<1>1. /\ parsed' = Parse(parsed, line) /\ tail = "none" /\ parsed.verdict = "absent"
      /\ tail' = "none" /\ result = "none" /\ result' = "none"
      /\ line \in Verdicts => parsed.init # "absent"
      /\ line = "turn" => parsed.turns <= MaxTurns
      /\ line \in {"subscription", "key"} => parsed.init = "absent"
  BY DEF Data, NextLines, Running, Verdicts
<1>2. /\ parsed' \in Stages
      /\ parsed'.init = IF line \in {"subscription", "key"} THEN line ELSE parsed.init
      /\ parsed'.turns = IF line = "turn" THEN parsed.turns + 1 ELSE parsed.turns
      /\ parsed'.verdict = IF line \in Verdicts THEN line ELSE parsed.verdict
  BY <1>1, ClaudeTyped, ParseFields
<1>3. parsed'.turns \in 0..MaxTurns + 2
  BY <1>1, <1>2, ClaudeTyped, TurnsAssumption
<1>4. parsed' \in [init : {"absent", "subscription", "key"}, turns : 0..MaxTurns + 2,
                   verdict : Verdicts \cup {"absent"}]
  BY <1>2, <1>3 DEF Stages
<1>5. CASE line = "key" \/ parsed'.turns > MaxTurns
  <2>1. \E why \in {"error", "max_turns"} : Terminate(why, timer)
    BY <1>5 DEF Data
  <2>2. /\ GroupOK(group') /\ group' \in Groups
        /\ timer' \in [{"timeout", "kill", "force"} -> {"off", "armed", "done"}]
        /\ stop' # "none" /\ stop' \in {"timeout", "error", "max_turns"}
    BY <2>1, ClaudeTyped, ClaudeTerminates
  <2>3. refusal' = (refusal \/ line = "key")
    BY DEF Data
  <2> QED
    BY <1>1, <1>2, <1>4, <2>2, <2>3 DEF ClaudeInv, ClaudeTypeOK, Running, GradedIsComplete, ClaudeQuiet
<1>6. CASE ~(line = "key" \/ parsed'.turns > MaxTurns)
  <2>1. UNCHANGED <<group, stop, timer>> /\ refusal' = refusal
    BY <1>6 DEF Data, ClaudeInv, ClaudeTypeOK
  <2> QED
    BY <1>1, <1>2, <1>4, <1>6, <2>1 DEF ClaudeInv, ClaudeTypeOK, Running, GradedIsComplete, ClaudeQuiet
<1> QED
  BY <1>5, <1>6

LEMMA ClaudeTrails == ASSUME ClaudeInv, NEW line \in Line, Unterminated(line) PROVE ClaudeInv'
<1>1. /\ tail' = line /\ parsed.verdict = "absent" /\ result = "none"
      /\ UNCHANGED <<group, timer, stop, parsed, refusal, result>>
      /\ line \in Verdicts => parsed.init # "absent"
      /\ line = "turn" => parsed.turns <= MaxTurns
  BY DEF Unterminated, NextLines, Running, Verdicts
<1> QED
  BY <1>1 DEF ClaudeInv, ClaudeTypeOK, Running, GradedIsComplete, ClaudeQuiet

(* The end of a case: the last line counts even without its newline.       *)
LEMMA ClaudeEnds == ASSUME ClaudeInv, Running, Finish PROVE ClaudeInv'
<1>1. /\ parsed' = Parse(parsed, tail) /\ tail' = "none" /\ result' = Outcome(parsed')
      /\ UNCHANGED <<group, stop, refusal>>
  BY DEF Finish
<1>2. /\ parsed' \in Stages
      /\ parsed'.init = IF tail \in {"subscription", "key"} THEN tail ELSE parsed.init
      /\ parsed'.turns = IF tail = "turn" THEN parsed.turns + 1 ELSE parsed.turns
      /\ parsed'.verdict = IF tail \in Verdicts THEN tail ELSE parsed.verdict
  BY <1>1, ClaudeTyped, ParseFields
<1>3. parsed' \in [init : {"absent", "subscription", "key"}, turns : 0..MaxTurns + 2,
                   verdict : Verdicts \cup {"absent"}]
  <2>1. parsed'.turns \in 0..MaxTurns + 2
    BY <1>2, ClaudeTyped, TurnsAssumption DEF ClaudeInv
  <2> QED
    BY <1>2, <2>1 DEF Stages
<1>4. /\ timer' \in [{"timeout", "kill", "force"} -> {"off", "armed", "done"}]
      /\ \A t \in DOMAIN timer' : timer'[t] # "armed"
      /\ timer.kill = "off" => timer'.kill = "off"
  BY ClaudeTyped DEF Finish
<1>5. result' \in {"refused", "provider_error", "timeout", "error", "max_turns",
                   "budget", "completed"}
  BY <1>1, <1>2 DEF Outcome, FinalStop, ClaudeInv, ClaudeTypeOK, Stages, Verdicts
<1>6. ASSUME result' = "completed"
      PROVE  /\ parsed'.verdict = "success" /\ parsed'.init = "subscription"
             /\ parsed'.turns <= MaxTurns /\ stop = "none" /\ ~group.leader.signalled
  <2>1. ~refusal /\ stop = "none" /\ parsed'.verdict = "success"
    BY <1>1, <1>2, <1>6 DEF Outcome, FinalStop, ClaudeInv, ClaudeTypeOK, Stages, Verdicts
  <2>2. tail \in Verdicts \/ tail = "none"
    BY <1>2, <2>1 DEF ClaudeInv, Verdicts
  <2>3. parsed'.init = parsed.init /\ parsed'.turns = parsed.turns
    BY <1>2, <2>2 DEF Verdicts
  <2>4. parsed.init \in {"subscription", "key"}
    BY <1>2, <2>1, <2>2, ClaudeTyped DEF ClaudeInv, Stages
  <2> QED
    BY <2>1, <2>3, <2>4, ClaudeTyped, TurnsAssumption DEF ClaudeInv, Running
<1>7. parsed'.verdict # "absent" => parsed'.init # "absent"
  BY <1>2, ClaudeTyped DEF ClaudeInv, Stages
<1>8. ClaudeTypeOK'
  BY <1>1, <1>3, <1>4, <1>5 DEF ClaudeInv, ClaudeTypeOK
<1>9. GradedIsComplete' /\ ClaudeQuiet'
  BY <1>1, <1>4, <1>6 DEF GradedIsComplete, ClaudeQuiet
<1>10. tail' \notin Verdicts /\ ~Running'
  BY <1>1, <1>5 DEF Running, Verdicts
<1> QED
  BY <1>1, <1>4, <1>7, <1>8, <1>9, <1>10 DEF ClaudeInv

LEMMA ClaudeNeverStarted == ASSUME ClaudeInv, SpawnFails PROVE ClaudeInv'
<1>1. /\ timer' \in [{"timeout", "kill", "force"} -> {"off", "armed", "done"}]
      /\ \A t \in DOMAIN timer' : timer'[t] # "armed"
      /\ timer.kill = "off" => timer'.kill = "off"
  BY ClaudeTyped DEF SpawnFails
<1> QED
  BY <1>1 DEF SpawnFails, Running, ClaudeInv, ClaudeTypeOK, GradedIsComplete, ClaudeQuiet

LEMMA AgentMoved == ASSUME ClaudeInv, AgentMoves PROVE ClaudeInv'
<1>1. Shrinks(group, group') /\ group'.leader.signalled = group.leader.signalled
  BY Moved DEF AgentMoves, ClaudeInv
<1> QED
  BY <1>1 DEF AgentMoves, Running, ClaudeInv, ClaudeTypeOK, GradedIsComplete, ClaudeQuiet,
              Shrinks, GroupOK

LEMMA ClaudeKept == ASSUME ClaudeInv, ClaudeNext PROVE ClaudeInv'
<1>1. CASE ClaudeOver
  BY <1>1 DEF ClaudeOver, claudeVars, ClaudeInv, ClaudeTypeOK, Running, GradedIsComplete,
              ClaudeQuiet
<1>2. CASE DrainFires \/ ClaudeClose
  BY <1>2, ClaudeEnds DEF DrainFires, ClaudeClose
<1> QED
  BY <1>1, <1>2, ClaudeTimers, ClaudeReads, ClaudeTrails, ClaudeNeverStarted, AgentMoved
     DEF ClaudeNext, ClaudeCallback

-----------------------------------------------------------------------------
HostInv ==
    /\ driver \in {"executable", "claude-code"}
    /\ driver = "executable" => RunnerInv
    /\ driver = "claude-code" => ClaudeInv

LEMMA HostStarts == Init => HostInv
  BY RunnerStarts, ClaudeStarts DEF Init, HostInv

LEMMA HostKept == HostInv /\ [Next]_vars => HostInv'
<1> SUFFICES ASSUME HostInv, [Next]_vars PROVE HostInv'
  OBVIOUS
<1>1. CASE ExecutableNext
  BY <1>1, RunnerKept DEF ExecutableNext, HostInv
<1>2. CASE AgentNext
  BY <1>2, ClaudeKept DEF AgentNext, HostInv
<1>3. CASE UNCHANGED vars
  <2>1. RunnerInv => RunnerInv'
    BY <1>3 DEF vars, runner, RunnerInv, Exec!RunnerTypeOK, Exec!CompletedIsHonest,
                Exec!EscalationReaches, Exec!HostLeavesNothing, Exec!QuietAfterSettle
  <2>2. ClaudeInv => ClaudeInv'
    BY <1>3 DEF vars, stream, ClaudeInv, ClaudeTypeOK, Running, GradedIsComplete, ClaudeQuiet
  <2> QED
    BY <1>3, <2>1, <2>2 DEF HostInv, vars
<1> QED
  BY <1>1, <1>2, <1>3 DEF Next

(* A result is called complete only if the child ended on its own and all  *)
(* of its output was read, whatever timers, signals and exits race.        *)
THEOREM CompletionIsHonest == Spec => []CompletedIsHonest
<1>1. HostInv => CompletedIsHonest
  BY DEF HostInv, RunnerInv, ClaudeInv, CompletedIsHonest
<1> QED
  BY <1>1, HostStarts, HostKept, PTL DEF Spec

(* After a timeout or an overflow, what the kill escalation leaves behind  *)
(* is at most a helper that ignores SIGTERM.                               *)
THEOREM EscalationAlwaysReaches == Spec => []EscalationReaches
<1>1. HostInv => EscalationReaches
  BY DEF HostInv, RunnerInv, EscalationReaches
<1> QED
  BY <1>1, HostStarts, HostKept, PTL DEF Spec

(* Neither a process of an interrupted harness nor a timer of a sealed run *)
(* outlives its host.                                                      *)
THEOREM HostsLeaveNothing == Spec => []NothingOutlivesTheHost
<1>1. HostInv => NothingOutlivesTheHost
  BY DEF HostInv, RunnerInv, ClaudeInv, NothingOutlivesTheHost
<1> QED
  BY <1>1, HostStarts, HostKept, PTL DEF Spec
=============================================================================
