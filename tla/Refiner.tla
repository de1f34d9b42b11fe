------------------------------- MODULE Refiner -------------------------------
(***************************************************************************)
(* `j-rig refine': commands that share one content-addressed store under   *)
(* .j-rig/refiner, while a person edits SKILL.md and moves the best        *)
(* pointer.  A command runs to its first await without yielding, but other *)
(* processes run beside it, and it may be killed between any two system    *)
(* calls.  A file is written by an open that truncates and one write.      *)
(***************************************************************************)
EXTENDS Naturals, Sequences, FiniteSets

CONSTANTS Process,      \* slots for running commands
          Text,         \* texts SKILL.md may have
          None,         \* no pointer, no due date, no result
          Due,          \* refresh dates, as the clock may give them
          Settings      \* bounds: how many commands run at all, and how many
                        \* at a time; kills and edits of SKILL.md

ASSUME RefinerAssumption ==
    /\ Text # {} /\ None \notin Text \cup Due
    /\ Settings \subseteq [commands : Nat, crowd : Nat, kills : Nat, edits : Nat]

VARIABLES skill,    \* the text in SKILL.md
          file,     \* store/<address>: "absent", "torn" or "whole"
          logged,   \* how many "stored" events log.jsonl has for a value
          moves,    \* its "best-pointer-moved" events, in order
          best,     \* pointers/<skill>/best
          job,      \* what each process is doing
          authored, \* history: texts SKILL.md has had
          left      \* what is left of the setting

vars == <<skill, file, logged, moves, best, job, authored, left>>
disk == <<file, logged, moves, best>>

-----------------------------------------------------------------------------
(* Values.  An address is the hash of the whole value, so it is the value. *)

NoCall == [kind |-> "nothing"]

SkillDoc(text) == [kind |-> "skill-doc", text |-> text]

\* bootstrap(): the items come from the text, `due' from the clock.
EvalSet(text, due) == [kind |-> "eval-set", text |-> text, due |-> due]

\* `result': what its operations make of the parent, None when an anchor is
\* missing or ambiguous there.
EditProposal(parent, result) ==
    [kind |-> "edit-proposal", parent |-> parent, result |-> result]

\* `measured': the text the evaluator found in SKILL.md.
ScoreRecord(text, set, measured) ==
    [kind |-> "score-record", text |-> text, set |-> set, measured |-> measured]

Docs      == {SkillDoc(text) : text \in Text}
EvalSets  == {EvalSet(text, due) : text \in Text, due \in Due \cup {None}}
Proposals == {EditProposal(parent, result) : parent \in Text, result \in Text \cup {None}}
Scores    == {ScoreRecord(text, set, measured) :
                  text \in Text, set \in EvalSets, measured \in Text}
Value     == Docs \cup EvalSets \cup Proposals \cup Scores

\* The objects a value refers to by hash.
References(value) ==
    CASE value.kind = "edit-proposal" -> {SkillDoc(value.parent)}
      [] value.kind = "score-record"  -> {SkillDoc(value.text), value.set}
      [] OTHER -> {}

Exists(value) == file[value] # "absent"

-----------------------------------------------------------------------------
(* What a process holds: its command, the place in it, the value it is     *)
(* putting (or promoting) and how far that put is, the document it loaded, *)
(* its eval set, and the pointer it read.                                  *)

Idle == [command |-> "none", place |-> "idle", step |-> "exists",
         value |-> NoCall, doc |-> NoCall, set |-> NoCall, from |-> None]

Putting(held, place, value) ==
    [held EXCEPT !.place = place, !.step = "exists", !.value = value]

\* Mutant: score stores its record before the eval set it is "against".
AfterPutScoreFirst(held) ==
    IF held.place = "doc" /\ held.command = "bootstrap"
    THEN Putting(held, "set", held.set)
    ELSE IF held.place = "doc" /\ held.command = "score" THEN [held EXCEPT !.place = "eval"]
    ELSE IF held.place = "doc" /\ held.command = "propose" THEN [held EXCEPT !.place = "ask"]
    ELSE Idle

\* Where a command goes on once its put() has returned.
AfterPut(held) ==
    IF held.place = "doc" /\ held.command \in {"bootstrap", "score"}
    THEN Putting(held, "set", held.set)
    ELSE IF held.place = "set" /\ held.command = "score" THEN [held EXCEPT !.place = "eval"]
    ELSE IF held.place = "doc" /\ held.command = "propose" THEN [held EXCEPT !.place = "ask"]
    ELSE Idle

Init ==
    /\ skill \in Text
    /\ file = [value \in Value |-> "absent"]
    /\ logged = [value \in Value |-> 0]
    /\ moves = <<>>
    /\ best = None
    /\ job = [p \in Process |-> Idle]
    /\ authored = {skill}
    /\ left \in Settings

Launch(p, held) ==
    /\ job[p] = Idle
    /\ left.commands > 0
    /\ Cardinality({q \in Process : job[q] # Idle}) < left.crowd
    /\ left' = [left EXCEPT !.commands = @ - 1]
    /\ job' = [job EXCEPT ![p] = held]
    /\ UNCHANGED <<skill, file, logged, moves, best, authored>>

Loaded(command) == [Idle EXCEPT !.command = command, !.doc = SkillDoc(skill)]

Bootstrap(p) ==
    \E due \in Due \cup {None} :
        Launch(p, [Putting(Loaded("bootstrap"), "doc", SkillDoc(skill))
                      EXCEPT !.set = EvalSet(skill, due)])

\* --eval-set reads the set back; a missing or empty file ends the command.
Score(p) ==
    \E set \in {EvalSet(skill, due) : due \in Due} \cup {s \in EvalSets : file[s] = "whole"} :
        Launch(p, [Putting(Loaded("score"), "doc", SkillDoc(skill)) EXCEPT !.set = set])

Propose(p) == Launch(p, Putting(Loaded("propose"), "doc", SkillDoc(skill)))

\* applyEdit() refuses a proposal for another text than the one in SKILL.md.
Apply(p) ==
    \E proposal \in {v \in Proposals : file[v] = "whole"} :
        /\ proposal.parent = skill
        /\ proposal.result # None
        /\ Launch(p, Putting(Loaded("apply"), "candidate", SkillDoc(proposal.result)))

\* setBest(), called with the address of a document a person has seen.
Promote(p) ==
    \E doc \in Docs : Launch(p, Putting([Idle EXCEPT !.command = "promote"], "best", doc))

-----------------------------------------------------------------------------
(* put(): test, truncate, write, log. *)

PutPlaces == {"doc", "set", "proposal", "score", "candidate"}

At(p, place, step) == job[p].place \in place /\ job[p].step = step

StepTo(p, step) == job' = [job EXCEPT ![p].step = step]

FindValue(p) ==
    /\ At(p, PutPlaces, "exists")
    /\ IF Exists(job[p].value) THEN job' = [job EXCEPT ![p] = AfterPut(@)]
       ELSE StepTo(p, "open")
    /\ UNCHANGED <<skill, disk, authored, left>>

OpenValue(p) ==
    /\ At(p, PutPlaces, "open")
    /\ file' = [file EXCEPT ![job[p].value] = "torn"]
    /\ StepTo(p, "write")
    /\ UNCHANGED <<skill, logged, moves, best, authored, left>>

\* Mutant: put() forgets its event.
WriteValueSilently(p) ==
    /\ At(p, PutPlaces, "write")
    /\ file' = [file EXCEPT ![job[p].value] = "whole"]
    /\ job' = [job EXCEPT ![p] = AfterPut(@)]
    /\ UNCHANGED <<skill, logged, moves, best, authored, left>>

WriteValue(p) ==
    /\ At(p, PutPlaces, "write")
    /\ file' = [file EXCEPT ![job[p].value] = "whole"]
    /\ StepTo(p, "log")
    /\ UNCHANGED <<skill, logged, moves, best, authored, left>>

LogValue(p) ==
    /\ At(p, PutPlaces, "log")
    /\ logged' = [logged EXCEPT ![job[p].value] = @ + 1]
    /\ job' = [job EXCEPT ![p] = AfterPut(@)]
    /\ UNCHANGED <<skill, file, moves, best, authored, left>>

\* Mutant: propose stores what its edit makes of the document, not the edit.
AskAndApply(p) ==
    /\ job[p].place = "ask"
    /\ \/ \E result \in Text : job' = [job EXCEPT ![p] = Putting(@, "candidate", SkillDoc(result))]
       \/ job' = [job EXCEPT ![p] = Idle]
    /\ UNCHANGED <<skill, disk, authored, left>>

(* The proposing model answers with operations, or fails the command.      *)
Ask(p) ==
    /\ job[p].place = "ask"
    /\ \/ \E result \in Text \cup {None} :
            job' = [job EXCEPT ![p] =
                      Putting(@, "proposal", EditProposal(@.doc.text, result))]
       \/ job' = [job EXCEPT ![p] = Idle]
    /\ UNCHANGED <<skill, disk, authored, left>>

(* The child `j-rig eval' reads SKILL.md again; a non-zero exit or output  *)
(* without a score card fails the command.                                 *)
RunEval(p) ==
    /\ job[p].place = "eval"
    /\ \/ job' = [job EXCEPT ![p] =
                    Putting(@, "score", ScoreRecord(@.doc.text, @.set, skill))]
       \/ job' = [job EXCEPT ![p] = Idle]
    /\ UNCHANGED <<skill, disk, authored, left>>

-----------------------------------------------------------------------------
(* setBest(): test and read, truncate, write, log. *)

\* Mutant: setBest() trusts its caller.
CheckBestTrusting(p) ==
    /\ At(p, {"best"}, "exists")
    /\ job' = [job EXCEPT ![p].step = "open", ![p].from = best]
    /\ UNCHANGED <<skill, disk, authored, left>>

CheckBest(p) ==
    /\ At(p, {"best"}, "exists")
    /\ job' = [job EXCEPT ![p] = IF Exists(@.value)
                                 THEN [@ EXCEPT !.step = "open", !.from = best]
                                 ELSE Idle]
    /\ UNCHANGED <<skill, disk, authored, left>>

OpenBest(p) ==
    /\ At(p, {"best"}, "open")
    /\ best' = None
    /\ StepTo(p, "write")
    /\ UNCHANGED <<skill, file, logged, moves, authored, left>>

WriteBest(p) ==
    /\ At(p, {"best"}, "write")
    /\ best' = job[p].value
    /\ StepTo(p, "log")
    /\ UNCHANGED <<skill, file, logged, moves, authored, left>>

LogBest(p) ==
    /\ At(p, {"best"}, "log")
    /\ moves' = Append(moves, [from |-> job[p].from, to |-> job[p].value])
    /\ job' = [job EXCEPT ![p] = Idle]
    /\ UNCHANGED <<skill, file, logged, best, authored, left>>

-----------------------------------------------------------------------------
(* The world around. *)

Kill(p) ==
    /\ job[p] # Idle
    /\ left.kills > 0
    /\ left' = [left EXCEPT !.kills = @ - 1]
    /\ job' = [job EXCEPT ![p] = Idle]
    /\ UNCHANGED <<skill, disk, authored>>

EditSkill ==
    /\ left.edits > 0
    /\ left' = [left EXCEPT !.edits = @ - 1]
    /\ \E text \in Text \ {skill} : skill' = text /\ authored' = authored \cup {text}
    /\ UNCHANGED <<disk, job>>

Start(p) == Bootstrap(p) \/ Score(p) \/ Propose(p) \/ Apply(p) \/ Promote(p)

Step(p) ==
    \/ FindValue(p) \/ OpenValue(p) \/ WriteValue(p) \/ LogValue(p)
    \/ Ask(p) \/ RunEval(p)
    \/ CheckBest(p) \/ OpenBest(p) \/ WriteBest(p) \/ LogBest(p)

\* Nobody starts another command.
Quiet ==
    /\ left.commands = 0
    /\ \A p \in Process : job[p] = Idle
    /\ UNCHANGED vars

Next ==
    \/ \E p \in Process : Start(p) \/ Step(p) \/ Kill(p)
    \/ EditSkill
    \/ Quiet

Spec == Init /\ [][Next]_vars

\* Every running command is carried on by its own process.
FairSpec == Spec /\ \A p \in Process : WF_vars(Step(p))

-----------------------------------------------------------------------------
Jobs ==
    [command : {"none", "bootstrap", "score", "propose", "apply", "promote"},
     place   : PutPlaces \cup {"idle", "ask", "eval", "best"},
     step    : {"exists", "open", "write", "log"},
     value   : Value \cup {NoCall},
     doc     : Docs \cup {NoCall},
     set     : EvalSets \cup {NoCall},
     from    : Docs \cup {None}]

TypeOK ==
    /\ skill \in Text
    /\ file \in [Value -> {"absent", "torn", "whole"}]
    /\ logged \in [Value -> Nat]
    /\ moves \in Seq([from : Docs \cup {None}, to : Docs])
    /\ best \in Docs \cup {None}
    /\ job \in [Process -> Jobs]
    /\ authored \subseteq Text
    /\ left \in [commands : Nat, crowd : Nat, kills : Nat, edits : Nat]

Ledger == INSTANCE RefinerLedger WITH
              Object <- Value, Named <- References,
              objects <- {value \in Value : Exists(value)}, pointer <- best

(* store.ts "an index into immutable history, never a dangling reference": *)
(* whatever interleaves or is killed, nothing leaves the store, a value    *)
(* enters after the values it names, and the pointer names a stored value. *)
ImplementsLedger == Ledger!LedgerSpec

(* The log never runs ahead of the store: an event, of either kind, is     *)
(* about a value that was stored before.                                   *)
EventsAreTrue ==
    /\ \A value \in Value : logged[value] > 0 => Exists(value)
    /\ \A i \in DOMAIN moves : Exists(moves[i].to)

(* A stored document was written by a person or comes from a proposal that *)
(* is in the store, however SKILL.md was edited between propose and apply. *)
CandidatesDescend ==
    \A text \in Text :
        Exists(SkillDoc(text)) =>
            \/ text \in authored
            \/ \E proposal \in Proposals : Exists(proposal) /\ proposal.result = text

Settled ==
    \A value \in Value : Exists(value) => file[value] = "whole" /\ logged[value] > 0

(* When the commands end and none was killed, every value in the store is  *)
(* whole and logged, even one that two commands stored at the same time.   *)
StoreSettles == <>[](left.kills > 0 => Settled)

=============================================================================
