--------------------------- MODULE Refiner_proofs ---------------------------
(***************************************************************************)
(* The Refiner's store implements RefinerLedger for every number of        *)
(* processes, texts and dates, whatever is killed or edited in between.    *)
(* The argument is about what a command has stored by the time it is at a  *)
(* place: JobReady.  The last section is about RefinerGate: a refinement   *)
(* run climbs, for all score records, costs, budgets and significance      *)
(* levels, and however long it goes on.                                    *)
(***************************************************************************)
EXTENDS Refiner, RefinerGate, TLAPS

\* Where a document comes from: a person, or a proposal that is stored.
Descends(text) ==
    \/ text \in authored
    \/ \E proposal \in Proposals : Exists(proposal) /\ proposal.result = text

\* What a command has established by the time it is where it is.
JobReady(held) ==
    /\ held.command \in {"bootstrap", "score", "propose"} => held.doc \in Docs
    /\ held.command \in {"bootstrap", "score"} => held.set \in EvalSets
    /\ held.place = "doc" => held.value = held.doc /\ held.value \in Docs
                             /\ held.doc.text \in authored
    /\ held.place = "set" => held.value = held.set /\ held.value \in EvalSets
    /\ held.place = "proposal" => held.value \in Proposals
    /\ held.place = "score" => held.value \in Scores
    /\ held.place = "candidate" => held.value \in Docs /\ Descends(held.value.text)
    /\ held.place \in PutPlaces => \A named \in References(held.value) : Exists(named)
    /\ held.place \in PutPlaces /\ held.step \in {"write", "log"} => Exists(held.value)
    /\ held.place = "ask" => held.command = "propose"
    /\ held.place = "eval" => held.command = "score"
    /\ held.command = "score" /\ held.place \in {"set", "eval"} => Exists(held.doc)
    /\ held.place = "ask" => Exists(held.doc)
    /\ held.place = "eval" => Exists(held.set)
    /\ held.place = "best" => held.value \in Docs
    /\ held.place = "best" /\ held.step \in {"open", "write", "log"} => Exists(held.value)

StoreInv ==
    /\ TypeOK
    /\ \A p \in Process : JobReady(job[p])
    /\ EventsAreTrue
    /\ CandidatesDescend
    /\ skill \in authored

\* What is stored, as the ledger sees it, and one of its steps.
Stored == {value \in Value : Exists(value)}
StoreStep == [Ledger!LedgerNext]_<<Stored, best>>

\* No step takes anything back.
Grows ==
    /\ \A value \in Value : Exists(value) => Exists(value)'
    /\ authored \subseteq authored'

-----------------------------------------------------------------------------
(* What the kinds of value are and name.                                   *)
LEMMA Kinds ==
    /\ \A doc \in Docs : doc \in Value /\ doc.kind = "skill-doc" /\ References(doc) = {}
                         /\ doc.text \in Text /\ doc = SkillDoc(doc.text)
    /\ \A text \in Text : SkillDoc(text) \in Docs /\ SkillDoc(text).text = text
    /\ \A set \in EvalSets : set \in Value /\ set.kind = "eval-set" /\ References(set) = {}
    /\ \A proposal \in Proposals : proposal \in Value /\ proposal.kind = "edit-proposal"
                                   /\ proposal.result \in Text \cup {None}
    /\ \A score \in Scores : score \in Value /\ score.kind = "score-record"
<1>1. ASSUME NEW doc \in Docs
      PROVE  doc \in Value /\ doc.kind = "skill-doc" /\ References(doc) = {}
             /\ doc.text \in Text /\ doc = SkillDoc(doc.text)
  <2>1. PICK text \in Text : doc = SkillDoc(text)
    BY DEF Docs
  <2>2. doc.kind = "skill-doc" /\ doc.text = text
    BY <2>1 DEF SkillDoc
  <2> QED
    BY <2>1, <2>2 DEF References, Value
<1>2. ASSUME NEW set \in EvalSets
      PROVE  set \in Value /\ set.kind = "eval-set" /\ References(set) = {}
  <2>1. PICK text \in Text, due \in Due \cup {None} : set = EvalSet(text, due)
    BY DEF EvalSets
  <2>2. set.kind = "eval-set"
    BY <2>1 DEF EvalSet
  <2> QED
    BY <2>2 DEF References, Value
<1>3. \A text \in Text : SkillDoc(text) \in Docs /\ SkillDoc(text).text = text
  BY DEF Docs, SkillDoc
<1>4. ASSUME NEW proposal \in Proposals
      PROVE  proposal \in Value /\ proposal.kind = "edit-proposal"
             /\ proposal.result \in Text \cup {None}
  BY DEF Proposals, EditProposal, Value
<1>5. ASSUME NEW score \in Scores PROVE score \in Value /\ score.kind = "score-record"
  BY DEF Scores, ScoreRecord, Value
<1> QED
  BY <1>1, <1>2, <1>3, <1>4, <1>5

LEMMA ProposalNames ==
    ASSUME NEW parent \in Text, NEW result \in Text \cup {None}
    PROVE  /\ EditProposal(parent, result) \in Proposals
           /\ References(EditProposal(parent, result)) = {SkillDoc(parent)}
<1>1. EditProposal(parent, result).kind = "edit-proposal"
      /\ EditProposal(parent, result).parent = parent
  BY DEF EditProposal
<1> QED
  BY <1>1 DEF References, Proposals

LEMMA RecordNames ==
    ASSUME NEW text \in Text, NEW set \in EvalSets, NEW measured \in Text
    PROVE  /\ ScoreRecord(text, set, measured) \in Scores
           /\ References(ScoreRecord(text, set, measured)) = {SkillDoc(text), set}
<1> DEFINE record == ScoreRecord(text, set, measured)
<1>1. record.kind = "score-record" /\ record.text = text /\ record.set = set
  BY DEF ScoreRecord
<1>2. record \in Scores
  BY DEF Scores
<1> QED
  BY <1>1, <1>2 DEF References

\* Nothing is asked of an idle slot.
LEMMA IdleReady == Idle \in Jobs /\ JobReady(Idle) /\ JobReady(Idle)'
  BY DEF Jobs, JobReady, Idle, NoCall, PutPlaces

(* What a command established stays so while others work.                  *)
LEMMA StaysReady ==
    ASSUME NEW held \in Jobs, JobReady(held), Grows
    PROVE  JobReady(held)'
<1>1. held.value \in Value => (Exists(held.value) => Exists(held.value)')
  BY DEF Grows
<1>2. held.doc \in Docs => (Exists(held.doc) => Exists(held.doc)')
  BY Kinds DEF Grows
<1>3. held.set \in EvalSets => (Exists(held.set) => Exists(held.set)')
  BY Kinds DEF Grows
<1>4. \A text : Descends(text) => Descends(text)'
  BY Kinds DEF Descends, Grows
<1>5. held.place \in PutPlaces => held.value \in Value
  BY Kinds DEF JobReady, PutPlaces
<1>6. held.place \in PutPlaces =>
          ((\A named \in References(held.value) : Exists(named)) =>
           (\A named \in References(held.value) : Exists(named)'))
  <2>1. held.value \in Value => References(held.value) \subseteq Value
    <3>1. CASE held.value \in Docs \cup EvalSets
      BY <3>1, Kinds
    <3>2. CASE held.value \in Proposals
      <4>1. PICK parent \in Text, result \in Text \cup {None} :
                held.value = EditProposal(parent, result)
        BY <3>2 DEF Proposals
      <4> QED
        BY <4>1, ProposalNames, Kinds
    <3>3. CASE held.value \in Scores
      <4>1. PICK text \in Text, set \in EvalSets, measured \in Text :
                held.value = ScoreRecord(text, set, measured)
        BY <3>3 DEF Scores
      <4> QED
        BY <4>1, RecordNames, Kinds
    <3> QED
      BY <3>1, <3>2, <3>3 DEF Value
  <2> QED
    BY <1>5, <2>1 DEF Grows
<1> QED
  BY <1>1, <1>2, <1>3, <1>4, <1>5, <1>6, Kinds DEF JobReady, Grows

(* What a process holds when it turns to a new value.                      *)
LEMMA PuttingFields ==
    ASSUME NEW held \in Jobs, NEW place \in PutPlaces, NEW value \in Value,
           NEW next, next = Putting(held, place, value)
    PROVE  /\ next \in Jobs
           /\ next.place = place /\ next.value = value /\ next.step = "exists"
           /\ next.command = held.command /\ next.doc = held.doc /\ next.set = held.set
  BY DEF Putting, Jobs

(* Where a put returns to, its command is ready to go on.                  *)
LEMMA PutReturns ==
    ASSUME NEW held \in Jobs, JobReady(held)', held.place \in PutPlaces, Exists(held.value)'
    PROVE  AfterPut(held) \in Jobs /\ JobReady(AfterPut(held))'
<1>1. CASE held.place = "doc" /\ held.command \in {"bootstrap", "score"}
  <2>1. PICK next : next = Putting(held, "set", held.set) /\ next = AfterPut(held)
    BY <1>1 DEF AfterPut
  <2>2. held.set \in EvalSets /\ held.set \in Value /\ References(held.set) = {}
        /\ held.doc = held.value /\ held.doc \in Docs
    BY <1>1, Kinds DEF JobReady
  <2>3. /\ next \in Jobs /\ next.place = "set" /\ next.value = held.set /\ next.step = "exists"
        /\ next.command = held.command /\ next.doc = held.doc /\ next.set = held.set
    <3>1. "set" \in PutPlaces
      BY DEF PutPlaces
    <3> QED
      BY <2>1, <2>2, <3>1, PuttingFields
  <2>4. JobReady(next)'
    <3>1. held.command = "score" => Exists(held.doc)'
      BY <2>2
    <3> QED
      BY <1>1, <2>2, <2>3, <3>1 DEF JobReady, PutPlaces
  <2> QED
    BY <2>1, <2>3, <2>4
<1>2. CASE held.place = "set" /\ held.command = "score"
  <2>1. AfterPut(held) = [held EXCEPT !.place = "eval"]
    BY <1>2 DEF AfterPut
  <2> QED
    BY <1>2, <2>1 DEF JobReady, PutPlaces, Jobs
<1>3. CASE held.place = "doc" /\ held.command = "propose"
  <2>1. AfterPut(held) = [held EXCEPT !.place = "ask"]
    BY <1>3 DEF AfterPut
  <2> QED
    BY <1>3, <2>1 DEF JobReady, PutPlaces, Jobs
<1>4. CASE AfterPut(held) = Idle
  BY <1>4, IdleReady
<1> QED
  BY <1>1, <1>2, <1>3, <1>4 DEF AfterPut

-----------------------------------------------------------------------------
(* One process moves on, the others stay where they are.                   *)
LEMMA JobMoves ==
    ASSUME StoreInv, Grows, NEW p, NEW now \in Jobs, JobReady(now)',
           job' = [job EXCEPT ![p] = now]
    PROVE  job' \in [Process -> Jobs] /\ (\A q \in Process : JobReady(job[q]))'
<1>1. job \in [Process -> Jobs] /\ \A q \in Process : JobReady(job[q])
  BY DEF StoreInv, TypeOK
<1>2. job' \in [Process -> Jobs]
  BY <1>1
<1>3. ASSUME NEW q \in Process PROVE JobReady(job[q])'
  <2>1. CASE q = p
    <3>1. job'[q] = now
      BY <1>1, <2>1
    <3> QED
      BY <3>1
  <2>2. CASE q # p
    <3>1. PICK held \in Jobs : held = job[q] /\ job'[q] = held
      BY <1>1, <2>2
    <3>2. JobReady(held)
      BY <1>1, <3>1
    <3> QED
      BY <3>1, <3>2, StaysReady
  <2> QED
    BY <2>1, <2>2
<1> QED
  BY <1>2, <1>3

(* When the store and the authors stay, only the job has to be looked at.  *)
LEMMA StoreStands ==
    ASSUME StoreInv, skill' \in Text, skill' \in authored', authored \subseteq authored',
           authored' \subseteq Text, UNCHANGED <<file, logged, moves, best>>,
           left' \in [commands : Nat, crowd : Nat, kills : Nat, edits : Nat],
           job' \in [Process -> Jobs], (\A q \in Process : JobReady(job[q]))'
    PROVE  StoreInv' /\ StoreStep
<1>1. TypeOK'
  BY DEF StoreInv, TypeOK
<1>2. \A value : Exists(value)' <=> Exists(value)
  BY DEF Exists
<1>3. EventsAreTrue' /\ CandidatesDescend'
  BY <1>2 DEF StoreInv, EventsAreTrue, CandidatesDescend
<1>4. StoreStep
  BY <1>2 DEF StoreStep, Stored
<1> QED
  BY <1>1, <1>3, <1>4 DEF StoreInv

LEMMA GrowsInPlace ==
    ASSUME UNCHANGED file, authored \subseteq authored'
    PROVE  Grows
  BY DEF Grows, Exists

-----------------------------------------------------------------------------
(* A command that starts, with what it holds then.                         *)
LEMMA Launched ==
    ASSUME StoreInv, NEW p \in Process, NEW held \in Jobs, JobReady(held), Launch(p, held)
    PROVE  StoreInv' /\ StoreStep
<1>1. Grows
  BY GrowsInPlace DEF Launch
<1>2. JobReady(held)'
  BY <1>1, StaysReady
<1>3. job' \in [Process -> Jobs] /\ (\A q \in Process : JobReady(job[q]))'
  BY <1>1, <1>2, JobMoves DEF Launch
<1>4. left' \in [commands : Nat, crowd : Nat, kills : Nat, edits : Nat]
  BY SMTT(60) DEF Launch, StoreInv, TypeOK
<1> QED
  BY <1>3, <1>4, StoreStands DEF Launch, StoreInv, TypeOK

\* What a command that has just read SKILL.md holds.
LEMMA LoadedFields ==
    ASSUME StoreInv, NEW command \in {"bootstrap", "score", "propose", "apply"},
           NEW held, held = Loaded(command)
    PROVE  /\ held \in Jobs /\ held.command = command
           /\ held.doc = SkillDoc(skill) /\ held.doc \in Docs /\ held.doc.text = skill
           /\ SkillDoc(skill) \in Value /\ References(SkillDoc(skill)) = {}
<1>1. skill \in Text
  BY DEF StoreInv, TypeOK
<1>2. SkillDoc(skill) \in Docs /\ SkillDoc(skill).text = skill
      /\ SkillDoc(skill) \in Value /\ References(SkillDoc(skill)) = {}
  BY <1>1, Kinds
<1>3. held.command = command /\ held.doc = SkillDoc(skill)
  BY DEF Loaded, Idle
<1>4. held \in Jobs
  BY <1>2, IdleReady DEF Loaded, Jobs, Idle
<1> QED
  BY <1>2, <1>3, <1>4

LEMMA BootstrapStep ==
    ASSUME StoreInv, NEW p \in Process, Bootstrap(p) PROVE StoreInv' /\ StoreStep
<1>1. PICK due \in Due \cup {None} :
          Launch(p, [Putting(Loaded("bootstrap"), "doc", SkillDoc(skill))
                        EXCEPT !.set = EvalSet(skill, due)])
  BY DEF Bootstrap
<1>2. EvalSet(skill, due) \in EvalSets
  BY DEF StoreInv, TypeOK, EvalSets
<1>3. PICK loaded : loaded = Loaded("bootstrap")
  OBVIOUS
<1>4. PICK next : next = Putting(loaded, "doc", SkillDoc(skill))
  OBVIOUS
<1>5. PICK held : held = [next EXCEPT !.set = EvalSet(skill, due)]
  OBVIOUS
<1>6. /\ loaded \in Jobs /\ loaded.command = "bootstrap" /\ loaded.doc = SkillDoc(skill)
      /\ loaded.doc \in Docs /\ loaded.doc.text = skill
      /\ SkillDoc(skill) \in Value /\ References(SkillDoc(skill)) = {}
  BY <1>3, LoadedFields
<1>7. /\ next \in Jobs /\ next.place = "doc" /\ next.value = SkillDoc(skill)
      /\ next.step = "exists" /\ next.command = "bootstrap" /\ next.doc = SkillDoc(skill)
  <2>1. "doc" \in PutPlaces
    BY DEF PutPlaces
  <2> QED
    BY <1>4, <1>6, <2>1, PuttingFields
<1>8. /\ held \in Jobs /\ held.place = "doc" /\ held.value = SkillDoc(skill)
      /\ held.step = "exists" /\ held.command = "bootstrap" /\ held.doc = SkillDoc(skill)
      /\ held.set \in EvalSets
  BY <1>2, <1>5, <1>7 DEF Jobs
<1>9. JobReady(held)
  BY <1>6, <1>8 DEF JobReady, StoreInv
<1> QED
  BY <1>1, <1>3, <1>4, <1>5, <1>8, <1>9, Launched

LEMMA ScoreStep ==
    ASSUME StoreInv, NEW p \in Process, Score(p) PROVE StoreInv' /\ StoreStep
<1>1. PICK set \in {EvalSet(skill, due) : due \in Due} \cup {s \in EvalSets : file[s] = "whole"} :
          Launch(p, [Putting(Loaded("score"), "doc", SkillDoc(skill)) EXCEPT !.set = set])
  BY DEF Score
<1>2. set \in EvalSets
  BY DEF StoreInv, TypeOK, EvalSets
<1>3. PICK loaded : loaded = Loaded("score")
  OBVIOUS
<1>4. PICK next : next = Putting(loaded, "doc", SkillDoc(skill))
  OBVIOUS
<1>5. PICK held : held = [next EXCEPT !.set = set]
  OBVIOUS
<1>6. /\ loaded \in Jobs /\ loaded.command = "score" /\ loaded.doc = SkillDoc(skill)
      /\ loaded.doc \in Docs /\ loaded.doc.text = skill
      /\ SkillDoc(skill) \in Value /\ References(SkillDoc(skill)) = {}
  BY <1>3, LoadedFields
<1>7. /\ next \in Jobs /\ next.place = "doc" /\ next.value = SkillDoc(skill)
      /\ next.step = "exists" /\ next.command = "score" /\ next.doc = SkillDoc(skill)
  <2>1. "doc" \in PutPlaces
    BY DEF PutPlaces
  <2> QED
    BY <1>4, <1>6, <2>1, PuttingFields
<1>8. /\ held \in Jobs /\ held.place = "doc" /\ held.value = SkillDoc(skill)
      /\ held.step = "exists" /\ held.command = "score" /\ held.doc = SkillDoc(skill)
      /\ held.set \in EvalSets
  BY <1>2, <1>5, <1>7 DEF Jobs
<1>9. JobReady(held)
  BY <1>6, <1>8 DEF JobReady, StoreInv
<1> QED
  BY <1>1, <1>3, <1>4, <1>5, <1>8, <1>9, Launched

LEMMA ProposeStep ==
    ASSUME StoreInv, NEW p \in Process, Propose(p) PROVE StoreInv' /\ StoreStep
<1>1. PICK loaded : loaded = Loaded("propose")
  OBVIOUS
<1>2. PICK held : held = Putting(loaded, "doc", SkillDoc(skill))
  OBVIOUS
<1>3. /\ loaded \in Jobs /\ loaded.command = "propose" /\ loaded.doc = SkillDoc(skill)
      /\ loaded.doc \in Docs /\ loaded.doc.text = skill
      /\ SkillDoc(skill) \in Value /\ References(SkillDoc(skill)) = {}
  BY <1>1, LoadedFields
<1>4. /\ held \in Jobs /\ held.place = "doc" /\ held.value = SkillDoc(skill)
      /\ held.step = "exists" /\ held.command = "propose" /\ held.doc = SkillDoc(skill)
  <2>1. "doc" \in PutPlaces
    BY DEF PutPlaces
  <2> QED
    BY <1>2, <1>3, <2>1, PuttingFields
<1>5. JobReady(held)
  BY <1>3, <1>4 DEF JobReady, StoreInv
<1> QED
  BY <1>1, <1>2, <1>4, <1>5, Launched DEF Propose

LEMMA ApplyStep ==
    ASSUME StoreInv, NEW p \in Process, Apply(p) PROVE StoreInv' /\ StoreStep
<1>1. PICK proposal \in Proposals :
          /\ file[proposal] = "whole" /\ proposal.result # None
          /\ Launch(p, Putting(Loaded("apply"), "candidate", SkillDoc(proposal.result)))
  BY DEF Apply
<1>2. proposal \in Value /\ proposal.result \in Text
  BY <1>1, Kinds
<1>3. /\ SkillDoc(proposal.result) \in Docs /\ SkillDoc(proposal.result).text = proposal.result
      /\ SkillDoc(proposal.result) \in Value /\ References(SkillDoc(proposal.result)) = {}
  BY <1>2, Kinds
<1>4. PICK loaded : loaded = Loaded("apply")
  OBVIOUS
<1>5. PICK held : held = Putting(loaded, "candidate", SkillDoc(proposal.result))
  OBVIOUS
<1>6. loaded \in Jobs /\ loaded.command = "apply"
  BY <1>4, LoadedFields
<1>7. /\ held \in Jobs /\ held.place = "candidate" /\ held.value = SkillDoc(proposal.result)
      /\ held.step = "exists" /\ held.command = "apply"
  <2>1. "candidate" \in PutPlaces
    BY DEF PutPlaces
  <2> QED
    BY <1>3, <1>5, <1>6, <2>1, PuttingFields
<1>8. Descends(proposal.result)
  BY <1>1 DEF Descends, Exists
<1>9. JobReady(held)
  BY <1>3, <1>7, <1>8 DEF JobReady
<1> QED
  BY <1>1, <1>4, <1>5, <1>7, <1>9, Launched

LEMMA PromoteStep ==
    ASSUME StoreInv, NEW p \in Process, Promote(p) PROVE StoreInv' /\ StoreStep
<1>1. PICK doc \in Docs : Launch(p, Putting([Idle EXCEPT !.command = "promote"], "best", doc))
  BY DEF Promote
<1>2. PICK held : held = Putting([Idle EXCEPT !.command = "promote"], "best", doc)
  OBVIOUS
<1>3. doc \in Value
  BY Kinds
<1>4. /\ held.place = "best" /\ held.value = doc /\ held.step = "exists"
      /\ held.command = "promote" /\ held.doc = NoCall /\ held.set = NoCall /\ held.from = None
  BY <1>2 DEF Putting, Idle
<1>5. held \in Jobs
  BY <1>2, <1>3 DEF Putting, Idle, Jobs
<1>6. JobReady(held)
  BY <1>4 DEF JobReady, PutPlaces
<1> QED
  BY <1>1, <1>2, <1>5, <1>6, Launched

-----------------------------------------------------------------------------
(* A step that leaves the disk alone and moves its own job only.           *)
LEMMA OnlyJobMoves ==
    ASSUME StoreInv, NEW p \in Process, NEW now \in Jobs,
           JobReady(now), job' = [job EXCEPT ![p] = now],
           UNCHANGED <<skill, disk, authored, left>>
    PROVE  StoreInv' /\ StoreStep
<1>1. Grows
  BY GrowsInPlace DEF disk
<1>2. JobReady(now)'
  BY <1>1, StaysReady
<1>3. job' \in [Process -> Jobs] /\ (\A q \in Process : JobReady(job[q]))'
  BY <1>1, <1>2, JobMoves
<1> QED
  BY <1>3, StoreStands DEF disk, StoreInv, TypeOK

\* What the invariant says of one process.
LEMMA JobOf ==
    ASSUME StoreInv, NEW p \in Process PROVE job[p] \in Jobs /\ JobReady(job[p])
  BY DEF StoreInv, TypeOK

\* What a process that is putting a value knows of it.
LEMMA Putter ==
    ASSUME StoreInv, NEW p \in Process, job[p].place \in PutPlaces
    PROVE  /\ job[p].value \in Value
           /\ \A named \in References(job[p].value) : Exists(named)
           /\ job[p].step \in {"write", "log"} => Exists(job[p].value)
           /\ \A text \in Text : job[p].value = SkillDoc(text) => Descends(text)
<1>1. job[p] \in Jobs /\ JobReady(job[p])
  BY JobOf
<1>2. job[p].value \in Docs \cup EvalSets \cup Proposals \cup Scores
  BY <1>1 DEF JobReady, PutPlaces
<1>3. ASSUME NEW text \in Text, job[p].value = SkillDoc(text) PROVE Descends(text)
  <2>1. job[p].value.kind = "skill-doc" /\ job[p].value.text = text
    BY <1>3, Kinds
  <2>2. job[p].place \in {"doc", "candidate"}
    BY <1>1, <2>1, Kinds DEF JobReady, PutPlaces
  <2> QED
    BY <1>1, <2>1, <2>2 DEF JobReady, Descends
<1> QED
  BY <1>1, <1>2, <1>3, Kinds DEF JobReady

LEMMA FindValueStep ==
    ASSUME StoreInv, NEW p \in Process, FindValue(p) PROVE StoreInv' /\ StoreStep
<1>1. job[p] \in Jobs /\ JobReady(job[p]) /\ job[p].place \in PutPlaces
  BY JobOf DEF FindValue, At
<1>2. CASE Exists(job[p].value)
  <2>1. PICK held \in Jobs : held = job[p]
    BY <1>1
  <2>2. PICK now : now = AfterPut(held)
    OBVIOUS
  <2>3. Grows /\ Exists(held.value)' /\ held.place \in PutPlaces
    BY <1>1, <1>2, <2>1, GrowsInPlace DEF FindValue, disk, Exists
  <2>4. JobReady(held)'
    BY <1>1, <2>1, <2>3, StaysReady
  <2>5. now \in Jobs /\ JobReady(now)'
    BY <2>2, <2>3, <2>4, PutReturns
  <2>6. job' = [job EXCEPT ![p] = now]
    BY <1>2, <2>1, <2>2 DEF FindValue
  <2>7. job' \in [Process -> Jobs] /\ (\A q \in Process : JobReady(job[q]))'
    BY <2>3, <2>5, <2>6, JobMoves
  <2> QED
    BY <2>7, StoreStands DEF FindValue, disk, StoreInv, TypeOK
<1>3. CASE ~Exists(job[p].value)
  <2>1. PICK now : now = [job[p] EXCEPT !.step = "open"]
    OBVIOUS
  <2>2. now \in Jobs /\ JobReady(now)
    BY <1>1, <2>1 DEF Jobs, JobReady, PutPlaces
  <2>3. job' = [job EXCEPT ![p] = now]
    BY <1>1, <1>3, <2>1 DEF FindValue, StepTo, StoreInv, TypeOK
  <2> QED
    BY <2>2, <2>3, OnlyJobMoves DEF FindValue
<1> QED
  BY <1>2, <1>3

(* A file that changes but does not go away: what is stored grows by its   *)
(* value at most, which the ledger may let in.                             *)
LEMMA FileTouched ==
    ASSUME StoreInv, NEW value \in Value, NEW state \in {"torn", "whole"},
           file' = [file EXCEPT ![value] = state], UNCHANGED <<best, authored>>,
           \A named \in References(value) : Exists(named)
    PROVE  Grows /\ Exists(value)' /\ StoreStep
<1>1. file \in [Value -> {"absent", "torn", "whole"}]
  BY DEF StoreInv, TypeOK
<1>2. Exists(value)' /\ \A other \in Value \ {value} : Exists(other)' <=> Exists(other)
  BY <1>1 DEF Exists
<1>3. Grows
  BY <1>2 DEF Grows
<1>4. CASE Exists(value)
  <2>1. Stored' = Stored
    BY <1>2, <1>4 DEF Stored
  <2> QED
    BY <1>2, <1>3, <2>1 DEF StoreStep
<1>5. CASE ~Exists(value)
  <2>1. Stored' = Stored \cup {value} /\ value \in Value \ Stored
    BY <1>2, <1>5 DEF Stored
  <2>2. References(value) \subseteq Value
    <3>1. value \in Docs \cup EvalSets => References(value) = {}
      BY Kinds
    <3>2. ASSUME NEW parent \in Text, NEW result \in Text \cup {None},
                 value = EditProposal(parent, result)
          PROVE  References(value) \subseteq Value
      BY <3>2, ProposalNames, Kinds
    <3>3. ASSUME NEW text \in Text, NEW set \in EvalSets, NEW measured \in Text,
                 value = ScoreRecord(text, set, measured)
          PROVE  References(value) \subseteq Value
      BY <3>3, RecordNames, Kinds
    <3> QED
      BY <3>1, <3>2, <3>3 DEF Value, Proposals, Scores
  <2>3. References(value) \subseteq Stored
    BY <2>2 DEF Stored
  <2> QED
    BY <1>2, <1>3, <2>1, <2>3 DEF StoreStep, Stored, Ledger!LedgerNext, Ledger!Enter
<1> QED
  BY <1>4, <1>5

(* The two steps of put() that touch the file.                             *)
LEMMA FileStep ==
    ASSUME StoreInv, NEW p \in Process, OpenValue(p) \/ WriteValue(p)
    PROVE  StoreInv' /\ StoreStep
<1>1. job[p] \in Jobs /\ JobReady(job[p]) /\ job[p].place \in PutPlaces
  BY JobOf DEF OpenValue, WriteValue, At
<1>2. PICK state \in {"torn", "whole"}, step \in {"write", "log"} :
          /\ file' = [file EXCEPT ![job[p].value] = state]
          /\ job' = [job EXCEPT ![p].step = step]
          /\ UNCHANGED <<skill, logged, moves, best, authored, left>>
  BY DEF OpenValue, WriteValue, StepTo
<1>3. PICK held \in Jobs : held = job[p]
  BY <1>1
<1>4. PICK now : now = [held EXCEPT !.step = step]
  OBVIOUS
<1>5. /\ held.value \in Value /\ \A named \in References(held.value) : Exists(named)
      /\ \A text \in Text : held.value = SkillDoc(text) => Descends(text)
  BY <1>1, <1>3, Putter
<1>6. Grows /\ Exists(held.value)' /\ StoreStep
  BY <1>2, <1>3, <1>5, FileTouched
<1>7. JobReady(held)'
  BY <1>1, <1>3, <1>6, StaysReady
<1>8. now \in Jobs /\ JobReady(now)'
  BY <1>1, <1>3, <1>4, <1>6, <1>7 DEF Jobs, JobReady, PutPlaces
<1>9. job' \in [Process -> Jobs] /\ (\A q \in Process : JobReady(job[q]))'
  <2>1. job' = [job EXCEPT ![p] = now]
    BY <1>2, <1>3, <1>4 DEF StoreInv, TypeOK
  <2> QED
    BY <1>6, <1>8, <2>1, JobMoves
<1>10. TypeOK'
  BY <1>2, <1>9 DEF StoreInv, TypeOK
<1>11. EventsAreTrue'
  <2>1. \A doc \in Docs : Exists(doc) => Exists(doc)'
    BY <1>6, Kinds DEF Grows
  <2>2. \A i \in DOMAIN moves : moves[i].to \in Docs
    <3> DEFINE Move == [from : Docs \cup {None}, to : Docs]
    <3>1. moves \in Seq(Move)
      BY DEF StoreInv, TypeOK
    <3> HIDE DEF Move
    <3>2. \A i \in DOMAIN moves : moves[i] \in Move
      BY <3>1
    <3> QED
      BY <3>2 DEF Move
  <2> QED
    BY <1>2, <1>6, <2>1, <2>2 DEF StoreInv, EventsAreTrue, Grows
<1>12. CandidatesDescend'
  <2> SUFFICES ASSUME NEW text \in Text, Exists(SkillDoc(text))'
               PROVE  Descends(text)'
    BY DEF CandidatesDescend, Descends
  <2>1. Descends(text)
    <3>1. CASE held.value = SkillDoc(text)
      BY <1>5, <3>1
    <3>2. CASE held.value # SkillDoc(text)
      <4>1. Exists(SkillDoc(text))
        BY <1>2, <1>3, <3>2 DEF Exists, StoreInv, TypeOK
      <4> QED
        BY <4>1 DEF StoreInv, CandidatesDescend, Descends
    <3> QED
      BY <3>1, <3>2
  <2> QED
    BY <1>6, <2>1, Kinds DEF Descends, Grows
<1> QED
  BY <1>2, <1>6, <1>9, <1>10, <1>11, <1>12 DEF StoreInv

LEMMA LogValueStep ==
    ASSUME StoreInv, NEW p \in Process, LogValue(p) PROVE StoreInv' /\ StoreStep
<1>1. /\ job[p] \in Jobs /\ JobReady(job[p])
      /\ job[p].place \in PutPlaces /\ job[p].step = "log"
  BY JobOf DEF LogValue, At
<1>2. PICK held \in Jobs : held = job[p]
  BY <1>1
<1>3. PICK now : now = AfterPut(held)
  OBVIOUS
<1>4. held.value \in Value /\ Exists(held.value) /\ held.place \in PutPlaces
  BY <1>1, <1>2, Putter
<1>5. Grows /\ \A value : Exists(value)' <=> Exists(value)
  BY GrowsInPlace DEF LogValue, Exists
<1>6. JobReady(held)'
  BY <1>1, <1>2, <1>5, StaysReady
<1>7. now \in Jobs /\ JobReady(now)'
  BY <1>3, <1>4, <1>5, <1>6, PutReturns
<1>8. job' \in [Process -> Jobs] /\ (\A q \in Process : JobReady(job[q]))'
  <2>1. job' = [job EXCEPT ![p] = now]
    BY <1>2, <1>3 DEF LogValue
  <2> QED
    BY <1>5, <1>7, <2>1, JobMoves
<1>9. logged' = [logged EXCEPT ![held.value] = @ + 1] /\ logged \in [Value -> Nat]
  BY <1>2 DEF LogValue, StoreInv, TypeOK
<1>10. TypeOK'
  <2>1. logged' \in [Value -> Nat]
    BY <1>4, <1>9
  <2> QED
    BY <1>8, <2>1 DEF LogValue, StoreInv, TypeOK
<1>11. EventsAreTrue' /\ CandidatesDescend'
  BY <1>4, <1>5, <1>9 DEF LogValue, StoreInv, EventsAreTrue, CandidatesDescend
<1>12. StoreStep
  BY <1>5 DEF LogValue, StoreStep, Stored
<1> QED
  BY <1>8, <1>10, <1>11, <1>12 DEF LogValue, StoreInv

LEMMA AskStep ==
    ASSUME StoreInv, NEW p \in Process, Ask(p) PROVE StoreInv' /\ StoreStep
<1>1. /\ job[p] \in Jobs /\ JobReady(job[p]) /\ job[p].place = "ask"
      /\ job[p].doc \in Docs /\ Exists(job[p].doc) /\ job[p].doc.text \in Text
      /\ job[p].doc = SkillDoc(job[p].doc.text)
  <2>1. job[p] \in Jobs /\ JobReady(job[p]) /\ job[p].place = "ask"
    BY JobOf DEF Ask
  <2>2. job[p].doc \in Docs /\ Exists(job[p].doc)
    BY <2>1 DEF JobReady
  <2> QED
    BY <2>1, <2>2, Kinds
<1>2. ASSUME NEW result \in Text \cup {None},
             job' = [job EXCEPT ![p] =
                       Putting(@, "proposal", EditProposal(@.doc.text, result))]
      PROVE  StoreInv' /\ StoreStep
  <2>1. PICK proposal : proposal = EditProposal(job[p].doc.text, result)
    OBVIOUS
  <2>2. /\ proposal \in Proposals /\ proposal \in Value
        /\ References(proposal) = {job[p].doc}
    BY <1>1, <2>1, ProposalNames, Kinds
  <2>3. PICK now : now = Putting(job[p], "proposal", proposal)
    OBVIOUS
  <2>4. /\ now \in Jobs /\ now.place = "proposal" /\ now.value = proposal
        /\ now.step = "exists" /\ now.command = job[p].command
        /\ now.doc = job[p].doc /\ now.set = job[p].set
    <3>1. "proposal" \in PutPlaces
      BY DEF PutPlaces
    <3> QED
      BY <1>1, <2>2, <2>3, <3>1, PuttingFields
  <2>5. JobReady(now)
    BY <1>1, <2>2, <2>4 DEF JobReady
  <2>6. job' = [job EXCEPT ![p] = now]
    BY <1>2, <2>1, <2>3
  <2> QED
    BY <2>4, <2>5, <2>6, OnlyJobMoves DEF Ask
<1>3. CASE job' = [job EXCEPT ![p] = Idle]
  BY <1>3, IdleReady, OnlyJobMoves DEF Ask
<1> QED
  BY <1>2, <1>3 DEF Ask

LEMMA RunEvalStep ==
    ASSUME StoreInv, NEW p \in Process, RunEval(p) PROVE StoreInv' /\ StoreStep
<1>1. /\ job[p] \in Jobs /\ JobReady(job[p]) /\ job[p].place = "eval"
      /\ job[p].doc \in Docs /\ job[p].set \in EvalSets /\ job[p].doc.text \in Text
      /\ Exists(job[p].doc) /\ Exists(job[p].set)
      /\ job[p].doc = SkillDoc(job[p].doc.text)
  <2>1. job[p] \in Jobs /\ JobReady(job[p]) /\ job[p].place = "eval"
    BY JobOf DEF RunEval
  <2>2. /\ job[p].doc \in Docs /\ job[p].set \in EvalSets
        /\ Exists(job[p].doc) /\ Exists(job[p].set)
    BY <2>1 DEF JobReady
  <2> QED
    BY <2>1, <2>2, Kinds
<1>2. CASE job' = [job EXCEPT ![p] =
                     Putting(@, "score", ScoreRecord(@.doc.text, @.set, skill))]
  <2>1. PICK record : record = ScoreRecord(job[p].doc.text, job[p].set, skill)
    OBVIOUS
  <2>2. /\ record \in Scores /\ record \in Value
        /\ References(record) = {job[p].doc, job[p].set}
    BY <1>1, <2>1, RecordNames, Kinds, SMTT(60) DEF StoreInv, TypeOK
  <2>3. PICK now : now = Putting(job[p], "score", record)
    OBVIOUS
  <2>4. /\ now \in Jobs /\ now.place = "score" /\ now.value = record
        /\ now.step = "exists" /\ now.command = job[p].command
        /\ now.doc = job[p].doc /\ now.set = job[p].set
    <3>1. "score" \in PutPlaces
      BY DEF PutPlaces
    <3> QED
      BY <1>1, <2>2, <2>3, <3>1, PuttingFields
  <2>5. JobReady(now)
    BY <1>1, <2>2, <2>4 DEF JobReady
  <2>6. job' = [job EXCEPT ![p] = now]
    BY <1>2, <2>1, <2>3
  <2> QED
    BY <2>4, <2>5, <2>6, OnlyJobMoves DEF RunEval
<1>3. CASE job' = [job EXCEPT ![p] = Idle]
  BY <1>3, IdleReady, OnlyJobMoves DEF RunEval
<1> QED
  BY <1>2, <1>3 DEF RunEval

-----------------------------------------------------------------------------
LEMMA CheckBestStep ==
    ASSUME StoreInv, NEW p \in Process, CheckBest(p) PROVE StoreInv' /\ StoreStep
<1>1. job[p] \in Jobs /\ JobReady(job[p]) /\ job[p].place = "best"
  BY JobOf DEF CheckBest, At
<1>2. CASE Exists(job[p].value)
  <2>1. PICK now : now = [job[p] EXCEPT !.step = "open", !.from = best]
    OBVIOUS
  <2>2. now \in Jobs
    BY <1>1, <2>1 DEF Jobs, StoreInv, TypeOK
  <2>3. JobReady(now)
    BY <1>1, <1>2, <2>1 DEF Jobs, JobReady, PutPlaces
  <2>4. job' = [job EXCEPT ![p] = now]
    BY <1>2, <2>1 DEF CheckBest
  <2> QED
    BY <2>2, <2>3, <2>4, OnlyJobMoves DEF CheckBest
<1>3. CASE ~Exists(job[p].value)
  <2>1. job' = [job EXCEPT ![p] = Idle]
    BY <1>3 DEF CheckBest
  <2> QED
    BY <2>1, IdleReady, OnlyJobMoves DEF CheckBest
<1> QED
  BY <1>2, <1>3

(* The two steps of setBest() that touch the pointer's file.               *)
LEMMA PointerStep ==
    ASSUME StoreInv, NEW p \in Process, OpenBest(p) \/ WriteBest(p)
    PROVE  StoreInv' /\ StoreStep
<1>1. /\ job[p] \in Jobs /\ JobReady(job[p]) /\ job[p].place = "best"
      /\ job[p].step \in {"open", "write"}
  BY JobOf DEF OpenBest, WriteBest, At
<1>2. job[p].value \in Docs /\ job[p].value \in Value /\ Exists(job[p].value)
  BY <1>1, Kinds DEF JobReady
<1>3. PICK step \in {"write", "log"} : job' = [job EXCEPT ![p].step = step]
  BY DEF OpenBest, WriteBest, StepTo
<1>4. PICK now : now = [job[p] EXCEPT !.step = step]
  OBVIOUS
<1>5. now \in Jobs /\ JobReady(now)
  BY <1>1, <1>2, <1>4 DEF Jobs, JobReady, PutPlaces
<1>6. Grows /\ \A value : Exists(value)' <=> Exists(value)
  BY GrowsInPlace DEF OpenBest, WriteBest, Exists
<1>7. job' \in [Process -> Jobs] /\ (\A q \in Process : JobReady(job[q]))'
  <2>1. JobReady(now)'
    BY <1>5, <1>6, StaysReady
  <2>2. job' = [job EXCEPT ![p] = now]
    BY <1>3, <1>4 DEF StoreInv, TypeOK
  <2> QED
    BY <1>5, <1>6, <2>1, <2>2, JobMoves
<1>8. TypeOK'
  BY <1>2, <1>7 DEF OpenBest, WriteBest, StoreInv, TypeOK
<1>9. EventsAreTrue' /\ CandidatesDescend'
  BY <1>6 DEF OpenBest, WriteBest, StoreInv, EventsAreTrue, CandidatesDescend
<1>10. StoreStep
  <2>1. Stored' = Stored /\ job[p].value \in Stored
    BY <1>2, <1>6 DEF Stored
  <2>2. best' = None \/ best' = job[p].value
    BY DEF OpenBest, WriteBest
  <2> QED
    BY <2>1, <2>2 DEF StoreStep, Stored, Ledger!LedgerNext, Ledger!Unset, Ledger!PointAt
<1> QED
  BY <1>7, <1>8, <1>9, <1>10 DEF OpenBest, WriteBest, StoreInv

LEMMA LogBestStep ==
    ASSUME StoreInv, NEW p \in Process, LogBest(p) PROVE StoreInv' /\ StoreStep
<1>1. /\ job[p] \in Jobs /\ JobReady(job[p]) /\ job[p].place = "best" /\ job[p].step = "log"
  BY JobOf DEF LogBest, At
<1>2. job[p].value \in Docs /\ Exists(job[p].value)
  BY <1>1 DEF JobReady
<1>3. Grows /\ \A value : Exists(value)' <=> Exists(value)
  BY GrowsInPlace DEF LogBest, Exists
<1>4. job' \in [Process -> Jobs] /\ (\A q \in Process : JobReady(job[q]))'
  BY <1>3, IdleReady, JobMoves DEF LogBest
<1> DEFINE Move == [from : Docs \cup {None}, to : Docs]
           move == [from |-> job[p].from, to |-> job[p].value]
<1>5. moves \in Seq(Move) /\ move \in Move
  BY <1>1, <1>2 DEF StoreInv, TypeOK, Jobs
<1>6. moves' = Append(moves, move)
  BY DEF LogBest
<1> HIDE DEF Move, move
<1>7. moves' \in Seq(Move)
  BY <1>5, <1>6
<1>8. TypeOK'
  BY <1>4, <1>7 DEF LogBest, StoreInv, TypeOK, Move
<1>9. (\A i \in DOMAIN moves : Exists(moves[i].to))'
  <2>1. \A i \in DOMAIN moves : Exists(moves[i].to)
    BY DEF StoreInv, EventsAreTrue
  <2>2. Exists(move.to)
    BY <1>2 DEF move
  <2>3. \A i \in DOMAIN moves' : (i \in DOMAIN moves /\ moves'[i] = moves[i]) \/ moves'[i] = move
    BY <1>5, <1>6
  <2> QED
    BY <1>3, <2>1, <2>2, <2>3
<1>10. EventsAreTrue' /\ CandidatesDescend'
  BY <1>3, <1>9 DEF LogBest, StoreInv, EventsAreTrue, CandidatesDescend
<1>11. StoreStep
  BY <1>3 DEF LogBest, StoreStep, Stored
<1> QED
  BY <1>4, <1>8, <1>10, <1>11 DEF LogBest, StoreInv

LEMMA KillStep ==
    ASSUME StoreInv, NEW p \in Process, Kill(p) PROVE StoreInv' /\ StoreStep
<1>1. Grows
  BY GrowsInPlace DEF Kill, disk
<1>2. job' \in [Process -> Jobs] /\ (\A q \in Process : JobReady(job[q]))'
  BY <1>1, IdleReady, JobMoves DEF Kill
<1>3. left' \in [commands : Nat, crowd : Nat, kills : Nat, edits : Nat]
  BY SMTT(60) DEF Kill, StoreInv, TypeOK
<1> QED
  BY <1>2, <1>3, StoreStands DEF Kill, disk, StoreInv, TypeOK

LEMMA EditSkillStep == ASSUME StoreInv, EditSkill PROVE StoreInv' /\ StoreStep
<1>1. Grows
  BY GrowsInPlace DEF EditSkill, disk
<1>2. job' = job /\ \A q \in Process : job[q] \in Jobs /\ JobReady(job[q])
  BY JobOf DEF EditSkill
<1>3. ASSUME NEW q \in Process PROVE JobReady(job[q])'
  <2>1. PICK held \in Jobs : held = job[q] /\ job'[q] = held
    BY <1>2
  <2>2. JobReady(held)'
    BY <1>1, <1>2, <2>1, StaysReady
  <2> QED
    BY <2>1, <2>2
<1>4. left' \in [commands : Nat, crowd : Nat, kills : Nat, edits : Nat]
  BY DEF EditSkill, StoreInv, TypeOK
<1> QED
  BY <1>2, <1>3, <1>4, StoreStands DEF EditSkill, disk, StoreInv, TypeOK

LEMMA StillStep == ASSUME StoreInv, UNCHANGED vars PROVE StoreInv' /\ StoreStep
<1>1. \A value : Exists(value)' <=> Exists(value)
  BY DEF vars, Exists
<1>2. \A text : Descends(text)' <=> Descends(text)
  BY <1>1 DEF vars, Descends
<1>3. \A q \in Process : JobReady(job[q])' <=> JobReady(job[q])
  BY <1>1, <1>2 DEF vars, JobReady
<1>4. TypeOK' /\ EventsAreTrue' /\ CandidatesDescend'
  BY <1>1 DEF vars, StoreInv, TypeOK, EventsAreTrue, CandidatesDescend
<1> QED
  BY <1>1, <1>3, <1>4 DEF vars, StoreInv, StoreStep, Stored

-----------------------------------------------------------------------------
(* The store starts empty, with nobody at work.                            *)
LEMMA StoreStarts == Init => StoreInv /\ Ledger!LedgerInit
<1> SUFFICES ASSUME Init PROVE StoreInv /\ Ledger!LedgerInit
  OBVIOUS
<1>1. \A value \in Value : ~Exists(value)
  BY DEF Init, Exists
<1>2. TypeOK
  BY IdleReady, RefinerAssumption DEF Init, TypeOK
<1>3. \A p \in Process : JobReady(job[p])
  BY IdleReady DEF Init
<1>4. EventsAreTrue
  BY DEF Init, EventsAreTrue
<1>5. CandidatesDescend
  BY <1>1, Kinds DEF CandidatesDescend
<1> QED
  BY <1>1, <1>2, <1>3, <1>4, <1>5 DEF Init, StoreInv, Ledger!LedgerInit

LEMMA StoreKept == StoreInv /\ [Next]_vars => StoreInv' /\ StoreStep
<1> SUFFICES ASSUME StoreInv, [Next]_vars PROVE StoreInv' /\ StoreStep
  OBVIOUS
<1>1. ASSUME NEW p \in Process, Start(p) PROVE StoreInv' /\ StoreStep
  BY <1>1, BootstrapStep, ScoreStep, ProposeStep, ApplyStep, PromoteStep DEF Start
<1>2. ASSUME NEW p \in Process, Step(p) PROVE StoreInv' /\ StoreStep
  BY <1>2, FindValueStep, FileStep, LogValueStep, AskStep, RunEvalStep,
     CheckBestStep, PointerStep, LogBestStep DEF Step
<1>3. ASSUME NEW p \in Process, Kill(p) PROVE StoreInv' /\ StoreStep
  BY <1>3, KillStep
<1>4. CASE EditSkill
  BY <1>4, EditSkillStep
<1>5. CASE Quiet \/ UNCHANGED vars
  BY <1>5, StillStep DEF Quiet
<1> QED
  BY <1>1, <1>2, <1>3, <1>4, <1>5 DEF Next

(* Every variable of the Refiner stays in its type.                        *)
THEOREM StoreTyped == Spec => []TypeOK
<1>1. StoreInv => TypeOK
  BY DEF StoreInv
<1> QED
  BY <1>1, StoreStarts, StoreKept, PTL DEF Spec

(* Whatever is killed or interleaved, an event of log.jsonl is about a     *)
(* value that is in the store.                                             *)
THEOREM EventsStayTrue == Spec => []EventsAreTrue
<1>1. StoreInv => EventsAreTrue
  BY DEF StoreInv
<1> QED
  BY <1>1, StoreStarts, StoreKept, PTL DEF Spec

(* A stored document was written by a person or made by a stored proposal, *)
(* however SKILL.md was edited between propose and apply.                  *)
THEOREM DocumentsDescend == Spec => []CandidatesDescend
<1>1. StoreInv => CandidatesDescend
  BY DEF StoreInv
<1> QED
  BY <1>1, StoreStarts, StoreKept, PTL DEF Spec

(* The store is the append-only ledger of RefinerLedger: nothing leaves    *)
(* it, a value enters after the values it names, and the best pointer      *)
(* never names a document that is not stored.                              *)
THEOREM StoreIsALedger == Spec => ImplementsLedger
<1>1. StoreStep => [Ledger!LedgerNext]_<<{value \in Value : Exists(value)}, best>>
  BY DEF StoreStep, Stored
<1> QED
  BY <1>1, StoreStarts, StoreKept, PTL DEF Spec, ImplementsLedger, Ledger!LedgerSpec

-----------------------------------------------------------------------------
(* The acceptance gate. *)


RunSpec == RunInit /\ [][RunNext]_run

\* What a version may be next to an earlier one.
Above(lower, higher) ==
    /\ lower.set = higher.set
    /\ lower.behavioral.value < higher.behavioral.value
    /\ DOMAIN lower.dims \subseteq DOMAIN higher.dims

LEMMA RecordTyped ==
    ASSUME NEW record \in Records
    PROVE  /\ record.behavioral \in Dim
           /\ \A name \in DOMAIN record.dims : record.dims[name] \in Dim
  BY GateAssumption

LEMMA SpreadTyped ==
    ASSUME NEW dim \in Dim
    PROVE  /\ Spread(dim)[1] \in Nat /\ Spread(dim)[2] \in Nat \ {0}
           /\ dim.variance = 0 => Spread(dim)[1] = 0
<1>1. CASE dim.n > 0
  <2>1. Spread(dim) = <<dim.variance, dim.n>>
    BY <1>1 DEF Spread
  <2> QED
    BY <1>1, <2>1 DEF Dim
<1>2. CASE ~(dim.n > 0)
  <2>1. Spread(dim) = <<0, 1>>
    BY <1>2 DEF Spread
  <2> QED
    BY <2>1
<1> QED
  BY <1>1, <1>2

LEMMA Products == ASSUME NEW a \in Nat, NEW b \in Nat PROVE a * b \in Nat
  OBVIOUS

LEMMA Squares == ASSUME NEW d \in Int PROVE d * d \in Nat
<1>1. CASE d >= 0
  BY <1>1
<1>2. CASE d < 0
  BY <1>2
<1> QED
  BY <1>1, <1>2

(* Without variance on either side any difference is significant.          *)
LEMMA ExactIsSignificant ==
    ASSUME NEW a \in Dim, NEW b \in Dim, NEW diff \in Int, a.variance = 0, b.variance = 0
    PROVE  Significant(diff, a, b)
<1> DEFINE va == Spread(a)  vb == Spread(b)
<1>1. va[1] = 0 /\ vb[1] = 0 /\ va[2] \in Nat /\ vb[2] \in Nat
  BY SpreadTyped
<1>2. PICK m \in Nat, n \in Nat : m = va[2] /\ n = vb[2]
  BY <1>1
<1>3. ZNum * (va[1] * vb[2] + vb[1] * va[2]) = 0
  <2>1. va[1] * vb[2] + vb[1] * va[2] = 0
    BY <1>1
  <2> QED
    BY <2>1, GateAssumption
<1>4. ZDen * diff * diff * va[2] * vb[2] >= 0
  <2>1. PICK square \in Nat : square = diff * diff
    BY Squares
  <2>2. ZDen * diff * diff = ZDen * square
    BY <2>1, GateAssumption
  <2>3. ZDen * square \in Nat
    BY Products, GateAssumption
  <2>4. ZDen * square * m \in Nat
    BY <2>3, Products
  <2>5. ZDen * square * m * n \in Nat
    BY <2>4, Products
  <2> QED
    BY <1>2, <2>2, <2>5
<1> HIDE DEF va, vb
<1> QED
  BY <1>3, <1>4 DEF Significant, va, vb

(* What the gate accepts is above the baseline, and no worse in any        *)
(* dimension that was measured exactly.                                    *)
LEMMA AcceptedIsAbove ==
    ASSUME NEW baseline \in Records, NEW candidate \in Records,
           Accept(baseline, candidate) = "accepted"
    PROVE  /\ Above(baseline, candidate)
           /\ \A name \in DOMAIN baseline.dims :
                 baseline.dims[name].variance = 0 /\ candidate.dims[name].variance = 0 =>
                     baseline.dims[name].value <= candidate.dims[name].value
<1>1. /\ baseline.set = candidate.set
      /\ IsSignificantImprovement(candidate.behavioral, baseline.behavioral)
      /\ RegressedDimensions(baseline, candidate) = {}
  BY DEF Accept
<1>2. baseline.behavioral.value < candidate.behavioral.value
  BY <1>1, RecordTyped DEF IsSignificantImprovement, Dim
<1>3. \A name \in DOMAIN baseline.dims :
          /\ name \in DOMAIN candidate.dims
          /\ ~IsSignificantRegression(candidate.dims[name], baseline.dims[name])
  BY <1>1 DEF RegressedDimensions
<1>4. ASSUME NEW name \in DOMAIN baseline.dims,
             baseline.dims[name].variance = 0, candidate.dims[name].variance = 0
      PROVE  baseline.dims[name].value <= candidate.dims[name].value
  <2>1. PICK a \in Dim, b \in Dim : a = candidate.dims[name] /\ b = baseline.dims[name]
    BY <1>3, RecordTyped
  <2>2. PICK diff \in Int : diff = a.value - b.value
    BY DEF Dim
  <2>3. Significant(diff, a, b)
    BY <1>4, <2>1, ExactIsSignificant
  <2>4. ~(diff < 0)
    BY <1>3, <2>1, <2>2, <2>3 DEF IsSignificantRegression
  <2> QED
    BY <2>1, <2>2, <2>4 DEF Dim
<1> QED
  BY <1>1, <1>2, <1>3, <1>4 DEF Above

-----------------------------------------------------------------------------
RunInv == RunTypeOK /\ LineageClimbs

LEMMA InitRun == RunInit => RunInv
<1> SUFFICES ASSUME RunInit PROVE RunInv
  OBVIOUS
<1>1. PICK record \in Records : heads = <<record>>
  BY DEF RunInit
<1>2. Len(heads) = 1 /\ heads \in Seq(Records) /\ heads # <<>>
  BY <1>1
<1>3. RunTypeOK
  <2>1. attempts \in Seq([tokens : Costs, outcome : {"accepted", "rejected"}])
    BY DEF RunInit
  <2> QED
    BY <1>2, <2>1 DEF RunInit, RunTypeOK
<1>4. LineageClimbs
  BY <1>2 DEF LineageClimbs
<1> QED
  BY <1>3, <1>4 DEF RunInv

LEMMA AskKeeps == RunInv /\ AskMeter => RunInv'
<1> SUFFICES ASSUME RunInv, AskMeter PROVE RunInv'
  OBVIOUS
<1>1. CheckBudget(budget, attempts) \in {"continue"} \cup Quarantined
  BY DEF CheckBudget, Quarantined
<1>2. phase' \in {"attempt"} \cup Quarantined
  BY <1>1 DEF AskMeter
<1>3. UNCHANGED <<heads, attempts, revisions, budget>>
  BY DEF AskMeter
<1>4. RunTypeOK'
  BY <1>2, <1>3 DEF RunInv, RunTypeOK
<1>5. LineageClimbs'
  BY <1>3 DEF RunInv, LineageClimbs, Exact
<1> QED
  BY <1>4, <1>5 DEF RunInv

\* LineageClimbs of any lineage h.
ExactIn(h, name, i, j) ==
    \A k \in i..j : name \in DOMAIN h[k].dims /\ h[k].dims[name].variance = 0

Pair(h, i, j) ==
    /\ Above(h[i], h[j])
    /\ \A name \in DOMAIN h[i].dims :
          ExactIn(h, name, i, j) => h[i].dims[name].value <= h[j].dims[name].value

Climbs(h) == \A i, j \in 1..Len(h) : i < j => Pair(h, i, j)

LEMMA ClimbsIsLineage == LineageClimbs <=> Climbs(heads)
  BY DEF LineageClimbs, Climbs, Pair, Above, ExactIn, Exact

LEMMA ClimbsNext == LineageClimbs' <=> Climbs(heads')
  BY DEF LineageClimbs, Climbs, Pair, Above, ExactIn, Exact

(* One more version, above the last one, is above all of them.             *)
LEMMA LongerClimbs ==
    ASSUME NEW h \in Seq(Records), h # <<>>, Climbs(h), NEW candidate \in Records,
           Accept(h[Len(h)], candidate) = "accepted"
    PROVE  Climbs(Append(h, candidate))
<1> DEFINE longer == Append(h, candidate)
<1>1. PICK n \in Nat \ {0} : n = Len(h)
  OBVIOUS
<1>2. Len(longer) = n + 1 /\ longer[n + 1] = candidate
  BY <1>1
<1>3. \A k \in 1..n : longer[k] = h[k] /\ h[k] \in Records
  BY <1>1
<1> DEFINE last == h[n]
<1>4. /\ Above(last, candidate)
      /\ \A name \in DOMAIN last.dims :
            last.dims[name].variance = 0 /\ candidate.dims[name].variance = 0 =>
                last.dims[name].value <= candidate.dims[name].value
  BY <1>1, <1>3, AcceptedIsAbove
<1>5. \A i, j \in 1..n : i < j => Pair(h, i, j)
  BY <1>1 DEF Climbs
<1> HIDE DEF longer
<1>6. SUFFICES ASSUME NEW i \in 1..(n + 1), NEW j \in 1..(n + 1), i < j
      PROVE  Pair(longer, i, j)
  BY <1>2 DEF Climbs, longer
<1>7. i \in 1..n /\ longer[i] = h[i] /\ h[i] \in Records
  BY <1>3, <1>6
<1>8. CASE j \in 1..n
  <2>1. longer[j] = h[j] /\ Pair(h, i, j)
    BY <1>3, <1>5, <1>6, <1>7, <1>8
  <2>2. \A k \in i..j : longer[k] = h[k]
    BY <1>3, <1>7, <1>8
  <2> QED
    BY <1>7, <2>1, <2>2 DEF Pair, ExactIn
<1>9. CASE j = n + 1
  <2>1. longer[j] = candidate
    BY <1>2, <1>9
  <2>2. CASE i = n
    <3>1. ASSUME NEW name \in DOMAIN last.dims, ExactIn(longer, name, i, j)
          PROVE  last.dims[name].value <= candidate.dims[name].value
      <4>1. i \in i..j /\ j \in i..j
        BY <1>9, <2>2
      <4>2. last.dims[name].variance = 0 /\ candidate.dims[name].variance = 0
        BY <1>7, <2>1, <2>2, <3>1, <4>1 DEF ExactIn
      <4> QED
        BY <1>4, <4>2
    <3> QED
      BY <1>4, <1>7, <2>1, <2>2, <3>1 DEF Pair
  <2>3. CASE i < n
    <3>1. n \in 1..n /\ Pair(h, i, n) /\ last \in Records /\ longer[n] = last
      BY <1>3, <1>5, <1>7, <2>3
    <3>2. Above(h[i], last)
      BY <3>1 DEF Pair
    <3>3. Above(h[i], candidate)
      <4>1. /\ h[i].behavioral.value \in Int
            /\ last.behavioral.value \in Int
            /\ candidate.behavioral.value \in Int
        BY <1>7, <3>1, RecordTyped DEF Dim
      <4> QED
        BY <1>4, <3>2, <4>1 DEF Above
    <3>4. ASSUME NEW name \in DOMAIN h[i].dims, ExactIn(longer, name, i, j)
          PROVE  h[i].dims[name].value <= candidate.dims[name].value
      <4>1. \A k \in i..n : k \in i..j /\ longer[k] = h[k]
        BY <1>3, <1>7, <1>9
      <4>2. ExactIn(h, name, i, n)
        BY <3>4, <4>1 DEF ExactIn
      <4>3. name \in DOMAIN last.dims /\ name \in DOMAIN candidate.dims
        BY <1>4, <3>2 DEF Above
      <4>4. h[i].dims[name].value <= last.dims[name].value
        BY <3>1, <4>2 DEF Pair
      <4>5. n \in i..j /\ j \in i..j
        BY <1>7, <1>9, <2>3
      <4>6. last.dims[name].variance = 0 /\ candidate.dims[name].variance = 0
        BY <2>1, <3>1, <3>4, <4>5 DEF ExactIn
      <4>7. last.dims[name].value <= candidate.dims[name].value
        BY <1>4, <4>3, <4>6
      <4>8. /\ h[i].dims[name].value \in Int
            /\ last.dims[name].value \in Int
            /\ candidate.dims[name].value \in Int
        BY <1>7, <3>1, <3>4, <4>3, RecordTyped DEF Dim
      <4> QED
        BY <4>4, <4>7, <4>8
    <3> QED
      BY <1>7, <2>1, <3>3, <3>4 DEF Pair
  <2> QED
    BY <1>7, <2>2, <2>3
<1> QED
  BY <1>6, <1>8, <1>9

LEMMA AttemptKeeps ==
    ASSUME RunInv, NEW candidate \in Records, NEW schemaValid \in BOOLEAN,
           NEW tokens \in Costs, Attempt(candidate, schemaValid, tokens)
    PROVE  RunInv'
<1> DEFINE decision == Decide(Head0, candidate, schemaValid)
<1>1. heads \in Seq(Records) /\ heads # <<>> /\ Head0 \in Records
  BY DEF RunInv, RunTypeOK, Head0
<1>2. heads' = (IF decision = "ACCEPT" THEN Append(heads, candidate) ELSE heads)
  BY DEF Attempt
<1>3. RunTypeOK'
  <2>1. heads' \in Seq(Records) /\ heads' # <<>>
    <3>1. Append(heads, candidate) \in Seq(Records) /\ Append(heads, candidate) # <<>>
      BY <1>1
    <3> QED
      BY <1>1, <1>2, <3>1
  <2>2. attempts' \in Seq([tokens : Costs, outcome : {"accepted", "rejected"}])
    <3>1. [tokens |-> tokens, outcome |-> IF decision = "REJECT" THEN "rejected" ELSE "accepted"]
              \in [tokens : Costs, outcome : {"accepted", "rejected"}]
      OBVIOUS
    <3> QED
      BY <3>1 DEF RunInv, RunTypeOK, Attempt
  <2>3. revisions' \subseteq [baseline : Records, candidate : Records]
    BY <1>1 DEF RunInv, RunTypeOK, Attempt
  <2> QED
    BY <2>1, <2>2, <2>3 DEF RunInv, RunTypeOK, Attempt
<1>4. LineageClimbs'
  <2>1. CASE decision = "ACCEPT"
    <3>1. Accept(heads[Len(heads)], candidate) = "accepted"
      BY <2>1 DEF Decide, Head0
    <3>2. heads' = Append(heads, candidate)
      BY <1>2, <2>1
    <3>3. Climbs(heads)
      BY ClimbsIsLineage DEF RunInv
    <3>4. Climbs(Append(heads, candidate))
      BY <1>1, <3>1, <3>3, LongerClimbs
    <3>5. Climbs(heads')
      BY <3>2, <3>4
    <3> QED
      BY <3>5, ClimbsNext
  <2>2. CASE decision # "ACCEPT"
    <3>1. heads' = heads
      BY <1>2, <2>2
    <3> QED
      BY <3>1 DEF RunInv, LineageClimbs, Exact
  <2> QED
    BY <2>1, <2>2
<1> QED
  BY <1>3, <1>4 DEF RunInv

LEMMA RunInvariant == RunSpec => []RunInv
<1>1. RunInv /\ UNCHANGED run => RunInv'
  BY DEF RunInv, RunTypeOK, LineageClimbs, Exact, run
<1>2. RunInv /\ RunNext => RunInv'
  BY AskKeeps, AttemptKeeps DEF RunNext
<1> QED
  BY InitRun, <1>1, <1>2, PTL DEF RunSpec

(* For every set of score records, every budget and cost: the meter's log  *)
(* and the accepted lineage stay well formed over a refinement run of any  *)
(* length (cost.ts:24-26, decide.ts).                                      *)
THEOREM RunTyped == RunSpec => []RunTypeOK
  BY RunInvariant, PTL DEF RunInv

(* For every set of score records, significance level and budget, and      *)
(* however long the run: each accepted version has a behavioral value      *)
(* above every earlier one's on the same eval set, measures what they      *)
(* measured, and is not below them where both were measured exactly        *)
(* (accept.ts:17-23).                                                      *)
THEOREM RefinementClimbs == RunSpec => []LineageClimbs
  BY RunInvariant, PTL DEF RunInv
=============================================================================
