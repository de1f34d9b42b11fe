--------------------------- MODULE Emission_proofs ---------------------------
(***************************************************************************)
(* What leaves the repository is what was measured, for every roster,      *)
(* every gate policy and every number of nights and invocations.           *)
(***************************************************************************)
EXTENDS MCEmission, TLAPS

-----------------------------------------------------------------------------
(* The command and its consumer.                                           *)

Rows == [valid : BOOLEAN, gate : Gates, decision : Raw \cup {"absent"},
         provider : {"absent", "real", "stub"}, grounded : {"absent", "yes", "no"}]

\* An invocation holds no output before it has an exit code, and prints what it
\* composed; an envelope it prints over the artifact that was hashed.
CommandInv ==
    /\ call \in GateCall \cup RefinerCall \cup {NoCall}
    /\ call = NoCall => exit = "running" /\ composed = NoOutput
    /\ exit = "running" => printed = NoOutput
    /\ composed # NoOutput => composed \in [statement : Rows, nonVerdict : BOOLEAN]
    /\ printed.form \in {"statement", "envelope"} => composed # NoOutput
    /\ SignedIsBound

\* The decision is the gate's on the bundle as it is.
BundleInv ==
    /\ rows \in Seq(Rows)
    /\ decision = DecideRelease(TRUE, rows, policy)

(* Every required field there, a statement is well formed.                 *)
LEMMA ComposedIsTyped ==
    ASSUME NEW c \in GateCall
    PROVE  Composed(c) \in [statement : Rows, nonVerdict : BOOLEAN]
  BY DEF Composed, Statement, ResolveDecision, Rows, GateCall, Raw

LEMMA FormsDiffer == NoOutput.form = "none" /\ NoCall.command = "none"
  BY DEF NoOutput, NoCall

LEMMA CommandStarts == EmitInit => CommandInv /\ BundleInv
  BY FormsDiffer DEF EmitInit, CommandInv, BundleInv, SignedIsBound

(* The invocation: from its arguments to its exit code.                    *)
LEMMA ExitKeeps ==
    ASSUME CommandInv, NEW code \in {"1", "2", "3"}, Running, ExitWith(code)
    PROVE  CommandInv'
  BY FormsDiffer DEF ExitWith, Running, CommandInv, SignedIsBound

LEMMA WriteKeeps ==
    ASSUME CommandInv, NEW form \in {"statement", "body", "envelope"}, Running, Write(form),
           composed # NoOutput, form = "envelope" => call.artifact = "hashed-file"
    PROVE  CommandInv'
<1>1. CASE ExitWith("1")
  BY <1>1, ExitKeeps
<1>2. CASE /\ printed' = [form |-> form, content |-> composed]
           /\ exit' = "0" /\ UNCHANGED <<calls, call, composed, gateVars>>
  <2>1. printed'.form = form /\ printed'.content = composed'
    BY <1>2
  <2> QED
    BY <1>2, <2>1 DEF CommandInv, SignedIsBound, Running
<1> QED
  BY <1>1, <1>2 DEF Write

LEMMA CommandKept ==
    ASSUME CommandInv, Invoke \/ Compose \/ EmitPlain \/ SignAndEmit \/ EmitRefinerPass
    PROVE  CommandInv' /\ UNCHANGED gateVars
<1>1. CASE Invoke
  BY <1>1, FormsDiffer DEF Invoke, CommandInv, SignedIsBound
<1>2. CASE Compose
  <2>1. CASE Composes(call)
    <3>1. call \in GateCall
      BY <1>2 DEF Compose, CommandInv, RefinerCall, Running
    <3>2. composed' \in [statement : Rows, nonVerdict : BOOLEAN]
      BY <1>2, <2>1, <3>1, ComposedIsTyped DEF Compose
    <3> QED
      BY <1>2, <2>1, <3>2, FormsDiffer DEF Compose, Running, CommandInv, SignedIsBound
  <2>2. CASE ~Composes(call)
    BY <1>2, <2>2, ExitKeeps DEF Compose, ExitWith
  <2> QED
    BY <2>1, <2>2
<1>3. CASE EmitPlain
  BY <1>3, WriteKeeps DEF EmitPlain, Write, ExitWith
<1>4. CASE SignAndEmit
  <2>1. CASE Refuses(call)
    BY <1>4, <2>1, ExitKeeps DEF SignAndEmit, Running, ExitWith
  <2>2. CASE ~Refuses(call)
    BY <1>4, <2>2, ExitKeeps, WriteKeeps DEF SignAndEmit, Refuses, Running, ExitWith, Write
  <2> QED
    BY <2>1, <2>2
<1>5. CASE EmitRefinerPass
  <2>1. CASE ExitWith("1") \/ ExitWith("2")
    BY <1>5, <2>1, ExitKeeps DEF EmitRefinerPass, ExitWith
  <2>2. CASE /\ printed' \in {[form |-> form, content |-> composed] :
                                 form \in {"refiner-statement", "body"}}
             /\ exit' = "0" /\ UNCHANGED <<calls, call, composed, gateVars>>
    <3>1. printed'.form \in {"refiner-statement", "body"} /\ printed'.content = composed'
      BY <2>2
    <3> QED
      BY <1>5, <2>2, <3>1 DEF EmitRefinerPass, CommandInv, SignedIsBound, Running
  <2> QED
    BY <1>5, <2>1, <2>2 DEF EmitRefinerPass
<1> QED
  BY <1>1, <1>2, <1>3, <1>4, <1>5

-----------------------------------------------------------------------------
(* Fail closed: a row more lifts no block of a bundle that has rows and    *)
(* misses no required gate.                                                *)
LEMMA RowMoreDoesNotUnblock ==
    ASSUME NEW bundle \in Seq(Rows), NEW row \in Rows, NEW aim,
           DecideRelease(TRUE, bundle, aim) = "block",
           DecideRelease(TRUE, Append(bundle, row), aim) = "allow"
    PROVE  bundle = <<>> \/ \E pattern \in aim.required : MatchedBy(bundle, pattern) = {}
<1> SUFFICES ASSUME bundle # <<>>, \A pattern \in aim.required : MatchedBy(bundle, pattern) # {}
             PROVE  FALSE
  OBVIOUS
<1> DEFINE more == Append(bundle, row)
<1>1. /\ DOMAIN bundle \subseteq DOMAIN more
      /\ \A i \in DOMAIN bundle : more[i] = bundle[i]
  OBVIOUS
<1> HIDE DEF more
<1>2. /\ aim.valid
      /\ \A i \in DOMAIN more : ~RowBlocks(more[i], aim)
      /\ \A pattern \in aim.required : RequiredStatus(more, pattern) = "pass"
  BY DEF DecideRelease, more
<1>3. \A i \in DOMAIN bundle : ~RowBlocks(bundle[i], aim)
  BY <1>1, <1>2
<1>4. ASSUME NEW pattern \in aim.required PROVE RequiredStatus(bundle, pattern) = "pass"
  <2>1. MatchedBy(bundle, pattern) \subseteq MatchedBy(more, pattern)
    BY <1>1 DEF MatchedBy
  <2>2. \A i \in MatchedBy(more, pattern) : more[i].decision = "pass"
    BY <1>2 DEF RequiredStatus
  <2>3. \A i \in MatchedBy(bundle, pattern) : bundle[i].decision = "pass"
    BY <1>1, <2>1, <2>2 DEF MatchedBy
  <2> QED
    BY <2>3 DEF RequiredStatus
<1> QED
  BY <1>2, <1>3, <1>4 DEF DecideRelease

\* A bundle that grows by a row, or does not, and is decided again.
LEMMA BundleGrows ==
    ASSUME BundleInv, NEW row \in Rows, rows' = Append(rows, row) \/ rows' = rows,
           decision' = DecideRelease(TRUE, rows', policy), UNCHANGED policy
    PROVE  /\ BundleInv'
           /\ decision = "block" /\ decision' = "allow" =>
                 rows = <<>> \/ \E pattern \in policy.required : MatchedBy(rows, pattern) = {}
<1>1. rows' \in Seq(Rows)
  BY DEF BundleInv
<1>2. BundleInv'
  BY <1>1 DEF BundleInv
<1>3. CASE rows' = rows
  BY <1>2, <1>3 DEF BundleInv
<1>4. CASE rows' = Append(rows, row)
  BY <1>2, <1>4, RowMoreDoesNotUnblock DEF BundleInv
<1> QED
  BY <1>2, <1>3, <1>4

\* What a step of the job may do to the decision.
Unblocks ==
    decision = "block" /\ decision' = "allow" =>
        rows = <<>> \/ \E pattern \in policy.required : MatchedBy(rows, pattern) = {}

LEMMA Collected ==
    ASSUME CommandInv, BundleInv, Collect PROVE CommandInv' /\ BundleInv' /\ Unblocks
<1>1. CommandInv'
  BY FormsDiffer DEF Collect, CommandInv, SignedIsBound
<1>2. CASE rows' = rows
  <2>1. InvalidRow(call.gate) \in Rows
    BY DEF InvalidRow, Rows, Collect, CommandInv, GateCall, RefinerCall
  <2> QED
    BY <1>1, <1>2, <2>1, BundleGrows DEF Collect, Unblocks
<1>3. CASE rows' = Append(rows, RowPrinted)
  <2>1. RowPrinted \in Rows
    BY DEF RowPrinted, InvalidRow, Rows, Collect, CommandInv, GateCall, RefinerCall
  <2> QED
    BY <1>1, <1>3, <2>1, BundleGrows DEF Collect, Unblocks
<1> QED
  BY <1>2, <1>3 DEF Collect

LEMMA ForeignCollected ==
    ASSUME CommandInv, BundleInv, CollectForeign PROVE CommandInv' /\ BundleInv' /\ Unblocks
<1>1. CommandInv'
  BY DEF CollectForeign, CommandInv, SignedIsBound
<1>2. PICK row \in ForeignRows : rows' = Append(rows, row)
  BY DEF CollectForeign
<1>3. row \in Rows
  <2>1. ASSUME NEW gate \in Gates, row = InvalidRow(gate) PROVE row \in Rows
    BY <2>1 DEF InvalidRow, Rows
  <2>2. ASSUME NEW gate \in Gates, NEW verdict \in {"pass", "error"},
               NEW origin \in {<<"real", "yes">>, <<"stub", "no">>},
               row = Statement(gate, verdict, origin[1], origin[2])
        PROVE  row \in Rows
    <3>1. origin[1] \in {"real", "stub"} /\ origin[2] \in {"yes", "no"}
      OBVIOUS
    <3> QED
      BY <2>2, <3>1 DEF Statement, Rows, Raw
  <2> QED
    BY <2>1, <2>2 DEF ForeignRows
<1> QED
  BY <1>1, <1>2, <1>3, BundleGrows DEF CollectForeign, Unblocks

LEMMA EmitKept ==
    ASSUME CommandInv, BundleInv, EmitNext PROVE CommandInv' /\ BundleInv' /\ Unblocks
<1>1. ASSUME UNCHANGED gateVars PROVE BundleInv' /\ Unblocks
  BY <1>1 DEF gateVars, BundleInv, Unblocks
<1>2. CASE Invoke \/ Compose \/ EmitPlain \/ SignAndEmit \/ EmitRefinerPass
  BY <1>1, <1>2, CommandKept
<1> QED
  BY <1>2, Collected, ForeignCollected DEF EmitNext

-----------------------------------------------------------------------------
(* The nightly job.  Up to the roster's end the summary is what the        *)
(* children of this job left; from there on the rows staged are its        *)
(* outcomes; and what was published is what some finished job staged.      *)

Steps == {"roster", "emit", "sign", "assemble", "download", "flap",
          "clobber", "publish", "clobber_sidecar", "publish_sidecar"}

\* The rows a manifest may have, given how the children ended.
Earned(measured, ended) ==
    /\ DOMAIN measured = DOMAIN ended
    /\ \E s \in DOMAIN ended : ended[s].exit = 0
    /\ \A s \in DOMAIN ended :
          /\ measured[s].decision = "pass" <=> Passed(ended[s])
          /\ measured[s].decision = "error" <=> ended[s].exit # 0
          /\ measured[s].class # "none" => ended[s].exit = 2 /\ Errored(ended[s])
          /\ ended[s].exit = 0 => ~ended[s].stub

JobInv ==
    /\ job \in Steps \cup {"none"} /\ roster \subseteq Skills
    /\ DOMAIN summary = DOMAIN ran /\ DOMAIN ran \subseteq roster
    /\ job = "none" => DOMAIN ran = {}
    /\ \A s \in DOMAIN ran : ran[s] \in Children /\ summary[s] = RosterRow(ran[s])
    /\ job \in Steps \ {"roster"} =>
          DOMAIN ran = roster /\ \E s \in roster : summary[s].status # "error"
    /\ job \in Steps \ {"roster", "emit"} => Earned(staged, ran)

PublishedInv == manifest # NoManifest => Earned(manifest.rows, behind)

LEMMA NightStarts == NightlyInit => JobInv /\ PublishedInv
  BY DEF NightlyInit, JobInv, PublishedInv, Nothing, Steps

(* The worst decision of a bundle of verdicts is a pass only if all pass.  *)
LEMMA WorstDecision ==
    ASSUME NEW ds \in Seq({"pass", "fail", "advisory"}), ds # <<>>
    PROVE  /\ AggregateDecision(ds) # "error"
           /\ AggregateDecision(ds) = "pass" <=> \A i \in DOMAIN ds : ds[i] = "pass"
<1>1. \A i \in DOMAIN ds : ds[i] \in {"pass", "fail", "advisory"}
  OBVIOUS
<1>2. 1 \in DOMAIN ds
  OBVIOUS
<1> QED
  BY <1>1, <1>2 DEF AggregateDecision, InSeq

(* One outcome, from the end of the child to the row that is staged.       *)
LEMMA OutcomeIsEarned ==
    ASSUME NEW child \in Children, child.exit = 0 => ~child.stub
    PROVE  LET row == OutcomeOf(RosterRow(child))
           IN /\ row.decision = "pass" <=> Passed(child)
              /\ row.decision = "error" <=> child.exit # 0
              /\ row.class # "none" => child.exit = 2 /\ Errored(child)
<1>1. CASE child.exit = 0
  <2>1. child.decisions \in Seq({"pass", "fail", "advisory"}) /\ child.decisions # <<>>
    BY <1>1, ChildrenAssumption
  <2>2. RosterRow(child).status = "ok" /\ RosterRow(child).decisions = child.decisions
    BY <1>1 DEF RosterRow
  <2>3. /\ OutcomeOf(RosterRow(child)).decision = AggregateDecision(child.decisions)
        /\ OutcomeOf(RosterRow(child)).class = "none"
    BY <2>2 DEF OutcomeOf
  <2> QED
    BY <1>1, <2>1, <2>3, WorstDecision DEF Passed
<1>2. CASE child.exit # 0
  <2>1. RosterRow(child).status = "error" /\ RosterRow(child).reason = ErrorReason(child)
    BY <1>2 DEF RosterRow
  <2>2. /\ OutcomeOf(RosterRow(child)).decision = "error"
        /\ OutcomeOf(RosterRow(child)).class = ErrorReason(child)
    BY <2>1 DEF OutcomeOf
  <2> QED
    BY <1>2, <2>2 DEF Passed, ErrorReason
<1> QED
  BY <1>1, <1>2

\* What the summary keeps of a child.
LEMMA RosterRowOf ==
    ASSUME NEW child \in Children
    PROVE  /\ child.exit = 0 => RosterRow(child).status = "ok" /\ RosterRow(child).stub = child.stub
           /\ child.exit # 0 => RosterRow(child).status = "error"
  BY DEF RosterRow

LEMMA StagedIsEarned ==
    ASSUME JobInv, job = "emit", ~Launders, staged' = [s \in roster |-> OutcomeOf(summary[s])]
    PROVE  Earned(staged', ran)
<1>1. /\ DOMAIN ran = roster
      /\ \A s \in roster : ran[s] \in Children /\ summary[s] = RosterRow(ran[s])
      /\ \E s \in roster : summary[s].status # "error"
  BY DEF JobInv, Steps
<1>2. ASSUME NEW s \in roster PROVE ran[s].exit = 0 => ~ran[s].stub
  <2>1. ran[s].exit = 0 => summary[s].status = "ok" /\ summary[s].stub = ran[s].stub
    BY <1>1, RosterRowOf
  <2>2. ran[s].stub \in BOOLEAN
    BY <1>1, ChildrenAssumption
  <2> QED
    BY <2>1, <2>2 DEF Launders
<1>3. \E s \in roster : ran[s].exit = 0
  BY <1>1, RosterRowOf
<1>4. \A s \in roster : staged'[s] = OutcomeOf(RosterRow(ran[s]))
  BY <1>1
<1> QED
  BY <1>1, <1>2, <1>3, <1>4, OutcomeIsEarned DEF Earned

LEMMA JobEnds == ASSUME EndJob PROVE JobInv'
  BY DEF EndJob, JobInv, Nothing, Steps

(* Where only the release, the signatures or the flap report move, the     *)
(* rows stay what they are.                                                *)
LEMMA RowsStand ==
    ASSUME JobInv, UNCHANGED <<roster, summary, staged, ran>>, job' \in Steps,
           job' = job \/ job \in Steps \ {"roster", "emit"}, job' \in {"roster", "emit"} => job' = job
    PROVE  JobInv'
  BY DEF JobInv, Steps

LEMMA NightKept ==
    ASSUME JobInv, PublishedInv, NightlyNext
    PROVE  JobInv' /\ PublishedInv'
<1>1. ASSUME StartNight PROVE JobInv' /\ PublishedInv'
  <2>1. DOMAIN summary = {} /\ DOMAIN ran = {}
    BY <1>1 DEF StartNight, JobInv
  <2> QED
    BY <1>1, <2>1 DEF StartNight, JobInv, PublishedInv, release, history, Steps
<1>2. ASSUME NEW skill \in Skills, RunSkill(skill) PROVE JobInv' /\ PublishedInv'
  <2>1. PICK child \in Children :
            /\ summary' = Extend(summary, skill, RosterRow(child))
            /\ ran' = Extend(ran, skill, child)
    BY <1>2 DEF RunSkill
  <2>2. /\ DOMAIN summary' = DOMAIN summary \cup {skill} /\ DOMAIN ran' = DOMAIN ran \cup {skill}
        /\ summary'[skill] = RosterRow(child) /\ ran'[skill] = child
        /\ \A s \in DOMAIN summary : s # skill => summary'[s] = summary[s]
        /\ \A s \in DOMAIN ran : s # skill => ran'[s] = ran[s]
    <3>1. PICK row : row = RosterRow(child) /\ summary' = Extend(summary, skill, row)
      BY <2>1
    <3> QED
      BY <2>1, <3>1 DEF Extend
  <2> QED
    BY <1>2, <2>2 DEF RunSkill, JobInv, PublishedInv, release, Steps
<1>3. ASSUME Fail PROVE JobInv' /\ PublishedInv'
  BY <1>3, JobEnds DEF Fail, PublishedInv, release
<1>4. ASSUME FinishRoster PROVE JobInv' /\ PublishedInv'
  <2>1. CASE \A s \in roster : summary[s].status = "error"
    BY <1>3, <1>4, <2>1 DEF FinishRoster
  <2>2. CASE ~\A s \in roster : summary[s].status = "error"
    BY <1>4, <2>2 DEF FinishRoster, workspace, release, history, JobInv, PublishedInv, Steps
  <2> QED
    BY <2>1, <2>2
<1>5. ASSUME Emit PROVE JobInv' /\ PublishedInv'
  <2>1. CASE Launders
    BY <1>3, <1>5, <2>1 DEF Emit
  <2>2. CASE ~Launders
    <3>1. Earned(staged', ran)
      BY <1>5, <2>2, StagedIsEarned DEF Emit
    <3> QED
      BY <1>5, <2>2, <3>1 DEF Emit, release, history, JobInv, PublishedInv, Steps
  <2> QED
    BY <2>1, <2>2
<1>6. ASSUME NEW skill \in Skills, Sign(skill) PROVE JobInv' /\ PublishedInv'
  BY <1>6 DEF Sign, release, history, JobInv, PublishedInv
<1>7. ASSUME FinishSigning \/ (Assemble /\ ~Fail) \/ Download \/ ReportFlaps
             \/ DeleteManifest \/ DeleteSidecar
      PROVE  JobInv' /\ PublishedInv'
  <2>1. /\ UNCHANGED <<roster, summary, staged, ran, behind>>
        /\ job \in Steps \ {"roster", "emit"} /\ job' \in Steps \ {"roster", "emit"}
        /\ manifest' \in {manifest, NoManifest}
    BY <1>7 DEF FinishSigning, Assemble, Download, ReportFlaps, DeleteManifest, DeleteSidecar,
                workspace, release, history, Steps
  <2> QED
    BY <2>1, RowsStand DEF PublishedInv
<1>8. ASSUME Assemble PROVE JobInv' /\ PublishedInv'
  BY <1>3, <1>7, <1>8
<1>9. ASSUME PublishManifest PROVE JobInv' /\ PublishedInv'
  <2>1. Earned(staged, ran)
    BY <1>9 DEF PublishManifest, JobInv, Steps
  <2>2. JobInv'
    BY <1>9, RowsStand DEF PublishManifest, workspace, Steps
  <2>3. manifest'.rows = staged /\ behind' = ran
    BY <1>9 DEF PublishManifest, Assembled
  <2> QED
    BY <2>1, <2>2, <2>3 DEF PublishedInv
<1>10. ASSUME PublishSidecar PROVE JobInv' /\ PublishedInv'
  BY <1>10, JobEnds DEF PublishSidecar, PublishedInv
<1>11. ASSUME Abort PROVE JobInv' /\ PublishedInv'
  BY <1>3, <1>11 DEF Abort
<1> QED
  BY <1>1, <1>2, <1>4, <1>5, <1>6, <1>7, <1>8, <1>9, <1>10, <1>11 DEF NightlyNext

-----------------------------------------------------------------------------
(* The flap report: while a job compares, the manifest it compared with is *)
(* the last one published, and the reports of earlier jobs carry an        *)
(* earlier night.                                                          *)

FlipsBetween(older, newer) ==
    {s \in Skills : /\ s \in DOMAIN older.rows /\ s \in DOMAIN newer.rows
                    /\ older.rows[s].decision # newer.rows[s].decision}

Agrees(report) ==
    report.compared => /\ archive[1] # NoManifest
                       /\ report.flipped = FlipsBetween(archive[1], archive[2])

FlapInv ==
    /\ night \in Nat /\ sidecar.night \in Nat /\ archive[2].night \in Nat
    /\ sidecar.night <= night /\ archive[2].night <= night
    /\ manifest \in {NoManifest, archive[2]}
    /\ job \in Steps => sidecar.night < night
    /\ job \in Steps \ {"clobber_sidecar", "publish_sidecar"} => archive[2].night < night
    /\ job \in {"flap", "clobber", "publish"} => previous \in {NoManifest, archive[2]}
    /\ job \in {"clobber", "publish"} => flap = BuildFlapReport
    /\ job \in {"clobber_sidecar", "publish_sidecar"} => flap.night = night /\ Agrees(flap)
    /\ sidecar.night = archive[2].night => Agrees(sidecar)

LEMMA NoneBefore == NoManifest.night = 0 /\ NoReport.night = 0 /\ ~NoReport.compared
  BY DEF NoManifest, NoReport

LEMMA FlapStarts == NightlyInit => FlapInv
  BY NoneBefore DEF NightlyInit, FlapInv, Agrees, Steps

LEMMA FlapKept ==
    ASSUME JobInv, FlapInv, NightlyNext
    PROVE  FlapInv'
<1>1. ASSUME StartNight PROVE FlapInv'
  BY <1>1 DEF StartNight, FlapInv, Agrees, release, history, Steps
<1>2. ASSUME EndJob, UNCHANGED <<night, release, archive>> PROVE FlapInv'
  BY <1>2 DEF EndJob, FlapInv, Agrees, release, Steps
<1>3. ASSUME UNCHANGED <<night, job, previous, flap, release, archive>>, job \in {"roster", "sign"}
      PROVE  FlapInv'
  BY <1>3 DEF FlapInv, Agrees, release
<1>4. ASSUME UNCHANGED <<night, previous, flap, release, archive>>,
             job \in {"roster", "emit", "sign", "assemble"},
             job' \in {"emit", "sign", "assemble", "download"}
      PROVE  FlapInv'
  BY <1>4 DEF FlapInv, Agrees, release, Steps
<1>5. ASSUME Download PROVE FlapInv'
  BY <1>5 DEF Download, FlapInv, Agrees, release, history, Steps
<1>6. ASSUME ReportFlaps PROVE FlapInv'
  BY <1>6 DEF ReportFlaps, BuildFlapReport, FlapInv, Agrees, release, history, Steps
<1>7. ASSUME DeleteManifest PROVE FlapInv'
  BY <1>7 DEF DeleteManifest, BuildFlapReport, FlapInv, Agrees, workspace, history, Steps
<1>8. ASSUME PublishManifest PROVE FlapInv'
  <2>1. /\ archive'[1] = archive[2] /\ archive'[2] = Assembled
        /\ Assembled.night = night /\ Assembled.rows = staged
    BY <1>8 DEF PublishManifest, Assembled
  <2>2. DOMAIN staged \subseteq Skills
    BY <1>8 DEF PublishManifest, JobInv, Earned, Steps
  <2>3. /\ flap.night = night
        /\ flap.compared => /\ archive[2] # NoManifest
                            /\ flap.flipped = Flipped(archive[2].rows, staged)
    <3>1. flap = BuildFlapReport /\ previous \in {NoManifest, archive[2]}
      BY <1>8 DEF PublishManifest, FlapInv
    <3>2. flap.night = night /\ flap.compared = (previous # NoManifest)
      BY <3>1 DEF BuildFlapReport
    <3>3. previous # NoManifest => flap.flipped = Flipped(previous.rows, staged)
      BY <3>1 DEF BuildFlapReport
    <3> QED
      BY <3>1, <3>2, <3>3
  <2>4. Flipped(archive[2].rows, staged) = FlipsBetween(archive[2], Assembled)
    BY <2>1, <2>2 DEF Flipped, FlipsBetween
  <2>5. Agrees(flap)' /\ flap' = flap /\ night' = night
    <3>1. FlipsBetween(archive[1], archive[2])' = FlipsBetween(archive[2], Assembled)
      BY <2>1 DEF FlipsBetween
    <3> QED
      BY <1>8, <2>1, <2>3, <2>4, <3>1 DEF PublishManifest, workspace, Agrees
  <2> QED
    BY <1>8, <2>1, <2>3, <2>5 DEF PublishManifest, FlapInv, Steps
<1>9. ASSUME DeleteSidecar PROVE FlapInv'
  BY <1>9, NoneBefore DEF DeleteSidecar, FlapInv, Agrees, workspace, history, Steps
<1>10. ASSUME PublishSidecar PROVE FlapInv'
  BY <1>10 DEF PublishSidecar, EndJob, FlapInv, Agrees, Steps
<1>11. ASSUME FinishRoster \/ Emit \/ Assemble \/ Abort PROVE FlapInv'
  BY <1>2, <1>4, <1>11 DEF FinishRoster, Emit, Assemble, Abort, Fail, workspace, release, history
<1>12. ASSUME FinishSigning PROVE FlapInv'
  BY <1>4, <1>12 DEF FinishSigning, workspace, release, history
<1>13. ASSUME NEW skill \in Skills, RunSkill(skill) \/ Sign(skill) PROVE FlapInv'
  BY <1>3, <1>13 DEF RunSkill, Sign, release, history
<1> QED
  BY <1>1, <1>5, <1>6, <1>7, <1>8, <1>9, <1>10, <1>11, <1>12, <1>13 DEF NightlyNext

-----------------------------------------------------------------------------
EvidenceInv == JobInv /\ PublishedInv /\ FlapInv /\ CommandInv /\ BundleInv

LEMMA EvidenceStarts == MCInit => EvidenceInv
  BY NightStarts, FlapStarts, CommandStarts DEF MCInit, EvidenceInv

LEMMA EvidenceKept ==
    EvidenceInv /\ [MCNext]_<<machine, nightly, emitVars>> => EvidenceInv' /\ [Unblocks]_emitVars
<1> SUFFICES ASSUME EvidenceInv, [MCNext]_<<machine, nightly, emitVars>>
             PROVE  EvidenceInv' /\ [Unblocks]_emitVars
  OBVIOUS
<1>1. ASSUME UNCHANGED emitVars PROVE CommandInv' /\ BundleInv'
  BY <1>1 DEF EvidenceInv, CommandInv, BundleInv, SignedIsBound, emitVars, gateVars
<1>2. ASSUME UNCHANGED nightly PROVE JobInv' /\ PublishedInv' /\ FlapInv'
  BY <1>2 DEF EvidenceInv, JobInv, PublishedInv, FlapInv, Agrees, BuildFlapReport,
              nightly, workspace, release, history
<1>3. CASE NightlyNext /\ UNCHANGED emitVars
  BY <1>1, <1>3, NightKept, FlapKept DEF EvidenceInv
<1>4. CASE EmitNext /\ UNCHANGED nightly
  BY <1>2, <1>4, EmitKept DEF EvidenceInv
<1>5. CASE UNCHANGED <<machine, nightly, emitVars>>
  BY <1>1, <1>2, <1>5 DEF EvidenceInv
<1> QED
  BY <1>3, <1>4, <1>5 DEF MCNext

(* Every published manifest has exactly the verdicts the children of its   *)
(* night earned, a comparable flap report names exactly the skills whose   *)
(* verdict changed, and a signed envelope is over the hashed artifact.     *)
THEOREM EvidenceStaysHonest == MCSpec => []EvidenceIsHonest
<1>1. EvidenceInv => EvidenceIsHonest
  <2> SUFFICES ASSUME EvidenceInv PROVE EvidenceIsHonest
    OBVIOUS
  <2>1. RowsAreEarned
    BY DEF EvidenceInv, PublishedInv, Earned, RowsAreEarned
  <2>2. FlipsAreReal
    BY DEF EvidenceInv, FlapInv, Agrees, FlipsBetween, FlipsAreReal
  <2> QED
    BY <2>1, <2>2 DEF EvidenceInv, CommandInv, EvidenceIsHonest
<1> QED
  BY <1>1, EvidenceStarts, EvidenceKept, PTL DEF MCSpec

(* The rollout gate fails closed under every policy: the only block a      *)
(* further row lifts is the one of an empty bundle or of a missing gate.   *)
THEOREM BlocksStand == MCSpec => AppendNeverUnblocks
<1>1. [Unblocks]_emitVars =>
        [decision = "block" /\ decision' = "allow" =>
            \/ rows = <<>>
            \/ \E pattern \in policy.required : MatchedBy(rows, pattern) = {}]_emitVars
  BY DEF Unblocks
<1> QED
  BY <1>1, EvidenceStarts, EvidenceKept, PTL DEF MCSpec, AppendNeverUnblocks
=============================================================================
