-------------------------- MODULE EvalBatch_proofs --------------------------
(***************************************************************************)
(* What `j-rig eval-batch' leaves behind, for any number of skills and of  *)
(* attempts in one output directory, whatever killed the earlier ones.     *)
(***************************************************************************)
EXTENDS EvalBatch, SequenceTheorems, TLAPS

BatchTypeOK ==
    /\ attempt \in Nat /\ functional \in BOOLEAN /\ failFast \in BOOLEAN /\ left \in BOOLEAN
    /\ entries \in Seq({"completed", "failed"}) /\ Len(entries) <= Skills
    /\ bundles \in [Skill -> Nat] /\ reports \in Nat /\ manifest \in Nat
    /\ process \in {"alive", "killed", "0", "1"}

\* A skill counts as completed on account of a bundle, and of one that this
\* attempt wrote when the functional layer ran.
EntriesAreBacked ==
    \A k \in DOMAIN entries : entries[k] = "completed" =>
        bundles[k] # 0 /\ (functional => bundles[k] = attempt)

\* The loop is only left early over a failed entry.
LeftOverFailure == process = "alive" /\ left => ~AllCompleted

WrittenInOrder == manifest <= reports /\ reports <= attempt

SuccessIsWhole ==
    attempt > 0 /\ process = "0" =>
        manifest = attempt /\ AllCompleted /\ Len(entries) = Skills

BatchInv ==
    /\ BatchTypeOK /\ (process = "alive" => attempt > 0)
    /\ EntriesAreBacked /\ LeftOverFailure /\ WrittenInOrder /\ SuccessIsWhole

(* The indices of the entries are skills, and the next one is the current. *)
LEMMA EntryIndices ==
    ASSUME BatchTypeOK
    PROVE  /\ Skills \in Nat \ {0} /\ Skill = 1..Skills
           /\ Len(entries) \in Nat /\ DOMAIN entries = 1..Len(entries)
           /\ DOMAIN entries \subseteq Skill /\ Current \notin DOMAIN entries
           /\ Current \in Skill <=> Len(entries) < Skills
<1>1. Skills \in Nat \ {0} /\ Skill = 1..Skills
  BY BatchAssumption DEF Skill
<1>2. Len(entries) \in Nat /\ DOMAIN entries = 1..Len(entries) /\ Len(entries) <= Skills
  BY LenProperties DEF BatchTypeOK
<1>3. Current = Len(entries) + 1
  BY DEF Current
<1> QED
  BY <1>1, <1>2, <1>3

(* One more entry, of a skill whose bundle is there if it is "completed".  *)
LEMMA EntryAdded ==
    ASSUME BatchInv, Current \in Skill, NEW status \in {"completed", "failed"},
           entries' = Append(entries, status), bundles' \in [Skill -> Nat],
           UNCHANGED <<attempt, functional>>,
           \A s \in Skill : s # Current => bundles'[s] = bundles[s],
           status = "completed" =>
               bundles'[Current] # 0 /\ (functional => bundles'[Current] = attempt)
    PROVE  /\ entries' \in Seq({"completed", "failed"}) /\ Len(entries') <= Skills
           /\ EntriesAreBacked'
           /\ status = "failed" => ~AllCompleted'
<1>1. /\ Skill = 1..Skills /\ Len(entries) \in Nat /\ DOMAIN entries = 1..Len(entries)
      /\ Len(entries) < Skills /\ Skills \in Nat /\ DOMAIN entries \subseteq Skill
      /\ Current \notin DOMAIN entries /\ Current = Len(entries) + 1
  BY EntryIndices DEF BatchInv, Current
<1>2. /\ entries' \in Seq({"completed", "failed"}) /\ Len(entries') = Len(entries) + 1
      /\ entries'[Len(entries) + 1] = status
      /\ \A k \in 1..Len(entries) : entries'[k] = entries[k]
  BY AppendProperties DEF BatchInv, BatchTypeOK
<1>3. DOMAIN entries' = 1..(Len(entries) + 1)
  BY <1>2, LenProperties
<1>4. DOMAIN entries' = DOMAIN entries \cup {Current}
  BY <1>1, <1>3
<1>5. ASSUME NEW k \in DOMAIN entries', entries'[k] = "completed"
      PROVE  bundles'[k] # 0 /\ (functional => bundles'[k] = attempt)
  <2>1. CASE k = Current
    BY <1>1, <1>2, <1>5, <2>1
  <2>2. CASE k # Current
    BY <1>1, <1>2, <1>4, <1>5, <2>2 DEF BatchInv, EntriesAreBacked
  <2> QED
    BY <2>1, <2>2
<1>6. EntriesAreBacked'
  BY <1>5 DEF EntriesAreBacked
<1>7. status = "failed" => ~AllCompleted'
  BY <1>1, <1>2, <1>4 DEF AllCompleted
<1> QED
  BY <1>1, <1>2, <1>6, <1>7

(* What a child can have done to the bundle files.                         *)
LEMMA ChildWrote ==
    ASSUME BatchInv, Current \in Skill, NEW code \in ChildExit, NEW wrote \in BOOLEAN,
           RunChild(code, wrote)
    PROVE  /\ bundles' \in [Skill -> Nat]
           /\ \A s \in Skill : s # Current => bundles'[s] = bundles[s]
           /\ code = "0" /\ functional => bundles'[Current] = attempt
<1>1. bundles' = IF wrote THEN [bundles EXCEPT ![Current] = attempt] ELSE bundles
  BY DEF RunChild
<1>2. code = "0" /\ functional => wrote
  BY DEF RunChild, ChildMay
<1>3. bundles \in [Skill -> Nat] /\ attempt \in Nat
  BY DEF BatchInv, BatchTypeOK
<1>4. CASE wrote
  BY <1>1, <1>3, <1>4
<1>5. CASE ~wrote
  BY <1>1, <1>2, <1>3, <1>5
<1> QED
  BY <1>4, <1>5

(* No step leaves an entry without its bundle or a manifest without its    *)
(* reports, and exit code 0 is only given to a whole batch.                *)
LEMMA BatchStep ==
    ASSUME BatchInv, [Next]_vars
    PROVE  BatchInv'
<1> USE DEF BatchInv, BatchTypeOK
<1>1. CASE Start
  <2>1. entries' \in Seq({"completed", "failed"}) /\ Len(entries') = 0
    BY <1>1, EmptySeq DEF Start
  <2>2. attempt' > 0 /\ attempt' \in Nat /\ attempt' = attempt + 1
    BY <1>1 DEF Start
  <2>3. EntriesAreBacked'
    BY <1>1 DEF Start, EntriesAreBacked
  <2>4. /\ left' = FALSE /\ functional' \in BOOLEAN /\ failFast' \in BOOLEAN
        /\ process' = "alive" /\ UNCHANGED <<bundles, reports, manifest>>
    BY <1>1 DEF Start, disk
  <2>5. BatchTypeOK'
    <3>1. Len(entries') <= Skills
      BY <2>1, BatchAssumption
    <3>2. /\ bundles' \in [Skill -> Nat] /\ reports' \in Nat /\ manifest' \in Nat
          /\ left' \in BOOLEAN /\ process' \in {"alive", "killed", "0", "1"}
      BY <2>4
    <3> QED
      BY <2>1, <2>2, <2>4, <3>1, <3>2, Zenon DEF BatchTypeOK
  <2>6. LeftOverFailure' /\ WrittenInOrder' /\ SuccessIsWhole'
    BY <2>2, <2>4 DEF LeftOverFailure, WrittenInOrder, SuccessIsWhole
  <2> QED
    BY <2>2, <2>3, <2>4, <2>5, <2>6
<1>2. CASE EvalSkill
  <2>1. PICK code \in ChildExit, wrote \in BOOLEAN :
            RunChild(code, wrote) /\ entries' = Append(entries, EntryStatus(code, bundles'[Current]))
    BY <1>2 DEF EvalSkill
  <2>2. /\ Current \in Skill /\ ~left /\ process = "alive"
        /\ UNCHANGED <<attempt, functional, failFast, left, reports, manifest, process>>
    BY <1>2 DEF EvalSkill, InLoop
  <2> DEFINE status == EntryStatus(code, bundles'[Current])
  <2>3. /\ status \in {"completed", "failed"}
        /\ status = "completed" => code = "0" /\ bundles'[Current] # 0
    BY DEF EntryStatus
  <2>4. /\ bundles' \in [Skill -> Nat]
        /\ \A s \in Skill : s # Current => bundles'[s] = bundles[s]
        /\ code = "0" /\ functional => bundles'[Current] = attempt
    BY <2>1, <2>2, ChildWrote
  <2> HIDE DEF status
  <2>5. entries' = Append(entries, status)
    BY <2>1 DEF status
  <2>6. /\ entries' \in Seq({"completed", "failed"}) /\ Len(entries') <= Skills
        /\ EntriesAreBacked'
    BY <2>2, <2>3, <2>4, <2>5, EntryAdded
  <2> QED
    BY <2>2, <2>4, <2>6 DEF LeftOverFailure, WrittenInOrder, SuccessIsWhole
<1>3. CASE SkillThrows
  <2>1. /\ Current \in Skill /\ process = "alive" /\ entries' = Append(entries, "failed")
        /\ left' = failFast
        /\ UNCHANGED <<attempt, functional, failFast, reports, manifest, process>>
        /\ bundles' = bundles \/ \E code \in ChildExit, wrote \in BOOLEAN : RunChild(code, wrote)
    BY <1>3 DEF SkillThrows, InLoop
  <2>2. /\ bundles' \in [Skill -> Nat]
        /\ \A s \in Skill : s # Current => bundles'[s] = bundles[s]
    BY <2>1, ChildWrote
  <2>3. /\ entries' \in Seq({"completed", "failed"}) /\ Len(entries') <= Skills
        /\ EntriesAreBacked' /\ ~AllCompleted'
    BY <2>1, <2>2, EntryAdded
  <2> QED
    BY <2>1, <2>2, <2>3 DEF LeftOverFailure, WrittenInOrder, SuccessIsWhole
<1>4. CASE WriteReports
  <2>1. UNCHANGED <<entries, bundles, functional, attempt>>
    BY <1>4 DEF WriteReports
  <2> QED
    BY <1>4, <2>1 DEF WriteReports, LoopDone, EntriesAreBacked, LeftOverFailure, WrittenInOrder,
                      SuccessIsWhole, AllCompleted
<1>5. CASE WriteManifest
  <2>1. /\ UNCHANGED <<attempt, functional, failFast, entries, left, bundles, reports>>
        /\ process' = IF AllCompleted THEN "0" ELSE "1"
        /\ manifest' = attempt /\ reports = attempt /\ process = "alive"
        /\ left \/ Current \notin Skill
    BY <1>5 DEF WriteManifest, LoopDone
  <2>2. AllCompleted' = AllCompleted /\ EntriesAreBacked'
    BY <2>1 DEF AllCompleted, EntriesAreBacked
  <2>3. AllCompleted => Len(entries) = Skills
    BY <2>1, EntryIndices DEF LeftOverFailure
  <2> QED
    BY <2>1, <2>2, <2>3 DEF LeftOverFailure, WrittenInOrder, SuccessIsWhole
<1>6. CASE Interrupt \/ Over \/ UNCHANGED vars
  BY <1>6 DEF Interrupt, Over, vars, disk, EntriesAreBacked, LeftOverFailure, WrittenInOrder,
              SuccessIsWhole, AllCompleted
<1> QED
  BY <1>1, <1>2, <1>3, <1>4, <1>5, <1>6 DEF Next

(* The batch invariant holds from the first attempt on.                    *)
THEOREM BatchInvariant == Spec => []BatchInv
<1>1. Init => BatchInv
  <2> SUFFICES ASSUME Init PROVE BatchInv
    OBVIOUS
  <2>1. entries \in Seq({"completed", "failed"}) /\ Len(entries) = 0
    BY EmptySeq DEF Init
  <2>2. EntriesAreBacked
    BY DEF Init, EntriesAreBacked
  <2>3. /\ attempt = 0 /\ process = "0" /\ reports = 0 /\ manifest = 0
        /\ functional = TRUE /\ failFast = FALSE /\ left = TRUE
        /\ bundles \in [Skill -> Nat] /\ Skills \in Nat
    BY BatchAssumption DEF Init
  <2>4. BatchTypeOK
    <3>1. Len(entries) <= Skills /\ {attempt, reports, manifest} \subseteq Nat
      BY <2>1, <2>3
    <3>2. {functional, failFast, left} \subseteq BOOLEAN /\ process \in {"alive", "killed", "0", "1"}
      BY <2>3
    <3> QED
      BY <2>1, <2>3, <3>1, <3>2, Zenon DEF BatchTypeOK
  <2>5. LeftOverFailure /\ WrittenInOrder /\ SuccessIsWhole /\ process # "alive"
    BY <2>3 DEF LeftOverFailure, WrittenInOrder, SuccessIsWhole
  <2> QED
    BY <2>2, <2>4, <2>5 DEF BatchInv
<1> QED
  BY <1>1, BatchStep, PTL DEF Spec

(* Exit code 0 promises the whole batch: this attempt's manifest, and each *)
(* skill completed with a bundle, of this attempt if the functional layer  *)
(* ran, however many earlier attempts died in the same directory.          *)
THEOREM SuccessIsComplete == Spec => []SuccessCoversEverySkill
<1>1. BatchInv => SuccessCoversEverySkill
  <2> SUFFICES ASSUME BatchInv, attempt > 0, process = "0"
               PROVE  /\ manifest = attempt /\ Len(entries) = Skills /\ AllCompleted
                      /\ \A s \in Skill : bundles[s] # 0 /\ (functional => bundles[s] = attempt)
    BY DEF SuccessCoversEverySkill
  <2>1. manifest = attempt /\ Len(entries) = Skills /\ AllCompleted
    BY DEF BatchInv, SuccessIsWhole
  <2>2. DOMAIN entries = Skill
    BY <2>1, EntryIndices DEF BatchInv
  <2> QED
    BY <2>1, <2>2 DEF BatchInv, EntriesAreBacked, AllCompleted
<1> QED
  BY <1>1, BatchInvariant, PTL

(* The manifest is never newer than the reports it lists.                  *)
THEOREM ManifestComesLast == Spec => []ReportsBeforeManifest
<1>1. BatchInv => ReportsBeforeManifest
  BY DEF BatchInv, WrittenInOrder, ReportsBeforeManifest
<1> QED
  BY <1>1, BatchInvariant, PTL
=============================================================================
