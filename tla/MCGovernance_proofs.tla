------------------------- MODULE MCGovernance_proofs -------------------------
(***************************************************************************)
(* What the vote of a criterion and the gate decision promise, for every   *)
(* number of judge samples.  The lemmas about the score card and the gate  *)
(* are stated for any judgment rows, blockers, sacred criteria, previous   *)
(* release and quorum.                                                     *)
(***************************************************************************)
EXTENDS MCGovernance, SequenceTheorems, FiniteSetTheorems, TLAPS

-----------------------------------------------------------------------------
(* Counting. *)

(* The size of a finite set is a number, and 0 for the empty set only.     *)
LEMMA SizeOf ==
    ASSUME NEW S, IsFiniteSet(S)
    PROVE  Cardinality(S) \in Nat /\ (Cardinality(S) = 0 <=> S = {})
                                  /\ (Cardinality(S) > 0 <=> S # {})
<1>1. Cardinality(S) \in Nat /\ (Cardinality(S) = 0 <=> S = {})
  BY FS_CardinalityType, FS_EmptySet
<1> QED
  BY <1>1

(* The positions of a sequence are finitely many.                          *)
LEMMA PositionsOf ==
    ASSUME NEW S, NEW s \in Seq(S)
    PROVE  /\ DOMAIN s = 1..Len(s) /\ Len(s) \in Nat
           /\ IsFiniteSet(DOMAIN s) /\ Cardinality(DOMAIN s) = Len(s)
<1>1. DOMAIN s = 1..Len(s) /\ Len(s) \in Nat
  BY LenProperties
<1>2. 1 \in Int /\ Len(s) \in Int
  BY <1>1
<1>3. IsFiniteSet(1..Len(s))
      /\ Cardinality(1..Len(s)) = IF 1 > Len(s) THEN 0 ELSE Len(s) - 1 + 1
  BY <1>2, FS_Interval
<1>4. Cardinality(1..Len(s)) = Len(s)
  BY <1>1, <1>3
<1> QED
  BY <1>1, <1>3, <1>4

(* How many samples gave an answer is a number.                            *)
LEMMA CountTyped ==
    ASSUME NEW p, IsFiniteSet(DOMAIN p), NEW v
    PROVE  /\ IsFiniteSet({i \in DOMAIN p : p[i] = v})
           /\ CountOf(p, v) \in Nat
<1>1. IsFiniteSet({i \in DOMAIN p : p[i] = v})
  BY FS_Subset
<1> QED
  BY <1>1, FS_CardinalityType DEF CountOf

LEMMA BallotsTyped ==
    ASSUME NEW p, IsFiniteSet(DOMAIN p)
    PROVE  /\ \A v : Ballots(p, v) \in Nat
           /\ Ballots(p, "no") = CountOf(p, "no") /\ Ballots(p, "yes") = CountOf(p, "yes")
           /\ Ballots(p, "unsure") = CountOf(p, "unsure") + CountOf(p, "error")
<1>1. \A v : CountOf(p, v) \in Nat
  BY CountTyped
<1>2. CountOf(p, "no") \in Nat /\ CountOf(p, "yes") \in Nat
  BY <1>1
<1> QED
  BY <1>1, <1>2 DEF Ballots

(* The top is a number of ballots some verdict has and none exceeds.       *)
LEMMA TopTyped ==
    ASSUME NEW p, IsFiniteSet(DOMAIN p)
    PROVE  /\ TopBallots(p) \in Nat
           /\ \A v \in Verdict : Ballots(p, v) <= TopBallots(p)
           /\ \E v \in Verdict : Ballots(p, v) = TopBallots(p)
<1> DEFINE B(v) == Ballots(p, v)
<1>1. \A v \in Verdict : B(v) \in Nat
  BY BallotsTyped
<1>2. \E w \in Verdict : \A v \in Verdict : B(v) <= B(w)
  <2> HIDE DEF B
  <2>1. B("yes") \in Nat /\ B("no") \in Nat /\ B("unsure") \in Nat
    BY <1>1 DEF Verdict
  <2> QED
    BY <2>1, SMT DEF Verdict
<1>3. \E n \in {B(v) : v \in Verdict} : \A v \in Verdict : B(v) <= n
  BY <1>2
<1>4. /\ TopBallots(p) \in {B(v) : v \in Verdict}
      /\ \A v \in Verdict : B(v) <= TopBallots(p)
  BY <1>3 DEF TopBallots
<1> QED
  BY <1>1, <1>4

(* "yes" and "no" win exactly with more ballots than each of the others.   *)
LEMMA MajorityIs ==
    ASSUME NEW p, IsFiniteSet(DOMAIN p)
    PROVE  LET yes == Ballots(p, "yes")
               no == Ballots(p, "no")
               unsure == Ballots(p, "unsure")
           IN  /\ MajorityVerdict(p) = "yes" <=> yes > no /\ yes > unsure
               /\ MajorityVerdict(p) = "no" <=> no > yes /\ no > unsure
               /\ MajorityVerdict(p) = "no" => TopBallots(p) = no
<1> DEFINE B(v) == Ballots(p, v)
           top == TopBallots(p)
           W == Winners(p)
<1>1. /\ B("yes") \in Nat /\ B("no") \in Nat /\ B("unsure") \in Nat /\ top \in Nat
      /\ B("yes") <= top /\ B("no") <= top /\ B("unsure") <= top
      /\ B("yes") = top \/ B("no") = top \/ B("unsure") = top
  BY BallotsTyped, TopTyped DEF Verdict
<1>2. /\ W \subseteq {"yes", "no", "unsure"}
      /\ "yes" \in W <=> B("yes") = top
      /\ "no" \in W <=> B("no") = top
      /\ "unsure" \in W <=> B("unsure") = top
  BY DEF Winners, Verdict
<1>3. Cardinality(W) = 1 <=> \E x : W = {x}
  <2>1. IsFiniteSet({"yes"} \cup {"no"} \cup {"unsure"})
    BY FS_Singleton, FS_AddElement
  <2>2. W \in SUBSET ({"yes"} \cup {"no"} \cup {"unsure"})
    BY <1>2
  <2>3. IsFiniteSet(W)
    BY <2>1, <2>2, FS_Subset
  <2> QED
    BY <2>3, FS_Singleton
<1>4. ASSUME NEW x \in Verdict, W = {x}
      PROVE  MajorityVerdict(p) = x
  BY <1>3, <1>4 DEF MajorityVerdict
<1>5. (\A x \in Verdict : W # {x}) => MajorityVerdict(p) = "unsure"
  <2>1. (\A x \in Verdict : W # {x}) => Cardinality(W) # 1
    BY <1>2, <1>3 DEF Verdict
  <2> QED
    BY <2>1 DEF MajorityVerdict
<1>6. /\ W = {"yes"} <=> B("yes") = top /\ B("no") # top /\ B("unsure") # top
      /\ W = {"no"} <=> B("no") = top /\ B("yes") # top /\ B("unsure") # top
  BY <1>2
<1>7. /\ MajorityVerdict(p) = "yes" <=> W = {"yes"}
      /\ MajorityVerdict(p) = "no" <=> W = {"no"}
  BY <1>4, <1>5 DEF Verdict
<1> HIDE DEF B, top, W
<1>8. /\ W = {"yes"} <=> B("yes") > B("no") /\ B("yes") > B("unsure")
      /\ W = {"no"} <=> B("no") > B("yes") /\ B("no") > B("unsure")
      /\ W = {"no"} => top = B("no")
  BY <1>1, <1>6
<1> QED
  BY <1>7, <1>8 DEF B, top

(* One sample that says "yes" instead of "no" moves one ballot.            *)
LEMMA BallotMoves ==
    ASSUME NEW p, IsFiniteSet(DOMAIN p), NEW i \in DOMAIN p, p[i] = "no",
           NEW q, q = [p EXCEPT ![i] = "yes"]
    PROVE  /\ DOMAIN q = DOMAIN p /\ IsFiniteSet(DOMAIN q)
           /\ Ballots(q, "yes") = Ballots(p, "yes") + 1
           /\ Ballots(q, "no") = Ballots(p, "no") - 1
           /\ Ballots(q, "unsure") = Ballots(p, "unsure")
<1>1. DOMAIN q = DOMAIN p /\ \A j \in DOMAIN p : q[j] = IF j = i THEN "yes" ELSE p[j]
  OBVIOUS
<1> DEFINE At(s, v) == {j \in DOMAIN s : s[j] = v}
<1>2. /\ At(q, "yes") = At(p, "yes") \cup {i} /\ i \notin At(p, "yes")
      /\ At(q, "no") = At(p, "no") \ {i} /\ i \in At(p, "no")
      /\ At(q, "unsure") = At(p, "unsure") /\ At(q, "error") = At(p, "error")
  BY <1>1
<1>3. IsFiniteSet(At(p, "yes")) /\ IsFiniteSet(At(p, "no"))
  BY CountTyped
<1>4. /\ Cardinality(At(q, "yes")) = Cardinality(At(p, "yes")) + 1
      /\ Cardinality(At(q, "no")) = Cardinality(At(p, "no")) - 1
  <2>1. Cardinality(At(p, "yes") \cup {i}) = Cardinality(At(p, "yes")) + 1
    BY <1>2, <1>3, FS_AddElement
  <2>2. Cardinality(At(p, "no") \ {i}) = Cardinality(At(p, "no")) - 1
    BY <1>2, <1>3, FS_RemoveElement
  <2> QED
    BY <1>2, <2>1, <2>2
<1>5. /\ CountOf(q, "yes") = CountOf(p, "yes") + 1 /\ CountOf(q, "no") = CountOf(p, "no") - 1
      /\ CountOf(q, "unsure") = CountOf(p, "unsure") /\ CountOf(q, "error") = CountOf(p, "error")
  BY <1>2, <1>4 DEF CountOf
<1> QED
  BY <1>1, <1>5, BallotsTyped

-----------------------------------------------------------------------------
(* The vote of one criterion. *)

(* The row of a criterion with several samples, one of them answered.      *)
LEMMA MajorityRow ==
    ASSUME NEW p, NEW c, NEW case, NEW i \in DOMAIN p, p[i] # "error", Len(p) # 1
    PROVE  LET row == FoldSamples(c, case, p)
           IN  /\ row.verdict = MajorityVerdict(p) /\ row.method = "judge"
               /\ row.samples = Len(p) /\ row.top = TopBallots(p)
  BY DEF FoldSamples, Judgment

(* A "no" that the quorum does not discard was cast by a quorum of all the *)
(* samples, the failed ones included, or it is the only sample.            *)
LEMMA StableNo ==
    ASSUME NEW p \in Seq(SampleResult), NEW c, NEW case, NEW num \in Nat, NEW den \in Nat,
           FoldSamples(c, case, p).verdict = "no",
           ~Unstable(FoldSamples(c, case, p), <<num, den>>)
    PROVE  Len(p) = 1 \/ CountOf(p, "no") * den >= num * Len(p)
<1>0. IsFiniteSet(DOMAIN p) /\ Len(p) \in Nat /\ DOMAIN p = 1..Len(p)
  BY PositionsOf
<1>1. ~(\A i \in DOMAIN p : p[i] = "error")
  BY DEF FoldSamples, JudgeError, Judgment
<1>2. Len(p) # 0
  BY <1>0, <1>1
<1>3. CASE Len(p) # 1
  <2> DEFINE row == Judgment(c, case, "judge", MajorityVerdict(p), Len(p), TopBallots(p), FALSE)
  <2>1. FoldSamples(c, case, p) = row
    BY <1>1, <1>3 DEF FoldSamples
  <2>2. MajorityVerdict(p) = "no"
    BY <2>1 DEF Judgment
  <2>3. TopBallots(p) = CountOf(p, "no") /\ CountOf(p, "no") \in Nat
    BY <1>0, <2>2, MajorityIs, BallotsTyped
  <2>4. ~(TopBallots(p) * den < num * Len(p))
    <3>1. ~Unstable(row, <<num, den>>)
      BY <2>1
    <3>2. row.method = "judge" /\ row.samples = Len(p) /\ row.top = TopBallots(p)
      BY DEF Judgment
    <3>3. Len(p) >= 2
      BY <1>0, <1>2, <1>3
    <3> HIDE DEF row
    <3> QED
      BY <3>1, <3>2, <3>3 DEF Unstable
  <2>5. CountOf(p, "no") * den \in Nat /\ num * Len(p) \in Nat
    BY <1>0, <2>3
  <2> QED
    BY <2>3, <2>4, <2>5
<1> QED
  BY <1>3

(* A sample that turns from "no" to "yes" keeps a "yes", makes no new "no", *)
(* and leaves a "no" that stays no more ballots than it had.               *)
LEMMA VoteImproves ==
    ASSUME NEW p \in Seq(SampleResult), NEW i \in DOMAIN p, p[i] = "no",
           NEW q, q = [p EXCEPT ![i] = "yes"], NEW c, NEW case
    PROVE  LET old == FoldSamples(c, case, p)
               new == FoldSamples(c, case, q)
           IN  /\ old.verdict = "yes" => new.verdict = "yes"
               /\ new.verdict = "no" => /\ old.verdict = "no" /\ new.samples = old.samples
                                        /\ old.samples \in Nat /\ {old.top, new.top} \subseteq Nat
                                        /\ new.top <= old.top
<1>0. IsFiniteSet(DOMAIN p) /\ Len(p) \in Nat /\ DOMAIN p = 1..Len(p)
  BY PositionsOf
<1>1. /\ DOMAIN q = DOMAIN p /\ IsFiniteSet(DOMAIN q) /\ Len(q) = Len(p)
      /\ q[i] = "yes"
      /\ Ballots(q, "yes") = Ballots(p, "yes") + 1
      /\ Ballots(q, "no") = Ballots(p, "no") - 1
      /\ Ballots(q, "unsure") = Ballots(p, "unsure")
  <2>1. q \in Seq(SampleResult) /\ Len(q) = Len(p)
    BY <1>0, ExceptSeq DEF SampleResult, Verdict
  <2> QED
    BY <1>0, <2>1, BallotMoves
<1>2. CASE Len(p) = 1
  <2>1. i = 1
    BY <1>0, <1>2
  <2>2. FoldSamples(c, case, p) = Judgment(c, case, "judge", "no", 1, 1, FALSE)
        /\ FoldSamples(c, case, q) = Judgment(c, case, "judge", "yes", 1, 1, FALSE)
    BY <1>1, <1>2, <2>1 DEF FoldSamples
  <2> QED
    BY <2>2 DEF Judgment
<1>3. CASE Len(p) # 1
  <2>1. /\ Ballots(p, "yes") \in Nat /\ Ballots(p, "no") \in Nat /\ Ballots(p, "unsure") \in Nat
        /\ TopBallots(p) \in Nat /\ TopBallots(q) \in Nat
    BY <1>0, <1>1, BallotsTyped, TopTyped
  <2> DEFINE Yes(s) == Ballots(s, "yes") > Ballots(s, "no")
                       /\ Ballots(s, "yes") > Ballots(s, "unsure")
             No(s) == Ballots(s, "no") > Ballots(s, "yes")
                      /\ Ballots(s, "no") > Ballots(s, "unsure")
  <2>2. /\ MajorityVerdict(p) = "yes" <=> Yes(p)
        /\ MajorityVerdict(p) = "no" <=> No(p)
        /\ MajorityVerdict(p) = "no" => TopBallots(p) = Ballots(p, "no")
    BY <1>0, MajorityIs
  <2>3. /\ MajorityVerdict(q) = "yes" <=> Yes(q)
        /\ MajorityVerdict(q) = "no" <=> No(q)
        /\ MajorityVerdict(q) = "no" => TopBallots(q) = Ballots(q, "no")
    BY <1>1, MajorityIs
  <2>4. (Yes(p) => Yes(q)) /\ (No(q) => No(p)) /\ Ballots(q, "no") <= Ballots(p, "no")
    BY <1>1, <2>1
  <2> HIDE DEF Yes, No
  <2>5. /\ MajorityVerdict(p) = "yes" => MajorityVerdict(q) = "yes"
        /\ MajorityVerdict(q) = "no" => MajorityVerdict(p) = "no"
        /\ MajorityVerdict(q) = "no" => TopBallots(q) <= TopBallots(p)
    BY <2>2, <2>3, <2>4
  <2> DEFINE old == FoldSamples(c, case, p)
             new == FoldSamples(c, case, q)
  <2>6. /\ old.verdict = MajorityVerdict(p) /\ old.samples = Len(p) /\ old.top = TopBallots(p)
        /\ new.verdict = MajorityVerdict(q) /\ new.samples = Len(p) /\ new.top = TopBallots(q)
    BY <1>1, <1>3, MajorityRow
  <2> HIDE DEF old, new
  <2>7. /\ old.verdict = "yes" => new.verdict = "yes"
        /\ new.verdict = "no" => /\ old.verdict = "no" /\ new.samples = old.samples
                                 /\ old.samples \in Nat /\ {old.top, new.top} \subseteq Nat
                                 /\ new.top <= old.top
    BY <1>0, <2>1, <2>5, <2>6
  <2> QED
    BY <2>7 DEF old, new
<1> QED
  BY <1>2, <1>3

-----------------------------------------------------------------------------
(* The score card and the gate, for any rows. *)

\* The blocker failures that the quorum does not discard.
Failing(now, blockers, threshold) ==
    {i \in DOMAIN now : /\ now[i].verdict = "no" /\ now[i].criterion \in blockers
                       /\ ~Unstable(now[i], threshold)}

\* What makes the gate say "fail".
Blocking(now, on, before, blockers, sacred, threshold) ==
    \/ Failing(now, blockers, threshold) # {}
    \/ on /\ SacredRegressions(before, now, sacred) # {}

AllYes(now) == \A i \in DOMAIN now : now[i].verdict = "yes"

(* What the numbers of the score card say about the rows.                  *)
LEMMA ScoreCounts ==
    ASSUME NEW S, NEW now \in Seq(S), NEW blockers, NEW k, NEW threshold
    PROVE  LET score == ComputeScoreCard(now, blockers, k, threshold)
           IN  /\ score.blockerFailures > 0 <=> Failing(now, blockers, threshold) # {}
               /\ score.blockerFailures = 0 <=> Failing(now, blockers, threshold) = {}
               /\ score.sacredRegressions = k
               /\ score.total = Len(now)
               /\ score.passed = score.total <=> AllYes(now)
               /\ AllYes(now) => /\ score.failed = 0 /\ ~(score.failed > 0)
                                /\ score.unsure = 0 /\ ~(score.unsure > 0)
<1> DEFINE Says(v) == {i \in DOMAIN now : now[i].verdict = v}
           failures == {i \in Says("no") : now[i].criterion \in blockers}
           unstable == {i \in failures : Unstable(now[i], threshold)}
           score == ComputeScoreCard(now, blockers, k, threshold)
<1>1. IsFiniteSet(DOMAIN now) /\ Cardinality(DOMAIN now) = Len(now) /\ Len(now) \in Nat
  BY PositionsOf
<1>2. failures \ unstable = Failing(now, blockers, threshold)
  BY DEF Failing
<1>3. /\ score.blockerFailures = Cardinality(failures \ unstable)
      /\ score.sacredRegressions = k /\ score.total = Len(now)
      /\ score.passed = Cardinality(Says("yes"))
      /\ score.failed = Cardinality(Says("no")) /\ score.unsure = Cardinality(Says("unsure"))
  BY DEF ComputeScoreCard
<1>4. \A v : IsFiniteSet(Says(v))
  BY <1>1, FS_Subset
<1>5. IsFiniteSet(Failing(now, blockers, threshold))
  BY <1>1, FS_Subset DEF Failing
<1>6. Cardinality(Says("yes")) = Len(now) <=> AllYes(now)
  <2>1. Says("yes") \in SUBSET DOMAIN now
    OBVIOUS
  <2>2. Cardinality(Says("yes")) = Cardinality(DOMAIN now) => Says("yes") = DOMAIN now
    BY <1>1, <2>1, FS_Subset
  <2>3. AllYes(now) <=> Says("yes") = DOMAIN now
    BY DEF AllYes
  <2> QED
    BY <1>1, <2>2, <2>3
<1>7. AllYes(now) => Says("no") = {} /\ Says("unsure") = {}
  BY DEF AllYes
<1> HIDE DEF Says, failures, unstable, score
<1>8. AllYes(now) => Cardinality(Says("no")) = 0 /\ Cardinality(Says("unsure")) = 0
  BY <1>7, FS_EmptySet
<1>9. /\ score.blockerFailures > 0 <=> Failing(now, blockers, threshold) # {}
      /\ score.blockerFailures = 0 <=> Failing(now, blockers, threshold) = {}
  BY <1>2, <1>3, <1>5, SizeOf
<1>10. /\ score.sacredRegressions = k /\ score.total = Len(now)
       /\ score.passed = score.total <=> AllYes(now)
       /\ AllYes(now) => /\ score.failed = 0 /\ ~(score.failed > 0)
                        /\ score.unsure = 0 /\ ~(score.unsure > 0)
  BY <1>3, <1>6, <1>8
<1> QED
  BY <1>9, <1>10 DEF score

(* When the gate says "fail", and when it says "pass".                     *)
LEMMA GateSays ==
    ASSUME NEW S, NEW now \in Seq(S), NEW bare, NEW on \in BOOLEAN, NEW before,
           NEW blockers, NEW sacred, NEW threshold
    PROVE  LET result == RunGate(now, bare, on, before, blockers, sacred, threshold)
           IN  /\ result \in GateResult
               /\ result = "fail" <=> Blocking(now, on, before, blockers, sacred, threshold)
               /\ result = "pass" <=> /\ ~Blocking(now, on, before, blockers, sacred, threshold)
                                     /\ ~IsObsoleteCandidate(now, bare)
                                     /\ on /\ Len(now) > 0 /\ AllYes(now)
<1> DEFINE regressions == IF on THEN Regressions(before, now) ELSE {}
           sacredOnes == IF on THEN SacredRegressions(before, now, sacred) ELSE {}
           score == ComputeScoreCard(now, blockers, Cardinality(sacredOnes), threshold)
           rollout == DecideRollout(score, IsObsoleteCandidate(now, bare))
           result == RunGate(now, bare, on, before, blockers, sacred, threshold)
           blocking == Blocking(now, on, before, blockers, sacred, threshold)
<1>1. result = GateDecision(score, rollout, on, Cardinality(regressions))
  BY DEF RunGate
<1>2. IsFiniteSet(DOMAIN now) /\ Len(now) \in Nat
  BY PositionsOf
<1>3. IsFiniteSet(regressions) /\ IsFiniteSet(sacredOnes)
  <2>1. Regressions(before, now) \subseteq DOMAIN now
    BY DEF Regressions
  <2>2. SacredRegressions(before, now, sacred) \subseteq DOMAIN now
    BY <2>1 DEF SacredRegressions
  <2> QED
    BY <1>2, <2>1, <2>2, FS_Subset, FS_EmptySet
<1>4. /\ score.blockerFailures > 0 <=> Failing(now, blockers, threshold) # {}
      /\ score.blockerFailures = 0 <=> Failing(now, blockers, threshold) = {}
      /\ score.sacredRegressions = Cardinality(sacredOnes)
      /\ score.total = Len(now)
      /\ score.passed = score.total <=> AllYes(now)
      /\ AllYes(now) => /\ score.failed = 0 /\ ~(score.failed > 0)
                       /\ score.unsure = 0 /\ ~(score.unsure > 0)
  BY ScoreCounts
<1>5. Cardinality(sacredOnes) > 0 <=> sacredOnes # {}
  BY <1>3, SizeOf
<1>6. AllYes(now) => regressions = {} /\ Cardinality(regressions) = 0
  <2>1. AllYes(now) => regressions = {}
    BY DEF AllYes, Regressions
  <2> QED
    BY <2>1, FS_EmptySet
<1>7. blocking <=> Failing(now, blockers, threshold) # {} \/ sacredOnes # {}
  BY DEF Blocking
<1> HIDE DEF regressions, sacredOnes, score
<1>8. rollout = "block" <=> score.blockerFailures > 0 \/ score.sacredRegressions > 0
  BY DEF DecideRollout
<1>9. result = "fail" <=> rollout = "block" \/ score.sacredRegressions > 0
  BY <1>1 DEF GateDecision
<1>10. result = "fail" <=> blocking
  BY <1>4, <1>5, <1>7, <1>8, <1>9
<1>11. result = "pass" => ~blocking /\ ~IsObsoleteCandidate(now, bare) /\ on /\ Len(now) > 0
                         /\ AllYes(now)
  <2> SUFFICES ASSUME result = "pass"
               PROVE  ~blocking /\ ~IsObsoleteCandidate(now, bare) /\ on /\ Len(now) > 0
                      /\ AllYes(now)
    OBVIOUS
  <2>1. ~blocking
    BY <1>10
  <2>2. rollout = "ship" /\ ThresholdPass(score) /\ on
    BY <1>1 DEF GateDecision
  <2>3. ~IsObsoleteCandidate(now, bare)
    BY <2>2 DEF DecideRollout
  <2> QED
    BY <1>4, <2>1, <2>2, <2>3 DEF ThresholdPass
<1>12. ~blocking /\ ~IsObsoleteCandidate(now, bare) /\ on /\ Len(now) > 0 /\ AllYes(now)
       => result = "pass"
  <2> SUFFICES ASSUME ~blocking, ~IsObsoleteCandidate(now, bare), on, Len(now) > 0, AllYes(now)
               PROVE  result = "pass"
    OBVIOUS
  <2>1. ~(score.blockerFailures > 0) /\ ~(score.sacredRegressions > 0)
    BY <1>4, <1>5, <1>7
  <2>2. rollout = "ship"
    BY <1>4, <2>1 DEF DecideRollout
  <2>3. ThresholdPass(score)
    BY <1>4, <1>7 DEF ThresholdPass
  <2> QED
    BY <1>1, <1>6, <2>1, <2>2, <2>3 DEF GateDecision
<1>13. result \in GateResult
  BY <1>1 DEF GateDecision, GateResult
<1> QED
  BY <1>10, <1>11, <1>12, <1>13

(* A blocking fact is a "fail".                                            *)
LEMMA BlockingFails ==
    ASSUME NEW S, NEW now \in Seq(S), NEW bare, NEW on \in BOOLEAN, NEW before,
           NEW blockers, NEW sacred, NEW threshold,
           Blocking(now, on, before, blockers, sacred, threshold)
    PROVE  RunGate(now, bare, on, before, blockers, sacred, threshold) = "fail"
  BY GateSays

(* A row is at least as good as an earlier one of the same criterion.      *)
NoWorse(old, new, threshold) ==
    /\ new.criterion = old.criterion
    /\ old.verdict = "yes" => new.verdict = "yes"
    /\ new.verdict = "no" => /\ old.verdict = "no"
                             /\ Unstable(old, threshold) => Unstable(new, threshold)

(* Rows that are all at least as good never get a worse decision: no layer *)
(* of the fold, neither blockers, quorum, regressions nor the comparison   *)
(* with the naked pass, turns an improvement against the skill.            *)
LEMMA BetterRowsBetterGate ==
    ASSUME NEW S, NEW now \in Seq(S), NEW next \in Seq(S), Len(next) = Len(now),
           NEW bare, NEW on \in BOOLEAN, NEW before, NEW blockers, NEW sacred, NEW threshold,
           \A i \in DOMAIN now : NoWorse(now[i], next[i], threshold)
    PROVE  LET old == RunGate(now, bare, on, before, blockers, sacred, threshold)
               new == RunGate(next, bare, on, before, blockers, sacred, threshold)
           IN  /\ old \in GateResult /\ new \in GateResult
               /\ new = "fail" => old = "fail"
               /\ old = "pass" => new = "pass"
<1>1. DOMAIN next = DOMAIN now
  BY LenProperties
<1>2. Failing(next, blockers, threshold) \subseteq Failing(now, blockers, threshold)
  BY <1>1 DEF Failing, NoWorse
<1>3. Regressions(before, next) \subseteq Regressions(before, now)
  BY <1>1 DEF Regressions, NoWorse
<1>4. SacredRegressions(before, next, sacred) \subseteq SacredRegressions(before, now, sacred)
  BY <1>1, <1>3 DEF SacredRegressions, Regressions, NoWorse
<1>5. Blocking(next, on, before, blockers, sacred, threshold)
      => Blocking(now, on, before, blockers, sacred, threshold)
  BY <1>2, <1>4 DEF Blocking
<1>6. AllYes(now) => AllYes(next)
  BY <1>1 DEF AllYes, NoWorse
<1>7. AllYes(now) => (IsObsoleteCandidate(next, bare) <=> IsObsoleteCandidate(now, bare))
  <2> SUFFICES ASSUME AllYes(now)
               PROVE  IsObsoleteCandidate(next, bare) <=> IsObsoleteCandidate(now, bare)
    OBVIOUS
  <2>1. Compared(next, bare) = Compared(now, bare)
    BY <1>1 DEF Compared, NoWorse
  <2>2. AddsValue(next, bare) = AddsValue(now, bare)
    BY <1>1, <1>6, <2>1 DEF AddsValue, AllYes, NoWorse, Compared
  <2> QED
    BY <2>1, <2>2 DEF IsObsoleteCandidate
<1> DEFINE old == RunGate(now, bare, on, before, blockers, sacred, threshold)
           new == RunGate(next, bare, on, before, blockers, sacred, threshold)
<1>8. /\ old \in GateResult
      /\ old = "fail" <=> Blocking(now, on, before, blockers, sacred, threshold)
      /\ old = "pass" <=> /\ ~Blocking(now, on, before, blockers, sacred, threshold)
                         /\ ~IsObsoleteCandidate(now, bare)
                         /\ on /\ Len(now) > 0 /\ AllYes(now)
  BY GateSays
<1>9. /\ new \in GateResult
      /\ new = "fail" <=> Blocking(next, on, before, blockers, sacred, threshold)
      /\ new = "pass" <=> /\ ~Blocking(next, on, before, blockers, sacred, threshold)
                         /\ ~IsObsoleteCandidate(next, bare)
                         /\ on /\ Len(next) > 0 /\ AllYes(next)
  BY GateSays
<1> HIDE DEF old, new
<1>10. /\ old \in GateResult /\ new \in GateResult
       /\ new = "fail" => old = "fail"
       /\ old = "pass" => new = "pass"
  BY <1>5, <1>6, <1>7, <1>8, <1>9
<1> QED
  BY <1>10 DEF old, new

-----------------------------------------------------------------------------
(* The rows of this evaluation. *)

(* A function on the first n numbers is a sequence.                        *)
LEMMA SamplesAreSeq ==
    ASSUME NEW S, NEW n \in Nat, NEW f \in [1..n -> S]
    PROVE  f \in Seq(S)
  BY SeqDef

(* The row of the blocker is a row of the blocker, and says "no" only when *)
(* a verdict or a vote does.                                               *)
LEMMA FoldCriterion ==
    ASSUME NEW c, NEW case, NEW p
    PROVE  FoldSamples(c, case, p).criterion = c
  BY DEF FoldSamples, JudgeError, Judgment

(* Three rows: two cases of the sacred criterion and the blocker.          *)
LEMMA RowsAre ==
    ASSUME NEW first, NEW second, NEW votes,
           NEW r, r = RowsOf(first, second, votes)
    PROVE  /\ \A S : {r[1], r[2], r[3]} \subseteq S => r \in Seq(S)
           /\ \E S : r \in Seq(S)
           /\ Len(r) = 3 /\ DOMAIN r = {1, 2, 3}
           /\ r[1] = SacredRow(1, first) /\ r[2] = SacredRow(2, second)
           /\ r[3] = FoldSamples("blocker", 1, votes)
           /\ r[1].criterion = "sacred" /\ r[1].verdict = first
           /\ r[2].criterion = "sacred" /\ r[2].verdict = second
           /\ r[3].criterion = "blocker"
<1>1. r = <<SacredRow(1, first), SacredRow(2, second), FoldSamples("blocker", 1, votes)>>
  BY DEF RowsOf
<1>2. /\ r[1] = SacredRow(1, first) /\ r[2] = SacredRow(2, second)
      /\ r[3] = FoldSamples("blocker", 1, votes)
  BY <1>1
<1>3. /\ r[1].criterion = "sacred" /\ r[1].verdict = first
      /\ r[2].criterion = "sacred" /\ r[2].verdict = second
  BY <1>2 DEF SacredRow, Judgment
<1>4. r[3].criterion = "blocker"
  BY <1>2, FoldCriterion
<1>5. r = <<r[1], r[2], r[3]>>
  BY <1>1, <1>2
<1>6. /\ \A S : {r[1], r[2], r[3]} \subseteq S => r \in Seq(S)
      /\ Len(r) = 3 /\ DOMAIN r = {1, 2, 3}
  <2> DEFINE x == r[1]
             y == r[2]
             z == r[3]
  <2>1. r = <<x, y, z>>
    BY <1>5
  <2> HIDE DEF x, y, z
  <2>2. /\ \A S : {x, y, z} \subseteq S => r \in Seq(S)
        /\ Len(r) = 3 /\ DOMAIN r = {1, 2, 3}
    BY <2>1
  <2> QED
    BY <2>2 DEF x, y, z
<1>7. \E S : r \in Seq(S)
  BY <1>6
<1> QED
  BY <1>2, <1>3, <1>4, <1>6, <1>7

(* A verdict of a row, and a row of the run, replaced.                     *)
LEMMA VerdictReplaced ==
    ASSUME NEW case, NEW old, NEW new
    PROVE  [SacredRow(case, old) EXCEPT !.verdict = new] = SacredRow(case, new)
<1> DEFINE o == SacredRow(case, old)
           n == SacredRow(case, new)
           e == [o EXCEPT !.verdict = new]
           F == {"criterion", "case", "method", "verdict", "samples", "top", "dead"}
<1>1. /\ DOMAIN o = F /\ DOMAIN n = F /\ DOMAIN e = F
      /\ o = [f \in F |-> o[f]] /\ n = [f \in F |-> n[f]]
  BY DEF SacredRow, Judgment
<1>2. e = [f \in F |-> IF f = "verdict" THEN new ELSE o[f]]
  BY <1>1
<1>3. /\ n.criterion = o.criterion /\ n.case = o.case /\ n.method = o.method
      /\ n.samples = o.samples /\ n.top = o.top /\ n.dead = o.dead
      /\ n.verdict = new
  BY DEF SacredRow, Judgment
<1> HIDE DEF e, n, o
<1>5. \A f \in F : n[f] = IF f = "verdict" THEN new ELSE o[f]
  BY <1>3
<1> HIDE DEF F
<1>4. e = n
  BY <1>1, <1>2, <1>5
<1> QED
  BY <1>4 DEF e, n, o

LEMMA RowReplaced ==
    ASSUME NEW first, NEW second, NEW votes, NEW verdict,
           NEW r, r = RowsOf(first, second, votes)
    PROVE  /\ [r EXCEPT ![1] = SacredRow(1, verdict)] = RowsOf(verdict, second, votes)
           /\ [r EXCEPT ![2] = SacredRow(2, verdict)] = RowsOf(first, verdict, votes)
<1> DEFINE x == SacredRow(1, first)
           y == SacredRow(2, second)
           z == FoldSamples("blocker", 1, votes)
           one == SacredRow(1, verdict)
           two == SacredRow(2, verdict)
<1>1. /\ r = <<x, y, z>> /\ RowsOf(verdict, second, votes) = <<one, y, z>>
      /\ RowsOf(first, verdict, votes) = <<x, two, z>>
  BY DEF RowsOf
<1> HIDE DEF x, y, z, one, two
<1>2. [r EXCEPT ![1] = one] = <<one, y, z>> /\ [r EXCEPT ![2] = two] = <<x, two, z>>
  BY <1>1
<1> QED
  BY <1>1, <1>2 DEF one, two

GateInv ==
    /\ samples \in Seq(SampleResult)
    /\ \E first, second \in Verdict : rows = RowsOf(first, second, samples)
    /\ \E first, second \in YesNo : previous = RowsOf(first, second, <<"yes">>)
    /\ enabled \in BOOLEAN
    /\ decision = "none" \/ decision = DecisionOf(rows)

(* One row of the sacred criterion is replaced, the others stay.           *)
LEMMA ImproveIs ==
    ASSUME GateInv, NEW k \in DOMAIN rows, Improve(k)
    PROVE  \E first, second, one, two \in Verdict :
               /\ rows = RowsOf(first, second, samples)
               /\ rows' = RowsOf(one, two, samples)
               /\ one = first \/ <<first, one>> \in Better
               /\ two = second \/ <<second, two>> \in Better
<1>1. PICK first, second \in Verdict : rows = RowsOf(first, second, samples)
  BY DEF GateInv
<1>2. /\ DOMAIN rows = {1, 2, 3} /\ Len(rows) = 3
      /\ rows[1] = SacredRow(1, first) /\ rows[2] = SacredRow(2, second)
      /\ rows[1].verdict = first /\ rows[2].verdict = second
      /\ rows[3].criterion = "blocker"
  BY <1>1, RowsAre
<1>3. PICK verdict \in Verdict : /\ <<rows[k].verdict, verdict>> \in Better
                                /\ rows' = [rows EXCEPT ![k].verdict = verdict]
  BY DEF Improve
<1>4. k = 1 \/ k = 2
  BY <1>2 DEF Improve
<1>5. CASE k = 1
  <2>1. rows' = RowsOf(verdict, second, samples)
    <3>1. [SacredRow(1, first) EXCEPT !.verdict = verdict] = SacredRow(1, verdict)
      BY VerdictReplaced
    <3>2. rows' = [rows EXCEPT ![1] = [rows[1] EXCEPT !.verdict = verdict]]
      BY <1>3, <1>5
    <3>3. rows' = [rows EXCEPT ![1] = SacredRow(1, verdict)]
      BY <1>2, <3>1, <3>2
    <3> QED
      BY <1>1, <3>3, RowReplaced
  <2>2. <<first, verdict>> \in Better
    BY <1>2, <1>3, <1>5
  <2> QED
    BY <1>1, <2>1, <2>2
<1>6. CASE k = 2
  <2>1. rows' = RowsOf(first, verdict, samples)
    <3>1. [SacredRow(2, second) EXCEPT !.verdict = verdict] = SacredRow(2, verdict)
      BY VerdictReplaced
    <3>2. rows' = [rows EXCEPT ![2] = [rows[2] EXCEPT !.verdict = verdict]]
      BY <1>3, <1>6
    <3>3. rows' = [rows EXCEPT ![2] = SacredRow(2, verdict)]
      BY <1>2, <3>1, <3>2
    <3> QED
      BY <1>1, <3>3, RowReplaced
  <2>2. <<second, verdict>> \in Better
    BY <1>2, <1>3, <1>6
  <2> QED
    BY <1>1, <2>1, <2>2
<1> QED
  BY <1>4, <1>5, <1>6

(* A sample of the blocker is replaced, the sacred rows stay.              *)
LEMMA ConvinceIs ==
    ASSUME GateInv, NEW i \in DOMAIN samples, Convince(i)
    PROVE  /\ samples' \in Seq(SampleResult)
           /\ \E first, second \in Verdict :
                 /\ rows = RowsOf(first, second, samples)
                 /\ rows' = RowsOf(first, second, samples')
<1>1. PICK first, second \in Verdict : rows = RowsOf(first, second, samples)
  BY DEF GateInv
<1>2. rows[1].verdict = first /\ rows[2].verdict = second
  BY <1>1, RowsAre
<1>3. samples' = [samples EXCEPT ![i] = "yes"]
      /\ rows' = RowsOf(rows[1].verdict, rows[2].verdict, samples')
  BY DEF Convince
<1>4. samples' \in Seq(SampleResult)
  <2>1. samples \in Seq(SampleResult) /\ i \in 1..Len(samples) /\ "yes" \in SampleResult
    BY LenProperties DEF GateInv, SampleResult, Verdict
  <2> QED
    BY <1>3, <2>1, ExceptSeq
<1> QED
  BY <1>1, <1>2, <1>3, <1>4

(* The rows are those of the samples at hand, and the decision is theirs.  *)
THEOREM GateInvariant == Spec => []GateInv
<1>1. Init => GateInv
  <2> SUFFICES ASSUME Init
               PROVE  GateInv
    OBVIOUS
  <2>1. PICK n \in 1..MaxSamples : samples \in [1..n -> SampleResult]
    BY DEF Init
  <2>2. n \in Nat
    BY SamplesAssumption
  <2>3. samples \in Seq(SampleResult)
    BY <2>1, <2>2, SamplesAreSeq
  <2> QED
    BY <2>3 DEF Init, GateInv
<1>2. GateInv /\ [Next]_vars => GateInv'
  <2> SUFFICES ASSUME GateInv, [Next]_vars
               PROVE  GateInv'
    OBVIOUS
  <2>1. CASE Decide
    BY <2>1 DEF Decide, GateInv, DecisionOf, RunGate
  <2>2. ASSUME NEW k \in DOMAIN rows, Improve(k)
        PROVE  GateInv'
    <3>1. \E one, two \in Verdict : rows' = RowsOf(one, two, samples)
      BY <2>2, ImproveIs
    <3>2. /\ decision' = DecisionOf(rows')
          /\ samples' = samples /\ naked' = naked /\ previous' = previous /\ enabled' = enabled
      BY <2>2 DEF Improve
    <3>3. (DecisionOf(rows))' = DecisionOf(rows')
      BY <3>2 DEF DecisionOf
    <3> QED
      BY <3>1, <3>2, <3>3 DEF GateInv
  <2>3. ASSUME NEW i \in DOMAIN samples, Convince(i)
        PROVE  GateInv'
    <3>1. /\ samples' \in Seq(SampleResult)
          /\ \E first, second \in Verdict : rows' = RowsOf(first, second, samples')
      BY <2>3, ConvinceIs
    <3>2. /\ decision' = DecisionOf(rows')
          /\ naked' = naked /\ previous' = previous /\ enabled' = enabled
      BY <2>3 DEF Convince
    <3>3. (DecisionOf(rows))' = DecisionOf(rows')
      BY <3>2 DEF DecisionOf
    <3> QED
      BY <3>1, <3>2, <3>3 DEF GateInv
  <2>4. CASE UNCHANGED vars
    BY <2>4 DEF vars, GateInv, DecisionOf
  <2> QED
    BY <2>1, <2>2, <2>3, <2>4 DEF Next, Done
<1> QED
  BY <1>1, <1>2, PTL DEF Spec

-----------------------------------------------------------------------------
(* The properties. *)

(* A blocker stops a release only with a quorum of all the samples of its  *)
(* judge behind it: however many samples there are, and whichever of them  *)
(* failed.                                                                 *)
THEOREM BlockersNeedAQuorum == Spec => []QuorumBlocks
<1>1. GateInv => QuorumBlocks
  <2> SUFFICES ASSUME GateInv,
                      ComputeScoreCard(rows, {"blocker"}, 0, Quorum).blockerFailures > 0
               PROVE  Len(samples) = 1
                      \/ CountOf(samples, "no") * Quorum[2] >= Quorum[1] * Len(samples)
    BY DEF QuorumBlocks
  <2>1. PICK first, second \in Verdict : rows = RowsOf(first, second, samples)
    BY DEF GateInv
  <2>2. /\ \E S : rows \in Seq(S)
        /\ DOMAIN rows = {1, 2, 3} /\ rows[3] = FoldSamples("blocker", 1, samples)
        /\ rows[1].criterion = "sacred" /\ rows[2].criterion = "sacred"
    BY <2>1, RowsAre
  <2>3. Failing(rows, {"blocker"}, Quorum) # {}
    BY <2>2, ScoreCounts
  <2>4. rows[3].verdict = "no" /\ ~Unstable(rows[3], Quorum)
    BY <2>2, <2>3 DEF Failing
  <2>5. Quorum = <<3, 4>> /\ Quorum[1] = 3 /\ Quorum[2] = 4
    BY DEF Quorum
  <2>6. samples \in Seq(SampleResult)
    BY DEF GateInv
  <2>7. Len(samples) = 1 \/ CountOf(samples, "no") * 4 >= 3 * Len(samples)
    BY <2>2, <2>4, <2>5, <2>6, StableNo
  <2> QED
    BY <2>5, <2>7
<1> QED
  BY <1>1, GateInvariant, PTL

(* The last row of the sacred criterion is its second test case.           *)
LEMMA LastSacredRow ==
    ASSUME NEW first, NEW second, NEW votes,
           NEW r, r = RowsOf(first, second, votes)
    PROVE  LastRowOf(r, "sacred") = {r[2]}
<1>1. /\ DOMAIN r = {1, 2, 3}
      /\ r[1].criterion = "sacred" /\ r[2].criterion = "sacred" /\ r[3].criterion = "blocker"
  BY RowsAre
<1> DEFINE mine == {i \in DOMAIN r : r[i].criterion = "sacred"}
<1>2. mine = {1, 2}
  BY <1>1
<1>3. {k \in mine : \A j \in mine : j <= k} = {2}
  BY <1>2
<1> HIDE DEF mine
<1>4. {r[i] : i \in {k \in mine : \A j \in mine : j <= k}} = {r[2]}
  BY <1>3
<1> QED
  BY <1>4 DEF LastRowOf, mine

(* No broken case of a sacred criterion gets past the gate when the        *)
(* previous release has one verdict for the criterion on all its cases;    *)
(* with two verdicts only the last row is compared, and it can.            *)
THEOREM SacredCasesBlock == Spec => []SacredBlocksWhenUniform
<1>1. GateInv => SacredBlocksWhenUniform
  <2> SUFFICES ASSUME GateInv, enabled = TRUE, previous[1].verdict = previous[2].verdict,
                      NEW k \in DOMAIN rows, BrokenSacredCase(k), decision # "none"
               PROVE  decision = "fail"
    BY DEF SacredBlocksWhenUniform, GateInv
  <2>1. PICK first, second \in Verdict : rows = RowsOf(first, second, samples)
    BY DEF GateInv
  <2>2. PICK one, two \in YesNo : previous = RowsOf(one, two, <<"yes">>)
    BY DEF GateInv
  <2>3. /\ \E S : rows \in Seq(S)
        /\ DOMAIN rows = {1, 2, 3} /\ rows[3].criterion = "blocker"
    BY <2>1, RowsAre
  <2>4. rows[k].criterion = "sacred" /\ rows[k].verdict # "yes" /\ previous[k].verdict = "yes"
    BY DEF BrokenSacredCase
  <2>5. k = 1 \/ k = 2
    BY <2>3, <2>4
  <2>6. previous[2].verdict = "yes"
    BY <2>4, <2>5
  <2>7. LastRowOf(previous, "sacred") = {previous[2]}
    BY <2>2, LastSacredRow
  <2>8. k \in SacredRegressions(previous, rows, {"sacred"})
    BY <2>4, <2>6, <2>7 DEF SacredRegressions, Regressions
  <2>9. Blocking(rows, enabled, previous, {"blocker"}, {"sacred"}, Quorum)
    BY <2>8 DEF Blocking
  <2>10. decision = RunGate(rows, naked, enabled, previous, {"blocker"}, {"sacred"}, Quorum)
    BY DEF GateInv, DecisionOf
  <2>11. enabled \in BOOLEAN
    BY DEF GateInv
  <2>12. PICK S : rows \in Seq(S)
    BY <2>3
  <2> QED
    BY <2>9, <2>10, <2>11, <2>12, BlockingFails, ZenonT(60)
<1> QED
  BY <1>1, GateInvariant, PTL

(* A sample that turns from "no" to "yes" never takes a "yes" of the vote  *)
(* away and never makes a "no", with any number of samples.                *)
THEOREM TheVoteIsMonotone == Spec => VoteIsMonotone
<1>1. GateInv /\ [Next]_vars
      => [/\ Vote.verdict = "yes" => Vote'.verdict = "yes"
          /\ Vote'.verdict = "no" => Vote.verdict = "no"]_vars
  <2> SUFFICES ASSUME GateInv, Next
               PROVE  \/ /\ Vote.verdict = "yes" => Vote'.verdict = "yes"
                         /\ Vote'.verdict = "no" => Vote.verdict = "no"
                      \/ UNCHANGED vars
    OBVIOUS
  <2>1. CASE Decide
    BY <2>1 DEF Decide, Vote
  <2>2. ASSUME NEW k \in DOMAIN rows, Improve(k)
        PROVE  Vote' = Vote
    <3>1. \E first, second, one, two \in Verdict : /\ rows = RowsOf(first, second, samples)
                                                  /\ rows' = RowsOf(one, two, samples)
      BY <2>2, ImproveIs
    <3>2. rows[3] = FoldSamples("blocker", 1, samples)
          /\ rows'[3] = FoldSamples("blocker", 1, samples)
      BY <3>1, RowsAre
    <3> QED
      BY <3>2 DEF Vote
  <2>3. ASSUME NEW i \in DOMAIN samples, Convince(i)
        PROVE  /\ Vote.verdict = "yes" => Vote'.verdict = "yes"
               /\ Vote'.verdict = "no" => Vote.verdict = "no"
    <3>1. \E first, second \in Verdict : /\ rows = RowsOf(first, second, samples)
                                        /\ rows' = RowsOf(first, second, samples')
      BY <2>3, ConvinceIs
    <3>2. rows[3] = FoldSamples("blocker", 1, samples)
          /\ rows'[3] = FoldSamples("blocker", 1, samples')
      BY <3>1, RowsAre
    <3>3. samples[i] = "no" /\ samples' = [samples EXCEPT ![i] = "yes"]
          /\ samples \in Seq(SampleResult)
      BY <2>3 DEF Convince, GateInv
    <3> DEFINE old == FoldSamples("blocker", 1, samples)
               new == FoldSamples("blocker", 1, samples')
    <3>4. /\ old.verdict = "yes" => new.verdict = "yes"
          /\ new.verdict = "no" => old.verdict = "no"
      BY <3>3, VoteImproves
    <3>5. Vote = old /\ Vote' = new
      BY <3>2 DEF Vote
    <3> HIDE DEF old, new
    <3> QED
      BY <3>4, <3>5
  <2>4. CASE Done
    BY <2>4 DEF Done
  <2> QED
    BY <2>1, <2>2, <2>3, <2>4 DEF Next
<1> QED
  BY <1>1, GateInvariant, PTL DEF Spec, VoteIsMonotone

(* The row of a criterion whose sample turned from "no" to "yes".          *)
LEMMA VoteNoWorse ==
    ASSUME NEW p \in Seq(SampleResult), NEW i \in DOMAIN p, p[i] = "no",
           NEW q, q = [p EXCEPT ![i] = "yes"]
    PROVE  NoWorse(FoldSamples("blocker", 1, p), FoldSamples("blocker", 1, q), Quorum)
<1> DEFINE old == FoldSamples("blocker", 1, p)
           new == FoldSamples("blocker", 1, q)
<1>1. /\ old.verdict = "yes" => new.verdict = "yes"
      /\ new.verdict = "no" => /\ old.verdict = "no" /\ new.samples = old.samples
                               /\ old.samples \in Nat /\ {old.top, new.top} \subseteq Nat
                               /\ new.top <= old.top
  BY VoteImproves, ZenonT(60)
<1>2. old.method = "judge" /\ new.method = "judge"
  BY DEF FoldSamples, JudgeError, Judgment
<1>3. old.criterion = new.criterion
  BY FoldCriterion
<1> HIDE DEF old, new
<1>4. Quorum[1] = 3 /\ Quorum[2] = 4
  BY DEF Quorum
<1>5. new.verdict = "no" /\ Unstable(old, Quorum) => Unstable(new, Quorum)
  BY <1>1, <1>2, <1>4, SMTT(60) DEF Unstable
<1>6. NoWorse(old, new, Quorum)
  BY <1>1, <1>3, <1>5 DEF NoWorse
<1> QED
  BY <1>6 DEF old, new

(* A sacred row that is kept or improved.                                  *)
LEMMA SacredNoWorse ==
    ASSUME NEW case, NEW old, NEW new, old = new \/ <<old, new>> \in Better
    PROVE  NoWorse(SacredRow(case, old), SacredRow(case, new), Quorum)
<1>1. /\ SacredRow(case, old).criterion = SacredRow(case, new).criterion
      /\ SacredRow(case, old).verdict = old /\ SacredRow(case, new).verdict = new
      /\ SacredRow(case, old).samples = 1
  BY DEF SacredRow, Judgment
<1>2. ~Unstable(SacredRow(case, old), Quorum)
  BY <1>1 DEF Unstable
<1>3. /\ old = "yes" => new = "yes"
      /\ new = "no" => old = "no"
  BY DEF Better
<1> QED
  BY <1>1, <1>2, <1>3 DEF NoWorse

(* Rows that are no worse get a decision that is no worse.                 *)
LEMMA NoWorseDecision ==
    ASSUME GateInv, naked' = naked, previous' = previous, enabled' = enabled,
           decision # "none", decision' = DecisionOf(rows'),
           NEW S, rows \in Seq(S), rows' \in Seq(S), Len(rows') = Len(rows),
           \A k \in DOMAIN rows : NoWorse(rows[k], rows'[k], Quorum)
    PROVE  Rank[decision'] >= Rank[decision]
<1>1. decision = RunGate(rows, naked, enabled, previous, {"blocker"}, {"sacred"}, Quorum)
  BY DEF GateInv, DecisionOf
<1>2. decision' = RunGate(rows', naked, enabled, previous, {"blocker"}, {"sacred"}, Quorum)
  BY DEF DecisionOf
<1>3. enabled \in BOOLEAN
  BY DEF GateInv
<1>4. /\ decision \in GateResult /\ decision' \in GateResult
      /\ decision' = "fail" => decision = "fail"
      /\ decision = "pass" => decision' = "pass"
  BY <1>1, <1>2, <1>3, BetterRowsBetterGate
<1> QED
  BY <1>4 DEF GateResult, Rank

(* A row is as good as itself.                                             *)
LEMMA SameNoWorse ==
    ASSUME NEW row
    PROVE  NoWorse(row, row, Quorum)
  BY DEF NoWorse

(* Three rows, two of them sacred, and three that are no worse.            *)
LEMMA ThreeNoWorse ==
    ASSUME NEW first, NEW second, NEW votes, NEW r, r = RowsOf(first, second, votes),
           NEW one, NEW two, NEW more, NEW n, n = RowsOf(one, two, more),
           NoWorse(SacredRow(1, first), SacredRow(1, one), Quorum),
           NoWorse(SacredRow(2, second), SacredRow(2, two), Quorum),
           NoWorse(FoldSamples("blocker", 1, votes), FoldSamples("blocker", 1, more), Quorum)
    PROVE  /\ \E S : r \in Seq(S) /\ n \in Seq(S)
           /\ Len(n) = Len(r) /\ \A k \in DOMAIN r : NoWorse(r[k], n[k], Quorum)
<1> DEFINE S == {r[1], r[2], r[3], n[1], n[2], n[3]}
<1>1. /\ r \in Seq(S) /\ Len(r) = 3 /\ DOMAIN r = {1, 2, 3}
      /\ r[1] = SacredRow(1, first) /\ r[2] = SacredRow(2, second)
      /\ r[3] = FoldSamples("blocker", 1, votes)
  BY RowsAre
<1>2. /\ n \in Seq(S) /\ Len(n) = 3
      /\ n[1] = SacredRow(1, one) /\ n[2] = SacredRow(2, two)
      /\ n[3] = FoldSamples("blocker", 1, more)
  BY RowsAre
<1> HIDE DEF S
<1>3. NoWorse(r[1], n[1], Quorum) /\ NoWorse(r[2], n[2], Quorum) /\ NoWorse(r[3], n[3], Quorum)
  BY <1>1, <1>2
<1> QED
  BY <1>1, <1>2, <1>3

(* A better judgment never makes the decision worse, whatever the naked    *)
(* pass, the previous release and the noise of the judge.                  *)
THEOREM TheGateIsMonotone == Spec => GateIsMonotone
<1>1. GateInv /\ [Next]_vars => [Rank[decision'] >= Rank[decision]]_vars
  <2> SUFFICES ASSUME GateInv, Next
               PROVE  Rank[decision'] >= Rank[decision] \/ UNCHANGED vars
    OBVIOUS
  <2>1. CASE Decide
    <3>1. PICK first, second \in Verdict : rows = RowsOf(first, second, samples)
      BY DEF GateInv
    <3>2. PICK S : rows \in Seq(S)
      BY <3>1, RowsAre
    <3>3. /\ decision = "none" /\ enabled \in BOOLEAN
          /\ decision' = RunGate(rows, naked, enabled, previous, {"blocker"}, {"sacred"}, Quorum)
      BY <2>1 DEF Decide, DecisionOf, GateInv
    <3>4. decision' \in GateResult
      BY <3>2, <3>3, GateSays
    <3> QED
      BY <3>3, <3>4 DEF Rank, GateResult
  <2>2. ASSUME NEW k \in DOMAIN rows, Improve(k)
        PROVE  Rank[decision'] >= Rank[decision]
    <3>1. PICK first, second, one, two \in Verdict :
              /\ rows = RowsOf(first, second, samples)
              /\ rows' = RowsOf(one, two, samples)
              /\ one = first \/ <<first, one>> \in Better
              /\ two = second \/ <<second, two>> \in Better
      BY <2>2, ImproveIs
    <3>2. /\ \E S : rows \in Seq(S) /\ rows' \in Seq(S)
          /\ Len(rows') = Len(rows) /\ \A j \in DOMAIN rows : NoWorse(rows[j], rows'[j], Quorum)
      <4>1. /\ NoWorse(SacredRow(1, first), SacredRow(1, one), Quorum)
            /\ NoWorse(SacredRow(2, second), SacredRow(2, two), Quorum)
        BY <3>1, SacredNoWorse
      <4>2. NoWorse(FoldSamples("blocker", 1, samples), FoldSamples("blocker", 1, samples),
                    Quorum)
        BY SameNoWorse
      <4> QED
        BY <3>1, <4>1, <4>2, ThreeNoWorse
    <3>3. /\ naked' = naked /\ previous' = previous /\ enabled' = enabled
          /\ decision # "none" /\ decision' = DecisionOf(rows')
      BY <2>2 DEF Improve
    <3> QED
      BY <3>2, <3>3, NoWorseDecision
  <2>3. ASSUME NEW i \in DOMAIN samples, Convince(i)
        PROVE  Rank[decision'] >= Rank[decision]
    <3>1. PICK first, second \in Verdict : /\ rows = RowsOf(first, second, samples)
                                          /\ rows' = RowsOf(first, second, samples')
      BY <2>3, ConvinceIs
    <3>2. samples[i] = "no" /\ samples' = [samples EXCEPT ![i] = "yes"]
          /\ samples \in Seq(SampleResult)
      BY <2>3 DEF Convince, GateInv
    <3>3. /\ \E S : rows \in Seq(S) /\ rows' \in Seq(S)
          /\ Len(rows') = Len(rows) /\ \A j \in DOMAIN rows : NoWorse(rows[j], rows'[j], Quorum)
      <4> DEFINE q == samples'
                 n == rows'
      <4>1. /\ rows = RowsOf(first, second, samples) /\ n = RowsOf(first, second, q)
            /\ samples[i] = "no" /\ q = [samples EXCEPT ![i] = "yes"]
            /\ samples \in Seq(SampleResult) /\ i \in DOMAIN samples
        BY <3>1, <3>2
      <4> HIDE DEF q, n
      <4>2. /\ \E S : rows \in Seq(S) /\ n \in Seq(S)
            /\ Len(n) = Len(rows) /\ \A j \in DOMAIN rows : NoWorse(rows[j], n[j], Quorum)
        <5>1. NoWorse(FoldSamples("blocker", 1, samples), FoldSamples("blocker", 1, q), Quorum)
          BY <4>1, VoteNoWorse
        <5>2. /\ NoWorse(SacredRow(1, first), SacredRow(1, first), Quorum)
              /\ NoWorse(SacredRow(2, second), SacredRow(2, second), Quorum)
          BY SameNoWorse
        <5>3. rows = RowsOf(first, second, samples) /\ n = RowsOf(first, second, q)
          BY <4>1
        <5> QED
          BY <5>1, <5>2, <5>3, ThreeNoWorse
      <4> QED
        BY <4>2 DEF n
    <3>4. /\ naked' = naked /\ previous' = previous /\ enabled' = enabled
          /\ decision # "none" /\ decision' = DecisionOf(rows')
      BY <2>3 DEF Convince
    <3> QED
      BY <3>3, <3>4, NoWorseDecision
  <2>4. CASE Done
    BY <2>4 DEF Done
  <2> QED
    BY <2>1, <2>2, <2>3, <2>4 DEF Next
<1> QED
  BY <1>1, GateInvariant, PTL DEF Spec, GateIsMonotone
=============================================================================
