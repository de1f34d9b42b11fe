-------------------------- MODULE Providers_proofs --------------------------
(***************************************************************************)
(* What the plan transport promises, for any number of callers and models, *)
(* any answers of the endpoint, and any lengths of gap, cache and windows, *)
(* and what the report of a case with tools accounts for, for any servers, *)
(* any model, any limits, and wherever a signal, a refusal or a dead       *)
(* server ends it.                                                         *)
(***************************************************************************)
EXTENDS MCProviders, FiniteSetTheorems, TLAPS

\* The completion calls a history holds for a request.
CallsIn(s, r) == {i \in DOMAIN s : s[i].req = r}
Count(s, r)   == Cardinality(CallsIn(s, r))

LEMMA CallsCounted ==
    ASSUME NEW S, NEW s \in Seq(S), NEW r
    PROVE  /\ IsFiniteSet(CallsIn(s, r)) /\ Count(s, r) \in Nat
           /\ Count(s, r) = 0 <=> CallsIn(s, r) = {}
           /\ Len(s) + 1 \notin CallsIn(s, r)
<1>1. CallsIn(s, r) \subseteq 1..Len(s) /\ Len(s) \in Nat
  BY DEF CallsIn
<1>2. IsFiniteSet(1..Len(s))
  BY <1>1, FS_Interval
<1>3. IsFiniteSet(CallsIn(s, r))
  BY <1>1, <1>2, FS_Subset
<1>4. Count(s, r) \in Nat /\ (Count(s, r) = 0 <=> CallsIn(s, r) = {})
  BY <1>3, FS_CardinalityType, FS_EmptySet DEF Count
<1>5. Len(s) + 1 \notin CallsIn(s, r)
  BY <1>1
<1> QED
  BY <1>3, <1>4, <1>5

LEMMA CallsAppended ==
    ASSUME NEW S, NEW s \in Seq(S), NEW e \in S, NEW r
    PROVE  /\ e.req # r => CallsIn(Append(s, e), r) = CallsIn(s, r)
           /\ e.req = r => /\ CallsIn(Append(s, e), r) = CallsIn(s, r) \cup {Len(s) + 1}
                           /\ Count(Append(s, e), r) = Count(s, r) + 1
<1> DEFINE t == Append(s, e)
<1>1. /\ Len(s) \in Nat /\ DOMAIN t = 1..(Len(s) + 1) /\ DOMAIN s = 1..Len(s)
      /\ t[Len(s) + 1] = e /\ \A i \in 1..Len(s) : t[i] = s[i]
  OBVIOUS
<1> HIDE DEF t
<1>2. e.req # r => CallsIn(t, r) = CallsIn(s, r)
  BY <1>1 DEF CallsIn
<1>3. e.req = r => CallsIn(t, r) = CallsIn(s, r) \cup {Len(s) + 1}
  BY <1>1 DEF CallsIn
<1>4. Cardinality(CallsIn(s, r) \cup {Len(s) + 1}) = Cardinality(CallsIn(s, r)) + 1
  BY CallsCounted, FS_AddElement
<1> QED
  BY <1>2, <1>3, <1>4 DEF t, Count

-----------------------------------------------------------------------------
\* A delivery no adapter makes an answer of.
Harmless(delivery) ==
    LET result == OpenAICompatComplete(delivery, FALSE)
    IN OpenAICompatExecute(result).status = "failed" /\ OpenAICompatJudge(result) = "throws"

LEMMA FailuresAreHarmless ==
    ASSUME NEW delivery, \E category : \/ OpenAICompatComplete(delivery, FALSE) = Failure(category)
                                       \/ OpenAICompatComplete(delivery, FALSE) = Final(category)
    PROVE  Harmless(delivery)
<1>1. \A category : ~Failure(category).ok
  BY DEF Failure
<1>2. \A category : Final(category).ok = Failure(category).ok
  BY DEF Failure, Final
<1>3. ~OpenAICompatComplete(delivery, FALSE).ok
  BY <1>1, <1>2
<1> QED
  BY <1>3 DEF Harmless, OpenAICompatExecute, FailedBy, OpenAICompatJudge

LEMMA ThrownIsHarmless == ASSUME NEW what PROVE Harmless(Plan!Thrown(what))
<1> DEFINE delivery == Plan!Thrown(what)
<1>1. delivery.kind = "thrown"
  BY DEF Plan!Thrown
<1>2. OpenAICompatComplete(delivery, FALSE) = ErrorForThrow(delivery)
  BY <1>1 DEF OpenAICompatComplete, Keyless
<1>3. \E category : \/ ErrorForThrow(delivery) = Failure(category)
                    \/ ErrorForThrow(delivery) = Final(category)
  BY DEF ErrorForThrow
<1> QED
  BY <1>2, <1>3, FailuresAreHarmless

Dead == {response \in Answers : ~IsSuccess(response)}

LEMMA DeadIsHarmless == ASSUME NEW response \in Dead PROVE Harmless(response)
<1>1. response.kind = "response" /\ ~IsSuccess(response)
  BY PlanAssumption DEF Dead
<1>2. OpenAICompatComplete(response, FALSE) = OpenAICompatErrorForStatus(response)
  BY <1>1 DEF OpenAICompatComplete, Keyless
<1>3. \E category : \/ OpenAICompatErrorForStatus(response) = Failure(category)
                    \/ OpenAICompatErrorForStatus(response) = Final(category)
  BY DEF OpenAICompatErrorForStatus
<1> QED
  BY <1>2, <1>3, FailuresAreHarmless

(* The largest of three and the smaller of two times.                      *)
LEMMA MaxOfThree ==
    ASSUME NEW a \in Nat, NEW b \in Nat, NEW c \in Nat
    PROVE  /\ Plan!Max({a, b, c}) \in {a, b, c}
           /\ \A x \in {a, b, c} : x <= Plan!Max({a, b, c})
<1>1. \E m \in {a, b, c} : \A x \in {a, b, c} : m >= x
  <2>1. CASE a >= b /\ a >= c
    BY <2>1
  <2>2. CASE b >= a /\ b >= c
    BY <2>2
  <2>3. CASE c >= a /\ c >= b
    BY <2>3
  <2> QED
    BY <2>1, <2>2, <2>3
<1> QED
  BY <1>1 DEF Plan!Max

LEMMA MinOfTwo ==
    ASSUME NEW a \in Nat, NEW b \in Nat
    PROVE  Plan!Min({a, b}) = IF a <= b THEN a ELSE b
<1>1. \E m \in {a, b} : \A x \in {a, b} : m <= x
  BY DEF Plan!Min
<1>2. Plan!Min({a, b}) \in {a, b} /\ \A x \in {a, b} : Plan!Min({a, b}) <= x
  BY <1>1 DEF Plan!Min
<1> QED
  BY <1>2

-----------------------------------------------------------------------------
Models     == {ModelOf[r] : r \in Request}
SendRecord == [req : Request, model : Models, blocked : BOOLEAN]
Readings   == [model : Models, age : 0..Cache, reset : {None} \cup (0..Late)]
Circuits   == {None, Plan!Refused} \cup Dead
Told3      == {Plan!Aborted, Plan!Refused, Plan!Thrown("socket")} \cup Answers

LEMMA ToldIsAnswer == ASSUME NEW said \in Told3 PROVE said.kind \in {"response", "thrown"}
  BY PlanAssumption DEF Told3, Plan!Aborted, Plan!Refused, Plan!Thrown

Flags == canonical \in BOOLEAN /\ recoveryUsed \in BOOLEAN

TypeInv ==
    /\ queue \in Seq(Request)
    /\ send \in [step : {"idle", "quota", "cooldown", "recheck", "pace", "sent",
                         "requota", "retry"},
                 rest : 0..Late, held : Answers \cup {None}]
    /\ settled \in [Request -> {Plan!Unsent, Plan!Waiting} \cup Told3]
    /\ aborted \subseteq Request
    /\ quota \in {None} \cup Readings
    /\ circuit \in Circuits
    /\ pause \in 0..Gap /\ lull \in 0..Gap
    /\ sends \in Seq(SendRecord)

\* Nobody queues twice, and only the head of the queue has been sent for.
QueueInv ==
    /\ \A i, j \in 1..Len(queue) : queue[i] = queue[j] => i = j
    /\ \A i \in 1..Len(queue) : settled[queue[i]].kind # "unsent"
    /\ \A i \in 2..Len(queue) : CallsIn(sends, queue[i]) = {}
    /\ \A r \in Request : settled[r].kind = "unsent" => CallsIn(sends, r) = {}

Untried == CallsIn(sends, queue[1]) = {}
Once    == Count(sends, queue[1]) = 1
NoTwice == \A r \in Request : Count(sends, r) # 2

\* What each place in send() knows of the calls, the reading and the clock.
HeadInv ==
    /\ send.step # "idle" => queue # <<>>
    /\ queue # <<>> /\ send.step \in {"idle", "quota", "pace"} => Untried
    /\ send.step \in {"sent", "requota"} => Once
    /\ send.step = "retry" => ~Untried
    /\ send.step = "requota" => send.held \in Dead
    /\ send.step \in {"cooldown", "recheck"} =>
          /\ NoTwice
          /\ send.held = None => Untried
          /\ send.held # None =>
                /\ send.held \in Dead /\ Once
                /\ lull + send.rest >= Gap
                /\ send.step = "recheck" => lull = Gap
    /\ send.step = "pace" =>
          /\ quota \in Readings /\ quota.model = ModelOf[queue[1]] /\ quota.reset = None
          /\ pause <= send.rest

FlagInv ==
    /\ send.step = "requota" => ~recoveryUsed
    /\ send.step \in {"cooldown", "recheck"} => recoveryUsed

\* One request at most is sent twice, and the recovery is gone by then.
RetryInv ==
    /\ \A r \in Request : Count(sends, r) <= 2
    /\ \A a, b \in Request : Count(sends, a) = 2 /\ Count(sends, b) = 2 => a = b
    /\ ~recoveryUsed => NoTwice

AnswerInv ==
    \A r \in Request : settled[r].kind \in {"response", "thrown"} =>
        Harmless(settled[r]) \/ CallsIn(sends, r) # {}

PlanInv ==
    /\ Flags /\ TypeInv /\ QueueInv /\ HeadInv /\ FlagInv /\ RetryInv /\ AnswerInv
    /\ Plan!SentUnderQuota
    /\ pause + lull >= Gap

LEMMA InitPlan == Init => PlanInv
<1> SUFFICES ASSUME Init PROVE PlanInv
  OBVIOUS
<1> USE DEF Init, Plan!PlanInit
<1>1. TypeInv
  <2>1. send \in [step : {"idle", "quota", "cooldown", "recheck", "pace", "sent",
                         "requota", "retry"},
                 rest : 0..Late, held : Answers \cup {None}]
    BY PlanAssumption DEF Plan!Idle
  <2>2. settled \in [Request -> {Plan!Unsent, Plan!Waiting} \cup Told3]
    OBVIOUS
  <2>3. circuit \in Circuits /\ sends \in Seq(SendRecord)
    BY DEF Circuits
  <2>4. pause \in 0..Gap /\ lull \in 0..Gap
    BY PlanAssumption
  <2> QED
    BY <2>1, <2>2, <2>3, <2>4 DEF TypeInv
<1>2. \A r : CallsIn(sends, r) = {} /\ Count(sends, r) = 0
  BY FS_EmptySet DEF CallsIn, Count
<1>3. QueueInv /\ HeadInv
  BY <1>2 DEF QueueInv, HeadInv, Plan!Idle, Untried
<1>4. RetryInv
  BY <1>2 DEF RetryInv, NoTwice
<1>5. AnswerInv
  BY DEF AnswerInv, Plan!Unsent
<1>6. Plan!SentUnderQuota /\ pause + lull >= Gap
  BY PlanAssumption DEF Plan!SentUnderQuota
<1>7. Flags /\ FlagInv
  <2>1. send.step = "idle"
    BY DEF Plan!Idle
  <2> QED
    BY <2>1, Zenon DEF Flags, FlagInv
<1> QED
  BY <1>1, <1>3, <1>4, <1>5, <1>6, <1>7 DEF PlanInv

\* The shared part of every step of send(): what it may do to the rest.
Aside ==
    /\ UNCHANGED <<canonical, aborted>>
    /\ quota' \in {None} \cup Readings
    /\ circuit' \in Circuits
    /\ recoveryUsed' \in BOOLEAN /\ (recoveryUsed => recoveryUsed')

LEMMA EndKeeps ==
    ASSUME PlanInv, queue # <<>>, NEW said \in Told3, Plan!End(said),
           Harmless(said) \/ ~Untried, Aside, UNCHANGED <<pause, sends, lull>>
    PROVE  PlanInv'
<1>1. /\ queue \in Seq(Request) /\ Len(queue) \in Nat \ {0} /\ queue' = Tail(queue)
      /\ Plan!Active = queue[1] /\ queue[1] \in Request
  BY DEF PlanInv, TypeInv, Plan!End, Plan!Active
<1>2. /\ queue' \in Seq(Request) /\ Len(queue') = Len(queue) - 1
      /\ \A i \in 1..Len(queue') : queue'[i] = queue[i + 1]
  BY <1>1
<1>3. /\ send' = Plan!Idle
      /\ settled' = [settled EXCEPT ![queue[1]] = IF @ = Plan!Waiting THEN said ELSE @]
  BY <1>1 DEF Plan!End
<1>4. settled' \in [Request -> {Plan!Unsent, Plan!Waiting} \cup Told3]
  BY <1>1, <1>3 DEF PlanInv, TypeInv, Told3
<1>5. TypeInv'
  BY <1>2, <1>3, <1>4, PlanAssumption
     DEF Aside, PlanInv, TypeInv, Plan!Idle
<1>6. \A r \in Request : settled'[r].kind = "unsent" => settled[r].kind = "unsent"
  BY <1>3, ToldIsAnswer DEF PlanInv, TypeInv
<1>7. QueueInv'
  <2>1. \A i, j \in 1..Len(queue') : queue'[i] = queue'[j] => i = j
    <3>1. \A i \in 1..Len(queue') : i + 1 \in 1..Len(queue)
      BY <1>1, <1>2
    <3> QED
      BY <1>1, <1>2, <3>1 DEF PlanInv, QueueInv
  <2>2. \A i \in 1..Len(queue') : queue'[i] \in Request /\ settled'[queue'[i]].kind # "unsent"
    <3>1. \A i \in 1..Len(queue') : queue'[i] \in Request
      BY <1>2
    <3>2. \A i \in 1..Len(queue') : i + 1 \in 1..Len(queue)
      BY <1>1, <1>2
    <3> QED
      BY <1>2, <1>6, <3>1, <3>2, SMTT(60) DEF PlanInv, QueueInv
  <2>3. \A i \in 2..Len(queue') : CallsIn(sends', queue'[i]) = {}
    <3>1. \A i \in 2..Len(queue') : i \in 1..Len(queue') /\ i + 1 \in 2..Len(queue)
      BY <1>1, <1>2
    <3> QED
      BY <1>2, <3>1 DEF PlanInv, QueueInv
  <2>4. \A r \in Request : settled'[r].kind = "unsent" => CallsIn(sends', r) = {}
    BY <1>6 DEF PlanInv, QueueInv
  <2> QED
    BY <2>1, <2>2, <2>3, <2>4 DEF QueueInv
<1>8. HeadInv'
  <2>1. send'.step = "idle"
    BY <1>3 DEF Plan!Idle
  <2>2. queue' # <<>> => CallsIn(sends', queue'[1]) = {}
    <3>1. queue' # <<>> => 1 \in 1..Len(queue') /\ 2 \in 2..Len(queue)
      BY <1>1, <1>2
    <3>2. queue' # <<>> => queue'[1] = queue[2]
      BY <1>2, <3>1
    <3> QED
      BY <3>1, <3>2 DEF PlanInv, QueueInv
  <2> QED
    BY <2>1, <2>2 DEF HeadInv, Untried
<1>9. RetryInv'
  BY DEF PlanInv, RetryInv, NoTwice, Aside
<1>10. AnswerInv'
  BY <1>1, <1>3 DEF PlanInv, TypeInv, AnswerInv, Untried
<1>11. Plan!SentUnderQuota' /\ (pause + lull >= Gap)'
  BY DEF PlanInv, Plan!SentUnderQuota
<1>12. Flags' /\ FlagInv'
  <2>1. send'.step = "idle"
    BY <1>3 DEF Plan!Idle
  <2> QED
    BY <2>1, Zenon DEF PlanInv, Flags, FlagInv, Aside
<1> QED
  BY <1>5, <1>7, <1>8, <1>9, <1>10, <1>11, <1>12 DEF PlanInv

LEMMA MoveKeeps ==
    ASSUME PlanInv, queue # <<>>, NEW step, NEW rest \in 0..Late,
           NEW held \in Answers \cup {None},
           step \in {"quota", "cooldown", "recheck", "pace", "requota"},
           Plan!GoTo(step, rest, held), HeadInv', FlagInv', Aside, UNCHANGED <<pause, sends, lull>>
    PROVE  PlanInv'
<1>1. UNCHANGED <<queue, settled>> /\ send' = Plan!At(step, rest, held)
  BY DEF Plan!GoTo
<1>2. TypeInv'
  BY <1>1 DEF Aside, PlanInv, TypeInv, Plan!At
<1>3. QueueInv' /\ RetryInv' /\ AnswerInv'
  BY <1>1 DEF PlanInv, QueueInv, RetryInv, AnswerInv, NoTwice, Aside
<1>4. Plan!SentUnderQuota' /\ (pause + lull >= Gap)'
  BY DEF PlanInv, Plan!SentUnderQuota
<1>5. Flags'
  BY Zenon DEF PlanInv, Flags, Aside
<1> QED
  BY <1>2, <1>3, <1>4, <1>5 DEF PlanInv

LEMMA SendKeeps ==
    ASSUME PlanInv, queue # <<>>, NEW step \in {"sent", "retry"},
           NEW held \in Answers \cup {None}, Plan!GoTo(step, 0, held), Aside,
           pause' = Gap, lull' = 0,
           sends' = Append(sends, [req |-> Plan!Active, model |-> quota'.model,
                                   blocked |-> Plan!Blocked(quota')]),
           quota' \in Readings, quota'.model = ModelOf[queue[1]], quota'.reset = None,
           step = "sent" => Untried,
           step = "retry" => Once /\ NoTwice /\ recoveryUsed'
    PROVE  PlanInv'
<1> DEFINE r == queue[1]
           entry == [req |-> r, model |-> ModelOf[r], blocked |-> FALSE]
<1>1. /\ queue \in Seq(Request) /\ Len(queue) \in Nat \ {0}
      /\ Plan!Active = r /\ r \in Request /\ sends \in Seq(SendRecord)
  BY DEF PlanInv, TypeInv, Plan!Active
<1>2. entry \in SendRecord /\ sends' = Append(sends, entry)
  BY <1>1 DEF SendRecord, Models, Plan!Blocked
<1>3. UNCHANGED <<queue, settled>> /\ send' = Plan!At(step, 0, held)
  BY DEF Plan!GoTo
<1> HIDE DEF r
<1>4. /\ CallsIn(sends', r) # {} /\ Count(sends', r) = Count(sends, r) + 1
      /\ \A q \in Request : q # r => CallsIn(sends', q) = CallsIn(sends, q)
                                   /\ Count(sends', q) = Count(sends, q)
  <2>1. \A q : /\ entry.req # q => CallsIn(sends', q) = CallsIn(sends, q)
               /\ entry.req = q =>
                     /\ CallsIn(sends', q) = CallsIn(sends, q) \cup {Len(sends) + 1}
                     /\ Count(sends', q) = Count(sends, q) + 1
    <3>1. ASSUME NEW q
          PROVE  /\ entry.req # q => CallsIn(Append(sends, entry), q) = CallsIn(sends, q)
                 /\ entry.req = q =>
                       /\ CallsIn(Append(sends, entry), q) = CallsIn(sends, q) \cup {Len(sends) + 1}
                       /\ Count(Append(sends, entry), q) = Count(sends, q) + 1
      <4>1. PICK e \in SendRecord : e = entry
        BY <1>2
      <4>2. sends \in Seq(SendRecord)
        BY <1>1
      <4> HIDE DEF entry
      <4>3. /\ e.req # q => CallsIn(Append(sends, e), q) = CallsIn(sends, q)
            /\ e.req = q => /\ CallsIn(Append(sends, e), q) = CallsIn(sends, q) \cup {Len(sends) + 1}
                            /\ Count(Append(sends, e), q) = Count(sends, q) + 1
        BY <4>2, CallsAppended
      <4> QED
        BY <4>1, <4>3
    <3> QED
      BY <1>2, <3>1
  <2>2. entry.req = r
    OBVIOUS
  <2> QED
    BY <2>1, <2>2 DEF Count
<1>5. \A q \in Request : Count(sends, q) \in Nat /\ (Count(sends, q) = 0 <=> CallsIn(sends, q) = {})
  BY <1>1, CallsCounted
<1>6. /\ step = "sent" => Count(sends', r) = 1
      /\ step = "retry" => Count(sends', r) = 2 /\ recoveryUsed'
                           /\ \A q \in Request : q # r => Count(sends', q) # 2
  BY <1>1, <1>4, <1>5 DEF Untried, Once, NoTwice, r
<1>7. TypeInv'
  <2>1. sends' \in Seq(SendRecord)
    BY <1>1, <1>2
  <2> QED
    BY <1>3, <2>1, PlanAssumption, SMTT(60) DEF Aside, PlanInv, TypeInv, Plan!At
<1>8. QueueInv'
  <2>1. \A i \in 1..Len(queue) : queue[i] \in Request
    BY <1>1
  <2>2. \A i \in 2..Len(queue) : queue[i] # r
    <3>1. \A i \in 2..Len(queue) : i # 1 /\ i \in 1..Len(queue) /\ 1 \in 1..Len(queue)
      BY <1>1
    <3> QED
      BY <3>1 DEF PlanInv, QueueInv, r
  <2>3. \A i \in 2..Len(queue) : CallsIn(sends', queue[i]) = {}
    <3>1. \A i \in 2..Len(queue) : i \in 1..Len(queue)
      BY <1>1
    <3> QED
      BY <1>4, <2>1, <2>2, <3>1 DEF PlanInv, QueueInv
  <2>4. settled[r].kind # "unsent"
    BY <1>1 DEF PlanInv, QueueInv, r
  <2>5. \A q \in Request : settled[q].kind = "unsent" => CallsIn(sends', q) = {}
    BY <1>4, <2>4 DEF PlanInv, QueueInv
  <2> QED
    BY <1>3, <2>3, <2>5 DEF PlanInv, QueueInv
<1>9. HeadInv'
  BY <1>3, <1>4, <1>6 DEF HeadInv, Untried, Once, Plan!At, r
<1>10. RetryInv'
  <2>1. ASSUME NEW q \in Request PROVE Count(sends', q) <= 2
    BY <1>1, <1>4, <1>6 DEF PlanInv, RetryInv
  <2>2. ASSUME NEW a \in Request, NEW b \in Request,
               Count(sends', a) = 2, Count(sends', b) = 2
        PROVE  a = b
    BY <1>1, <1>4, <1>6, <2>2 DEF PlanInv, RetryInv
  <2>3. ASSUME ~recoveryUsed' PROVE \A q \in Request : Count(sends', q) # 2
    <3>1. step = "sent" /\ NoTwice
      BY <1>6, <2>3 DEF Aside, PlanInv, RetryInv
    <3> QED
      BY <1>4, <1>6, <3>1 DEF NoTwice
  <2> QED
    BY <2>1, <2>2, <2>3 DEF RetryInv, NoTwice
<1>11. AnswerInv'
  BY <1>3, <1>4 DEF PlanInv, AnswerInv
<1>12. Plan!SentUnderQuota'
  <2>1. \A i \in DOMAIN sends' :
           (i \in DOMAIN sends /\ sends'[i] = sends[i]) \/ sends'[i] = entry
    BY <1>1, <1>2
  <2> QED
    BY <2>1 DEF PlanInv, Plan!SentUnderQuota
<1>13. (pause + lull >= Gap)'
  BY PlanAssumption
<1>14. Flags' /\ FlagInv'
  <2>1. send'.step \in {"sent", "retry"}
    BY <1>3 DEF Plan!At
  <2> QED
    BY <2>1, Zenon DEF PlanInv, Flags, FlagInv, Aside
<1> QED
  BY <1>7, <1>8, <1>9, <1>10, <1>11, <1>12, <1>13, <1>14 DEF PlanInv

-----------------------------------------------------------------------------
(* One step at a time.                                                     *)

LEMMA SubmitKeeps == ASSUME PlanInv, NEW r \in Request, Plan!Submit(r) PROVE PlanInv'
<1>1. /\ queue' = Append(queue, r) /\ queue \in Seq(Request) /\ settled[r] = Plan!Unsent
      /\ settled' = [settled EXCEPT ![r] = Plan!Waiting]
      /\ UNCHANGED <<canonical, send, aborted, quota, circuit, recoveryUsed, pause, sends, lull>>
  BY DEF Plan!Submit, PlanInv, TypeInv
<1>2. settled[r].kind = "unsent" /\ CallsIn(sends, r) = {}
  BY <1>1 DEF Plan!Unsent, PlanInv, QueueInv
<1>3. /\ Len(queue) \in Nat /\ queue' \in Seq(Request) /\ Len(queue') = Len(queue) + 1
      /\ queue'[Len(queue) + 1] = r
      /\ \A i \in 1..Len(queue) : queue'[i] = queue[i] /\ queue[i] \in Request /\ queue[i] # r
  <2>1. \A i \in 1..Len(queue) : queue[i] # r
    BY <1>2 DEF PlanInv, QueueInv
  <2> QED
    BY <1>1, <2>1
<1>4. /\ settled' \in [Request -> {Plan!Unsent, Plan!Waiting} \cup Told3]
      /\ settled'[r].kind = "waiting"
      /\ \A q \in Request : q # r => settled'[q] = settled[q]
  BY <1>1 DEF PlanInv, TypeInv, Plan!Waiting
<1>5. TypeInv'
  BY <1>1, <1>3, <1>4 DEF PlanInv, TypeInv
<1>6. QueueInv'
  <2>1. \A i \in 1..Len(queue') : i \in 1..Len(queue) \/ i = Len(queue) + 1
    BY <1>3
  <2>2. \A i, j \in 1..Len(queue') : queue'[i] = queue'[j] => i = j
    BY <1>3, <2>1 DEF PlanInv, QueueInv
  <2>3. \A i \in 1..Len(queue') : settled'[queue'[i]].kind # "unsent"
    BY <1>3, <1>4, <2>1 DEF PlanInv, QueueInv
  <2>4. \A i \in 2..Len(queue') : CallsIn(sends', queue'[i]) = {}
    <3>1. \A i \in 2..Len(queue') : i \in 2..Len(queue) \/ i = Len(queue) + 1
      BY <1>3
    <3>2. \A i \in 2..Len(queue) : i \in 1..Len(queue)
      BY <1>3
    <3> QED
      BY <1>1, <1>2, <1>3, <3>1, <3>2 DEF PlanInv, QueueInv
  <2>5. \A q \in Request : settled'[q].kind = "unsent" => CallsIn(sends', q) = {}
    BY <1>1, <1>4 DEF PlanInv, QueueInv
  <2> QED
    BY <2>2, <2>3, <2>4, <2>5 DEF QueueInv
<1>7. HeadInv'
  <2>1. CASE queue = <<>>
    <3>1. queue'[1] = r /\ send.step = "idle"
      BY <1>1, <1>3, <2>1 DEF PlanInv, HeadInv
    <3> QED
      BY <1>1, <1>2, <3>1 DEF HeadInv, Untried
  <2>2. CASE queue # <<>>
    <3>1. queue'[1] = queue[1] /\ queue' # <<>>
      BY <1>1, <2>2
    <3> QED
      BY <1>1, <2>2, <3>1 DEF PlanInv, HeadInv, Untried, Once, NoTwice
  <2> QED
    BY <2>1, <2>2
<1>8. RetryInv' /\ Plan!SentUnderQuota' /\ (pause + lull >= Gap)'
  BY <1>1 DEF PlanInv, RetryInv, NoTwice, Plan!SentUnderQuota
<1>9. AnswerInv'
  BY <1>1, <1>4 DEF PlanInv, AnswerInv
<1>10. Flags' /\ FlagInv'
  BY <1>1, Zenon DEF PlanInv, Flags, FlagInv
<1> QED
  BY <1>5, <1>6, <1>7, <1>8, <1>9, <1>10 DEF PlanInv

LEMMA AbortKeeps == ASSUME PlanInv, NEW r \in Request, Plan!Abort(r) PROVE PlanInv'
<1>1. /\ settled' = [settled EXCEPT ![r] = Plan!Aborted] /\ aborted' = aborted \cup {r}
      /\ UNCHANGED <<canonical, queue, send, quota, circuit, recoveryUsed, pause, sends, lull>>
  BY DEF Plan!Abort
<1>2. /\ settled' \in [Request -> {Plan!Unsent, Plan!Waiting} \cup Told3]
      /\ settled'[r] = Plan!Aborted /\ \A q \in Request : q # r => settled'[q] = settled[q]
  BY <1>1 DEF PlanInv, TypeInv, Told3
<1>3. settled'[r].kind # "unsent" /\ Harmless(settled'[r])
  BY <1>2, ThrownIsHarmless DEF Plan!Aborted, Plan!Thrown
<1>4. TypeInv'
  BY <1>1, <1>2 DEF PlanInv, TypeInv
<1>5. QueueInv'
  <2>1. \A i \in 1..Len(queue) : queue[i] \in Request
    BY DEF PlanInv, TypeInv
  <2> QED
    BY <1>1, <1>2, <1>3, <2>1, ZenonT(60) DEF PlanInv, QueueInv
<1>6. HeadInv' /\ RetryInv' /\ Plan!SentUnderQuota' /\ (pause + lull >= Gap)'
  BY <1>1 DEF PlanInv, HeadInv, Untried, Once, NoTwice, RetryInv, Plan!SentUnderQuota
<1>7. AnswerInv'
  BY <1>1, <1>2, <1>3 DEF PlanInv, AnswerInv
<1>8. Flags' /\ FlagInv'
  BY <1>1, Zenon DEF PlanInv, Flags, FlagInv
<1> QED
  BY <1>4, <1>5, <1>6, <1>7, <1>8 DEF PlanInv

LEMMA TickKeeps == ASSUME PlanInv, Plan!Tick PROVE PlanInv'
<1>1. /\ send' = [send EXCEPT !.rest = Plan!Less(@)] /\ pause' = Plan!Less(pause)
      /\ lull' = Plan!Min({lull + 1, Gap})
      /\ UNCHANGED <<canonical, queue, settled, aborted, circuit, recoveryUsed, sends>>
  BY DEF Plan!Tick
<1>2. pause \in 0..Gap /\ lull \in 0..Gap /\ Gap \in Nat \ {0} /\ send.rest \in 0..Late
  BY PlanAssumption DEF PlanInv, TypeInv
<1>3. lull' = IF lull + 1 <= Gap THEN lull + 1 ELSE Gap
  BY <1>1, <1>2, MinOfTwo
<1>4. /\ send'.rest = Plan!Less(send.rest) /\ send'.step = send.step /\ send'.held = send.held
      /\ send' \in [step : {"idle", "quota", "cooldown", "recheck", "pace", "sent",
                            "requota", "retry"},
                    rest : 0..Late, held : Answers \cup {None}]
  <2>1. Plan!Less(send.rest) \in 0..Late
    BY <1>2, PlanAssumption DEF Plan!Less
  <2> QED
    BY <1>1, <2>1 DEF PlanInv, TypeInv
<1>5. /\ quota' \in {None} \cup Readings
      /\ quota \in Readings /\ quota.reset = None =>
            quota' = quota \/ (quota' \in Readings /\ quota'.model = quota.model /\ quota'.reset = None)
  <2>1. CASE quota = None
    <3>1. quota' = None
      BY <2>1 DEF Plan!Tick
    <3> QED
      BY <2>1, <3>1
  <2>2. CASE quota # None
    <3> DEFINE age == Plan!Min({quota.age + 1, Cache})
               reset == IF quota.reset = None THEN None ELSE Plan!Less(quota.reset)
    <3>1. quota' = [quota EXCEPT !.age = age, !.reset = reset]
      BY <2>2 DEF Plan!Tick
    <3>2. quota \in Readings
      BY <2>2 DEF PlanInv, TypeInv
    <3>3. age \in 0..Cache
      BY <3>2, PlanAssumption, MinOfTwo DEF Readings
    <3>4. reset \in {None} \cup (0..Late)
      BY <3>2, PlanAssumption DEF Readings, Plan!Less
    <3>5. quota.reset = None => reset = None
      OBVIOUS
    <3> HIDE DEF age, reset
    <3> QED
      BY <3>1, <3>2, <3>3, <3>4, <3>5 DEF Readings
  <2> QED
    BY <2>1, <2>2
<1>6. TypeInv'
  BY <1>1, <1>2, <1>3, <1>4, <1>5 DEF PlanInv, TypeInv, Plan!Less
<1>7. QueueInv' /\ RetryInv' /\ AnswerInv' /\ Plan!SentUnderQuota'
  BY <1>1 DEF PlanInv, QueueInv, RetryInv, NoTwice, AnswerInv, Plan!SentUnderQuota
<1>8. HeadInv'
  <2>1. lull + send.rest >= Gap => lull' + send'.rest >= Gap
    BY <1>2, <1>3, <1>4 DEF Plan!Less
  <2>2. pause <= send.rest => pause' <= send'.rest
    BY <1>1, <1>2, <1>4 DEF Plan!Less
  <2>3. lull = Gap => lull' = Gap
    BY <1>2, <1>3
  <2>4. send.step = "pace" =>
          /\ quota' \in Readings /\ quota'.model = ModelOf[queue[1]] /\ quota'.reset = None
    BY <1>5 DEF PlanInv, HeadInv
  <2>5. (Untried' <=> Untried) /\ (Once' <=> Once) /\ (NoTwice' <=> NoTwice)
    BY <1>1 DEF Untried, Once, NoTwice
  <2>6. HeadInv
    BY DEF PlanInv
  <2> QED
    BY <1>1, <1>4, <2>1, <2>2, <2>3, <2>4, <2>5, <2>6 DEF HeadInv
<1>9. (pause + lull >= Gap)'
  BY <1>1, <1>2, <1>3 DEF PlanInv, Plan!Less
<1>10. Flags' /\ FlagInv'
  BY <1>1, <1>4, Zenon DEF PlanInv, Flags, FlagInv
<1> QED
  BY <1>6, <1>7, <1>8, <1>9, <1>10 DEF PlanInv

LEMMA HeadTyped ==
    ASSUME PlanInv, queue # <<>>
    PROVE  /\ Plan!Active = queue[1] /\ queue[1] \in Request
           /\ Count(sends, queue[1]) \in Nat
           /\ Untried <=> Count(sends, queue[1]) = 0
<1>1. queue \in Seq(Request) /\ sends \in Seq(SendRecord)
  BY DEF PlanInv, TypeInv
<1> QED
  BY <1>1, CallsCounted DEF Plan!Active, Untried

\* A reading that admits a call of the head.
Admitting(reading) ==
    reading \in Readings /\ reading.model = ModelOf[queue[1]] /\ reading.reset = None

LEMMA DispatchKeeps ==
    ASSUME PlanInv, queue # <<>>, NEW step \in {"sent", "retry"},
           NEW held \in Answers \cup {None}, Plan!Dispatch(step, held), Aside,
           Admitting(quota'), step = "sent" => Untried,
           step = "retry" => Once /\ NoTwice /\ recoveryUsed'
    PROVE  PlanInv'
<1>1. CASE Plan!Active \in aborted
  <2>1. Plan!End(Plan!Aborted) /\ UNCHANGED <<pause, sends, lull>>
    BY <1>1 DEF Plan!Dispatch
  <2>2. Harmless(Plan!Aborted) /\ Plan!Aborted \in Told3
    BY ThrownIsHarmless DEF Plan!Aborted, Told3
  <2> QED
    BY <2>1, <2>2, EndKeeps
<1>2. CASE Plan!Active \notin aborted
  <2>1. /\ Plan!GoTo(step, 0, held) /\ pause' = Gap /\ lull' = 0
        /\ sends' = Append(sends, [req |-> Plan!Active, model |-> quota'.model,
                                   blocked |-> Plan!Blocked(quota')])
    BY <1>2 DEF Plan!Dispatch
  <2> QED
    BY <2>1, SendKeeps DEF Admitting
<1> QED
  BY <1>1, <1>2

LEMMA PaceKeeps ==
    ASSUME PlanInv, queue # <<>>, Untried, Plan!Pace, Aside, Admitting(quota')
    PROVE  PlanInv'
<1>1. CASE pause > 0
  <2>1. Plan!GoTo("pace", pause, None) /\ UNCHANGED <<pause, sends, lull>>
    BY <1>1 DEF Plan!Pace
  <2>2. pause \in 0..Late
    BY PlanAssumption DEF PlanInv, TypeInv
  <2>3. HeadInv'
    BY <2>1, <2>2, PlanAssumption DEF HeadInv, Plan!GoTo, Plan!At, Untried, Admitting
  <2>4. FlagInv'
    BY <2>1 DEF FlagInv, Plan!GoTo, Plan!At
  <2> QED
    BY <2>1, <2>2, <2>3, <2>4, MoveKeeps
<1>2. CASE ~(pause > 0)
  BY <1>2, DispatchKeeps DEF Plan!Pace
<1> QED
  BY <1>1, <1>2

LEMMA RecoverKeeps ==
    ASSUME PlanInv, queue # <<>>, NEW rest \in Nat, NEW held \in Dead \cup {None},
           Plan!Recover(rest, held), UNCHANGED <<canonical, aborted>>,
           quota' \in {None} \cup Readings, held = None => Untried,
           held # None => Once /\ lull + rest >= Gap
    PROVE  PlanInv'
<1>1. Aside /\ UNCHANGED <<pause, sends, lull>>
  BY DEF Plan!Recover, Aside, Circuits
<1>2. CASE recoveryUsed \/ rest > Recovery
  <2>1. Plan!End(Plan!Refused)
    BY <1>2 DEF Plan!Recover
  <2>2. Harmless(Plan!Refused) /\ Plan!Refused \in Told3
    BY ThrownIsHarmless DEF Plan!Refused, Told3
  <2> QED
    BY <1>1, <2>1, <2>2, EndKeeps
<1>3. CASE ~(recoveryUsed \/ rest > Recovery)
  <2>1. Plan!GoTo("cooldown", rest, held) /\ recoveryUsed'
    <3>1. rest <= Recovery
      BY <1>3, PlanAssumption
    <3>2. recoveryUsed'
      BY <3>1, Zenon DEF Plan!Recover
    <3>3. Plan!GoTo("cooldown", rest, held)
      BY <1>3 DEF Plan!Recover
    <3> QED
      BY <3>2, <3>3
  <2>2. rest \in 0..Late /\ held \in Answers \cup {None}
    BY <1>3, PlanAssumption DEF Dead
  <2>3. NoTwice
    BY <1>3 DEF PlanInv, RetryInv
  <2>4. HeadInv'
    BY <1>1, <2>1, <2>3 DEF HeadInv, Plan!GoTo, Plan!At, Untried, Once, NoTwice
  <2>5. FlagInv'
    <3>1. send'.step = "cooldown"
      BY <2>1 DEF Plan!GoTo, Plan!At
    <3> QED
      BY <2>1, <3>1, Zenon DEF FlagInv
  <2> QED
    BY <1>1, <2>1, <2>2, <2>4, <2>5, MoveKeeps
<1> QED
  BY <1>2, <1>3

LEMMA AdmitKeeps ==
    ASSUME PlanInv, queue # <<>>, Untried, Plan!Admit, UNCHANGED <<canonical, aborted>>,
           quota' \in Readings, quota'.model = ModelOf[queue[1]]
    PROVE  PlanInv'
<1>1. CASE quota'.reset # None
  <2>1. Plan!Recover(quota'.reset + 1, None)
    BY <1>1 DEF Plan!Admit, Plan!Blocked, Plan!UntilReset
  <2>2. quota'.reset + 1 \in Nat
    BY <1>1, PlanAssumption DEF Readings
  <2> QED
    BY <2>1, <2>2, RecoverKeeps
<1>2. CASE quota'.reset = None
  <2>1. Plan!Pace /\ UNCHANGED <<circuit, recoveryUsed>>
    BY <1>2 DEF Plan!Admit, Plan!Blocked
  <2>2. Aside
    <3>1. circuit' \in Circuits /\ quota' \in {None} \cup Readings
      BY <2>1 DEF PlanInv, TypeInv
    <3>2. recoveryUsed' \in BOOLEAN /\ (recoveryUsed => recoveryUsed')
      BY <2>1, Zenon DEF PlanInv, Flags
    <3> QED
      BY <3>1, <3>2 DEF Aside
  <2> QED
    BY <1>2, <2>1, <2>2, PaceKeeps DEF Admitting
<1> QED
  BY <1>1, <1>2

LEMMA StartKeeps == ASSUME PlanInv, Plan!Start PROVE PlanInv'
<1>1. queue # <<>> /\ Untried /\ UNCHANGED <<canonical, aborted, quota>>
  BY DEF Plan!Start, PlanInv, HeadInv
<1>2. quota' \in {None} \cup Readings
  BY <1>1 DEF PlanInv, TypeInv
<1> DEFINE barred == Plan!Active \in aborted \/ ~canonical \/ circuit # None
<1>3. ASSUME UNCHANGED <<circuit, recoveryUsed>> PROVE Aside
  <2>1. circuit' \in Circuits
    BY <1>3 DEF PlanInv, TypeInv
  <2>2. recoveryUsed' \in BOOLEAN /\ (recoveryUsed => recoveryUsed')
    BY <1>3, Zenon DEF PlanInv, Flags
  <2> QED
    BY <1>1, <1>2, <2>1, <2>2 DEF Aside
<1>4. CASE barred
  <2> DEFINE said == CASE Plan!Active \in aborted -> Plan!Aborted
                       [] Plan!Active \notin aborted /\ ~canonical -> Plan!Refused
                       [] OTHER -> circuit
  <2>1. Plan!End(said) /\ UNCHANGED <<circuit, recoveryUsed, pause, sends, lull>>
    BY <1>4 DEF Plan!Start
  <2>2. said \in {Plan!Aborted, Plan!Refused} \cup Dead
    BY <1>4 DEF PlanInv, TypeInv, Circuits
  <2>3. said \in Told3 /\ Harmless(said)
    BY <2>2, ThrownIsHarmless, DeadIsHarmless DEF Told3, Dead, Plan!Aborted, Plan!Refused
  <2> HIDE DEF said
  <2> QED
    BY <1>1, <1>3, <2>1, <2>3, EndKeeps
<1>5. CASE ~barred /\ Plan!Fresh(Plan!Active)
  <2>1. Plan!Admit
    BY <1>5 DEF Plan!Start
  <2>2. quota' \in Readings /\ quota'.model = ModelOf[queue[1]]
    BY <1>1, <1>2, <1>5, HeadTyped DEF Plan!Fresh
  <2> QED
    BY <1>1, <2>1, <2>2, AdmitKeeps
<1>6. CASE ~barred /\ ~Plan!Fresh(Plan!Active)
  <2>1. Plan!GoTo("quota", 0, None) /\ UNCHANGED <<circuit, recoveryUsed, pause, sends, lull>>
    BY <1>6 DEF Plan!Start
  <2>2. HeadInv'
    BY <1>1, <2>1 DEF HeadInv, Plan!GoTo, Plan!At, Untried
  <2>3. FlagInv'
    BY <2>1 DEF FlagInv, Plan!GoTo, Plan!At
  <2> QED
    BY <1>1, <1>3, <2>1, <2>2, <2>3, PlanAssumption, MoveKeeps
<1> QED
  BY <1>4, <1>5, <1>6

LEMMA BusyHead == ASSUME PlanInv, send.step # "idle" PROVE queue # <<>>
  BY DEF PlanInv, HeadInv

LEMMA Cooling ==
    ASSUME PlanInv, send.step = "cooldown" \/ send.step = "recheck"
    PROVE  recoveryUsed /\ NoTwice
<1>1. NoTwice
  BY DEF PlanInv, HeadInv
<1>2. recoveryUsed
  BY Zenon DEF PlanInv, FlagInv
<1> QED
  BY <1>1, <1>2

LEMMA QuotaFailsKeeps == ASSUME PlanInv, Plan!QuotaFails PROVE PlanInv'
<1>1. /\ queue # <<>>
      /\ UNCHANGED <<canonical, aborted, quota, recoveryUsed, pause, sends, lull>>
  BY BusyHead DEF Plan!QuotaFails
<1>2. Aside
  <2>1. circuit' \in Circuits /\ quota' \in {None} \cup Readings
    BY <1>1 DEF Plan!QuotaFails, PlanInv, TypeInv, Circuits
  <2>2. recoveryUsed' \in BOOLEAN /\ (recoveryUsed => recoveryUsed')
    BY <1>1, Zenon DEF PlanInv, Flags
  <2> QED
    BY <1>1, <2>1, <2>2 DEF Aside
<1>3. PICK said \in {Plan!Aborted, Plan!Refused} : Plan!End(said)
  BY DEF Plan!QuotaFails
<1>4. said \in Told3 /\ Harmless(said)
  BY <1>3, ThrownIsHarmless DEF Told3, Plan!Aborted, Plan!Refused
<1> QED
  BY <1>1, <1>2, <1>3, <1>4, EndKeeps

LEMMA ReadingTyped ==
    ASSUME PlanInv, queue # <<>>, quota' \in Plan!Reading(ModelOf[Plan!Active])
    PROVE  /\ quota' \in Readings /\ quota'.model = ModelOf[queue[1]]
           /\ quota'.reset \in {None, Soon, Late}
<1>1. Plan!Active = queue[1] /\ queue[1] \in Request
  BY HeadTyped
<1> QED
  BY <1>1, PlanAssumption DEF Plan!Reading, Readings, Models

LEMMA QuotaArrivesKeeps == ASSUME PlanInv, Plan!QuotaArrives PROVE PlanInv'
<1>1. queue # <<>> /\ Untried /\ Plan!Admit /\ UNCHANGED <<canonical, aborted>>
  BY BusyHead DEF Plan!QuotaArrives, PlanInv, HeadInv
<1> QED
  BY <1>1, ReadingTyped, AdmitKeeps DEF Plan!QuotaArrives

LEMMA LimitWaits ==
    ASSUME NEW response \in Answers, NEW reading, reading.reset \in {None, Soon, Late}
    PROVE  Plan!LimitWait(response, reading) \in Nat /\ Plan!LimitWait(response, reading) >= Gap
<1> DEFINE overload == Plan!IsRejectedOverload(response)
           a == IF overload THEN OverloadWait ELSE 0
           b == IF reading.reset # None THEN reading.reset + 1
                ELSE IF overload THEN OverloadWait ELSE Recovery
           c == response.retryAfter
<1>1. a \in Nat /\ c \in Nat
  BY PlanAssumption
<1>2. b \in Nat /\ b >= Gap
  BY PlanAssumption
<1>3. Plan!LimitWait(response, reading) = Plan!Max({a, b, c})
  BY DEF Plan!LimitWait, Plan!Blocked, Plan!UntilReset
<1> HIDE DEF a, b, c
<1>4. Plan!Max({a, b, c}) \in Nat /\ b <= Plan!Max({a, b, c})
  BY <1>1, <1>2, MaxOfThree
<1> QED
  BY <1>2, <1>3, <1>4, PlanAssumption

LEMMA RequotaKeeps == ASSUME PlanInv, Plan!RequotaArrives PROVE PlanInv'
<1>1. /\ queue # <<>> /\ Once /\ send.held \in Dead /\ UNCHANGED <<canonical, aborted>>
      /\ send.held \in Answers /\ send.held # None
  BY BusyHead, PlanAssumption DEF Plan!RequotaArrives, PlanInv, HeadInv, Dead
<1> DEFINE rest == Plan!LimitWait(send.held, quota')
<1>2. quota' \in Readings /\ rest \in Nat /\ rest >= Gap
  BY <1>1, ReadingTyped, LimitWaits DEF Plan!RequotaArrives
<1>3. CASE Plan!IsRejectedOverload(send.held) /\ rest > Recovery
  <2>1. Plan!End(send.held) /\ UNCHANGED <<circuit, recoveryUsed, pause, sends, lull>>
    BY <1>3 DEF Plan!RequotaArrives
  <2>2. Aside
    <3>1. circuit' \in Circuits /\ quota' \in {None} \cup Readings
      BY <1>2, <2>1 DEF PlanInv, TypeInv
    <3>2. recoveryUsed' \in BOOLEAN /\ (recoveryUsed => recoveryUsed')
      BY <2>1, Zenon DEF PlanInv, Flags
    <3> QED
      BY <1>1, <3>1, <3>2 DEF Aside
  <2>3. Harmless(send.held) /\ send.held \in Told3
    BY <1>1, DeadIsHarmless DEF Told3
  <2> QED
    BY <1>1, <2>1, <2>2, <2>3, EndKeeps
<1>4. CASE ~(Plan!IsRejectedOverload(send.held) /\ rest > Recovery)
  <2>1. Plan!Recover(rest, send.held)
    BY <1>4 DEF Plan!RequotaArrives
  <2>2. lull + rest >= Gap
    BY <1>2, PlanAssumption DEF PlanInv, TypeInv
  <2> HIDE DEF rest
  <2> QED
    BY <1>1, <1>2, <2>1, <2>2, RecoverKeeps
<1> QED
  BY <1>3, <1>4

LEMMA WakeUpKeeps == ASSUME PlanInv, Plan!WakeUp PROVE PlanInv'
<1>1. queue # <<>> /\ UNCHANGED <<canonical, aborted, quota, circuit, recoveryUsed>>
  BY BusyHead DEF Plan!WakeUp
<1>2. Aside
  <2>1. circuit' \in Circuits /\ quota' \in {None} \cup Readings
    BY <1>1 DEF PlanInv, TypeInv
  <2>2. recoveryUsed' \in BOOLEAN /\ (recoveryUsed => recoveryUsed')
    BY <1>1, Zenon DEF PlanInv, Flags
  <2> QED
    BY <1>1, <2>1, <2>2 DEF Aside
<1>3. CASE Plan!Active \in aborted
  <2>1. Plan!End(Plan!Aborted) /\ UNCHANGED <<pause, sends, lull>>
    BY <1>3 DEF Plan!WakeUp
  <2>2. Harmless(Plan!Aborted) /\ Plan!Aborted \in Told3
    BY ThrownIsHarmless DEF Plan!Aborted, Told3
  <2> QED
    BY <1>1, <1>2, <2>1, <2>2, EndKeeps
<1>4. CASE Plan!Active \notin aborted /\ send.step = "pace"
  <2>1. Plan!Dispatch("sent", None)
    BY <1>4 DEF Plan!WakeUp
  <2>2. Admitting(quota') /\ Untried
    BY <1>1, <1>4 DEF PlanInv, HeadInv, Admitting
  <2> QED
    BY <1>1, <1>2, <2>1, <2>2, DispatchKeeps
<1>5. CASE Plan!Active \notin aborted /\ send.step = "cooldown"
  <2>1. /\ Plan!GoTo("recheck", 0, send.held) /\ UNCHANGED <<pause, sends, lull>>
        /\ send.rest = 0
    BY <1>5 DEF Plan!WakeUp
  <2>2. /\ recoveryUsed /\ NoTwice /\ (send.held = None => Untried)
        /\ send.held # None => send.held \in Dead /\ Once /\ lull >= Gap
    <3>1. recoveryUsed /\ NoTwice
      BY <1>5, Cooling
    <3>2. (send.held = None => Untried) /\ (send.held # None => send.held \in Dead /\ Once)
      BY <1>5 DEF PlanInv, HeadInv
    <3>3. send.held # None => lull >= Gap
      BY <1>5, <2>1, PlanAssumption DEF PlanInv, HeadInv, TypeInv
    <3> QED
      BY <3>1, <3>2, <3>3
  <2>3. lull \in 0..Gap /\ send.held \in Answers \cup {None} /\ 0 \in 0..Late
    BY PlanAssumption DEF PlanInv, TypeInv
  <2>4. HeadInv'
    BY <1>1, <2>1, <2>2, <2>3, PlanAssumption
       DEF HeadInv, Plan!GoTo, Plan!At, Untried, Once, NoTwice
  <2>5. FlagInv'
    <3>1. send'.step = "recheck" /\ recoveryUsed'
      BY <1>1, <2>1, <2>2 DEF Plan!GoTo, Plan!At
    <3> QED
      BY <3>1, Zenon DEF FlagInv
  <2> QED
    BY <1>1, <1>2, <2>1, <2>3, <2>4, <2>5, MoveKeeps
<1> QED
  BY <1>3, <1>4, <1>5 DEF Plan!WakeUp

LEMMA RecheckKeeps == ASSUME PlanInv, Plan!RecheckArrives PROVE PlanInv'
<1>1. /\ queue # <<>> /\ UNCHANGED <<canonical, aborted, recoveryUsed>>
      /\ recoveryUsed /\ NoTwice /\ (send.held = None => Untried)
      /\ send.held # None => send.held \in Dead /\ Once
  <2>1. queue # <<>> /\ send.step = "recheck" /\ UNCHANGED <<canonical, aborted, recoveryUsed>>
    BY BusyHead DEF Plan!RecheckArrives
  <2>2. recoveryUsed /\ NoTwice
    BY <2>1, Cooling
  <2>3. (send.held = None => Untried) /\ (send.held # None => send.held \in Dead /\ Once)
    BY <2>1 DEF PlanInv, HeadInv
  <2> QED
    BY <2>1, <2>2, <2>3
<1>2. quota' \in Readings /\ quota'.model = ModelOf[queue[1]]
  BY <1>1, ReadingTyped DEF Plan!RecheckArrives
<1>3. ASSUME circuit' \in Circuits PROVE Aside
  <2>1. recoveryUsed' \in BOOLEAN /\ (recoveryUsed => recoveryUsed')
    BY <1>1, Zenon DEF PlanInv, Flags
  <2> QED
    BY <1>1, <1>2, <1>3, <2>1 DEF Aside
<1>4. CASE Plan!Blocked(quota')
  <2>1. circuit' = Plan!Refused /\ Plan!End(Plan!Refused) /\ UNCHANGED <<pause, sends, lull>>
    BY <1>4 DEF Plan!RecheckArrives
  <2>2. Harmless(Plan!Refused) /\ Plan!Refused \in Told3
    BY ThrownIsHarmless DEF Plan!Refused, Told3
  <2> QED
    BY <1>1, <1>3, <2>1, <2>2, EndKeeps DEF Circuits
<1>5. CASE ~Plan!Blocked(quota') /\ send.held = None
  <2>1. circuit' = None /\ Plan!Pace
    BY <1>5 DEF Plan!RecheckArrives
  <2>2. Admitting(quota')
    BY <1>2, <1>5 DEF Admitting, Plan!Blocked
  <2> QED
    BY <1>1, <1>3, <1>5, <2>1, <2>2, PaceKeeps DEF Circuits
<1>6. CASE ~Plan!Blocked(quota') /\ send.held # None
  <2>1. circuit' = send.held /\ Plan!Dispatch("retry", send.held)
    BY <1>6 DEF Plan!RecheckArrives
  <2>2. Admitting(quota') /\ send.held \in Answers \cup {None} /\ circuit' \in Circuits
    BY <1>1, <1>2, <1>6, <2>1 DEF Admitting, Plan!Blocked, Dead, Circuits
  <2>3. recoveryUsed'
    BY <1>1, Zenon
  <2> QED
    BY <1>1, <1>3, <1>6, <2>1, <2>2, <2>3, DispatchKeeps
<1> QED
  BY <1>4, <1>5, <1>6

LEMMA LimitsAreDead ==
    ASSUME NEW response \in Answers
    PROVE  /\ Plan!Limits(response) \/ response.status = 402 => response \in Dead
           /\ ~Plan!Succeeds(response) => response \in Dead
  BY PlanAssumption DEF Plan!Limits, Plan!IsRejectedOverload, Plan!Succeeds, Dead, IsSuccess

LEMMA AnswerKeeps == ASSUME PlanInv, Plan!AnswerArrives PROVE PlanInv'
<1>1. /\ queue # <<>> /\ send.step = "sent" /\ Once /\ ~Untried
      /\ UNCHANGED <<canonical, aborted, quota, recoveryUsed, pause, sends, lull>>
  <2>1. queue # <<>> /\ Once
    BY BusyHead DEF Plan!AnswerArrives, PlanInv, HeadInv
  <2>2. ~Untried
    BY <2>1, HeadTyped DEF Once
  <2> QED
    BY <2>1, <2>2 DEF Plan!AnswerArrives
<1>2. PICK response \in Answers :
        /\ circuit' = IF Plan!Limits(response) \/ response.status = 402 THEN response ELSE circuit
        /\ IF Plan!Limits(response) /\ ~recoveryUsed
           THEN Plan!GoTo("requota", 0, response)
           ELSE Plan!End(response)
  BY DEF Plan!AnswerArrives
<1>3. Aside
  <2>1. circuit' \in Circuits /\ quota' \in {None} \cup Readings
    BY <1>1, <1>2, LimitsAreDead DEF PlanInv, TypeInv, Circuits
  <2>2. recoveryUsed' \in BOOLEAN /\ (recoveryUsed => recoveryUsed')
    BY <1>1, Zenon DEF PlanInv, Flags
  <2> QED
    BY <1>1, <2>1, <2>2 DEF Aside
<1>4. CASE Plan!Limits(response) /\ ~recoveryUsed
  <2>1. Plan!GoTo("requota", 0, response) /\ response \in Dead
    BY <1>2, <1>4, LimitsAreDead
  <2>2. send' = Plan!At("requota", 0, response) /\ UNCHANGED queue
    BY <2>1 DEF Plan!GoTo
  <2>3. HeadInv'
    BY <1>1, <2>1, <2>2 DEF HeadInv, Plan!At, Once
  <2>4. FlagInv'
    <3>1. send'.step = "requota"
      BY <2>2 DEF Plan!At
    <3> QED
      BY <1>1, <1>4, <3>1, Zenon DEF FlagInv
  <2> QED
    BY <1>1, <1>3, <2>1, <2>3, <2>4, PlanAssumption, MoveKeeps
<1>5. CASE ~(Plan!Limits(response) /\ ~recoveryUsed)
  <2>1. Plan!End(response) /\ response \in Told3
    BY <1>2, <1>5 DEF Told3
  <2> QED
    BY <1>1, <1>3, <2>1, EndKeeps
<1> QED
  BY <1>4, <1>5

LEMMA RetryKeeps == ASSUME PlanInv, Plan!RetryArrives PROVE PlanInv'
<1>1. /\ queue # <<>> /\ ~Untried
      /\ UNCHANGED <<canonical, aborted, quota, recoveryUsed, pause, sends, lull>>
  BY BusyHead DEF Plan!RetryArrives, PlanInv, HeadInv
<1>2. PICK response \in Answers :
        /\ circuit' = IF Plan!Succeeds(response) THEN None ELSE response
        /\ Plan!End(response)
  BY DEF Plan!RetryArrives
<1>3. Aside
  <2>1. circuit' \in Circuits /\ quota' \in {None} \cup Readings
    BY <1>1, <1>2, LimitsAreDead DEF PlanInv, TypeInv, Circuits
  <2>2. recoveryUsed' \in BOOLEAN /\ (recoveryUsed => recoveryUsed')
    BY <1>1, Zenon DEF PlanInv, Flags
  <2> QED
    BY <1>1, <2>1, <2>2 DEF Aside
<1> QED
  BY <1>1, <1>2, <1>3, EndKeeps DEF Told3

LEMMA ThrowKeeps == ASSUME PlanInv, Plan!TransportThrows PROVE PlanInv'
<1>1. /\ queue # <<>>
      /\ UNCHANGED <<canonical, aborted, quota, circuit, recoveryUsed, pause, sends, lull>>
  BY BusyHead DEF Plan!TransportThrows
<1>2. PICK said \in {Plan!Aborted, Plan!Thrown("socket")} : Plan!End(said)
  BY DEF Plan!TransportThrows
<1>3. said \in Told3 /\ Harmless(said)
  BY <1>2, ThrownIsHarmless DEF Told3, Plan!Aborted
<1>4. Aside
  <2>1. circuit' \in Circuits /\ quota' \in {None} \cup Readings
    BY <1>1 DEF PlanInv, TypeInv
  <2>2. recoveryUsed' \in BOOLEAN /\ (recoveryUsed => recoveryUsed')
    BY <1>1, Zenon DEF PlanInv, Flags
  <2> QED
    BY <1>1, <2>1, <2>2 DEF Aside
<1> QED
  BY <1>1, <1>2, <1>3, <1>4, EndKeeps

LEMMA StillKeeps == ASSUME PlanInv, UNCHANGED plan PROVE PlanInv'
<1>1. Flags' /\ FlagInv'
  BY Zenon DEF PlanInv, Flags, FlagInv, plan
<1>2. TypeInv' /\ QueueInv' /\ HeadInv' /\ RetryInv'
  BY DEF PlanInv, TypeInv, QueueInv, HeadInv, Untried, Once, NoTwice, RetryInv, plan
<1>3. AnswerInv' /\ Plan!SentUnderQuota' /\ (pause + lull >= Gap)'
  BY DEF PlanInv, AnswerInv, Plan!SentUnderQuota, plan
<1> QED
  BY <1>1, <1>2, <1>3 DEF PlanInv

LEMMA PlanInvariant == Spec => []PlanInv
<1>1. PlanInv /\ Next => PlanInv'
  <2> SUFFICES ASSUME PlanInv, Next PROVE PlanInv'
    OBVIOUS
  <2>1. CASE PlanStep
    <3>1. ASSUME NEW r \in Request, Plan!Submit(r) \/ Plan!Abort(r) PROVE PlanInv'
      BY <3>1, SubmitKeeps, AbortKeeps
    <3>2. CASE Plan!PlanCallback
      BY <3>2, StartKeeps, QuotaFailsKeeps, QuotaArrivesKeeps, RequotaKeeps, WakeUpKeeps,
         RecheckKeeps, AnswerKeeps, RetryKeeps, ThrowKeeps DEF Plan!PlanCallback
    <3>3. CASE Plan!Tick
      BY <3>3, TickKeeps
    <3> QED
      BY <2>1, <3>1, <3>2, <3>3 DEF PlanStep, Plan!PlanNext
  <2>2. CASE ToolStep
    BY <2>2, StillKeeps DEF ToolStep
  <2> QED
    BY <2>1, <2>2 DEF Next
<1>2. PlanInv /\ UNCHANGED vars => PlanInv'
  BY StillKeeps DEF vars
<1> QED
  BY InitPlan, <1>1, <1>2, PTL DEF Spec

-----------------------------------------------------------------------------
(* What follows from the invariant.                                        *)

LEMMA TypedPlan == PlanInv => Plan!PlanTypeOK
<1> SUFFICES ASSUME PlanInv PROVE Plan!PlanTypeOK
  OBVIOUS
<1>1. canonical \in BOOLEAN /\ recoveryUsed \in BOOLEAN
  BY Zenon DEF PlanInv, Flags
<1> QED
  BY <1>1 DEF PlanInv, TypeInv, Plan!PlanTypeOK, Told3, Circuits, Dead

\* The instance counts as its importer does.
LEMMA SameSize == ASSUME NEW S PROVE Plan!Cardinality(S) = Cardinality(S)
  BY DEF Plan!Cardinality, Cardinality

LEMMA RespectedPlan == PlanInv => PlanIsRespected
<1> SUFFICES ASSUME PlanInv PROVE PlanIsRespected
  OBVIOUS
<1>1. \A r : Plan!CallsFor(r) = CallsIn(sends, r) /\ Cardinality(Plan!CallsFor(r)) = Count(sends, r)
  BY DEF Plan!CallsFor, CallsIn, Count
<1> DEFINE twice == {r \in Request : Cardinality(Plan!CallsFor(r)) = 2}
<1>2. \A a, b \in twice : a = b
  BY <1>1 DEF PlanInv, RetryInv
<1>3. Cardinality(twice) <= 1
  <2>1. CASE twice = {}
    <3>1. Cardinality(twice) = 0
      BY <2>1, FS_EmptySet
    <3> QED
      BY <3>1
  <2>2. CASE twice # {}
    <3>1. PICK a \in twice : twice = {a}
      BY <1>2, <2>2
    <3>2. Cardinality({a}) = 1
      BY FS_Singleton
    <3> HIDE DEF twice
    <3> QED
      BY <3>1, <3>2
  <2> QED
    BY <2>1, <2>2
<1>4. Plan!OneRetryAtMost
  <2>1. \A r \in Request : Cardinality(Plan!CallsFor(r)) <= 2
    BY <1>1 DEF PlanInv, RetryInv
  <2> QED
    BY <1>3, <2>1, SameSize DEF Plan!OneRetryAtMost
<1>5. OnlyAnswersCount
  BY <1>1 DEF OnlyAnswersCount, PlanInv, AnswerInv, Harmless
<1> QED
  BY <1>4, <1>5 DEF PlanIsRespected, PlanInv

-----------------------------------------------------------------------------
(* What no step does.                                                      *)
Careful == Plan!SpacedStep /\ Plan!AbortedStep

LEMMA QuietIsCareful == UNCHANGED sends => Careful
<1> SUFFICES ASSUME UNCHANGED sends PROVE Careful
  OBVIOUS
<1>1. Plan!SpacedStep
  BY DEF Plan!SpacedStep
<1>2. Plan!AbortedStep
  BY DEF Plan!AbortedStep, Plan!CallsFor
<1> QED
  BY <1>1, <1>2 DEF Careful

LEMMA DispatchIsCareful ==
    ASSUME PlanInv, queue # <<>>, NEW step, NEW held, Plan!Dispatch(step, held), lull = Gap,
           quota' \in Readings, quota'.model = ModelOf[queue[1]]
    PROVE  Careful
<1>1. CASE Plan!Active \in aborted
  BY <1>1, QuietIsCareful DEF Plan!Dispatch
<1>2. CASE Plan!Active \notin aborted
  <2> DEFINE blocked == IF quota'.reset # None THEN TRUE ELSE FALSE
             entry == [req |-> queue[1], model |-> ModelOf[queue[1]], blocked |-> blocked]
  <2>1. Plan!Active = queue[1] /\ queue[1] \in Request /\ sends \in Seq(SendRecord)
    BY HeadTyped DEF PlanInv, TypeInv
  <2>2. PICK e \in SendRecord : e.req = queue[1] /\ sends' = Append(sends, e)
    <3>1. entry \in SendRecord
      BY <2>1 DEF SendRecord, Models
    <3>2. Plan!Blocked(quota') = blocked
      BY DEF Plan!Blocked
    <3>3. sends' = Append(sends, entry)
      BY <1>2, <2>1, <3>2 DEF Plan!Dispatch
    <3> QED
      BY <3>1, <3>3
  <2>3. Plan!SpacedStep
    BY DEF Plan!SpacedStep
  <2>4. \A r \in aborted : CallsIn(sends', r) = CallsIn(sends, r)
    BY <1>2, <2>1, <2>2, CallsAppended
  <2>5. Plan!AbortedStep
    BY <2>4 DEF Plan!AbortedStep, Plan!CallsFor, CallsIn
  <2> QED
    BY <2>3, <2>5 DEF Careful
<1> QED
  BY <1>1, <1>2

LEMMA PaceIsCareful ==
    ASSUME PlanInv, queue # <<>>, Plan!Pace,
           quota' \in Readings, quota'.model = ModelOf[queue[1]]
    PROVE  Careful
<1>1. CASE pause > 0
  BY <1>1, QuietIsCareful DEF Plan!Pace
<1>2. CASE ~(pause > 0)
  <2>1. lull = Gap
    BY <1>2, PlanAssumption DEF PlanInv, TypeInv
  <2> QED
    BY <1>2, <2>1, DispatchIsCareful DEF Plan!Pace
<1> QED
  BY <1>1, <1>2

LEMMA AdmitIsCareful ==
    ASSUME PlanInv, queue # <<>>, Plan!Admit,
           quota' \in Readings, quota'.model = ModelOf[queue[1]]
    PROVE  Careful
<1>1. CASE Plan!Blocked(quota')
  BY <1>1, QuietIsCareful DEF Plan!Admit, Plan!Recover
<1>2. CASE ~Plan!Blocked(quota')
  BY <1>2, PaceIsCareful DEF Plan!Admit
<1> QED
  BY <1>1, <1>2

LEMMA StartIsCareful == PlanInv /\ Plan!Start => Careful /\ Plan!ClosedStep
<1> SUFFICES ASSUME PlanInv, Plan!Start PROVE Careful /\ Plan!ClosedStep
  OBVIOUS
<1>1. queue # <<>> /\ UNCHANGED quota
  BY DEF Plan!Start
<1>2. CASE Plan!Active \in aborted \/ ~canonical \/ circuit # None
  <2>1. UNCHANGED <<circuit, sends>>
    BY <1>2 DEF Plan!Start
  <2> QED
    BY <2>1, QuietIsCareful DEF Plan!ClosedStep
<1>3. CASE /\ ~(Plan!Active \in aborted \/ ~canonical \/ circuit # None)
           /\ Plan!Fresh(Plan!Active)
  <2>1. Plan!Admit
    BY <1>3 DEF Plan!Start
  <2>2. quota' \in Readings /\ quota'.model = ModelOf[queue[1]]
    BY <1>1, <1>3, HeadTyped DEF Plan!Fresh, PlanInv, TypeInv
  <2>3. Careful
    BY <1>1, <2>1, <2>2, AdmitIsCareful
  <2> QED
    BY <1>3, <2>3 DEF Plan!ClosedStep
<1>4. CASE /\ ~(Plan!Active \in aborted \/ ~canonical \/ circuit # None)
           /\ ~Plan!Fresh(Plan!Active)
  <2>1. UNCHANGED <<circuit, sends>>
    BY <1>4 DEF Plan!Start
  <2> QED
    BY <2>1, QuietIsCareful DEF Plan!ClosedStep
<1> QED
  BY <1>2, <1>3, <1>4

LEMMA BusyIsCareful ==
    ASSUME PlanInv, Plan!PlanCallback, ~Plan!Start
    PROVE  Careful /\ send.step # "idle"
<1>1. CASE Plan!QuotaFails \/ Plan!RequotaArrives \/ Plan!AnswerArrives \/ Plan!RetryArrives
           \/ Plan!TransportThrows
  <2>1. UNCHANGED sends
    BY <1>1 DEF Plan!QuotaFails, Plan!RequotaArrives, Plan!AnswerArrives, Plan!RetryArrives,
                Plan!TransportThrows, Plan!Recover
  <2>2. send.step # "idle"
    BY <1>1 DEF Plan!QuotaFails, Plan!RequotaArrives, Plan!AnswerArrives, Plan!RetryArrives,
                Plan!TransportThrows
  <2> QED
    BY <2>1, <2>2, QuietIsCareful
<1>2. CASE Plan!QuotaArrives
  <2>1. queue # <<>> /\ send.step # "idle" /\ Plan!Admit
    BY <1>2, BusyHead DEF Plan!QuotaArrives
  <2>2. quota' \in Readings /\ quota'.model = ModelOf[queue[1]]
    BY <1>2, <2>1, ReadingTyped DEF Plan!QuotaArrives
  <2> QED
    BY <2>1, <2>2, AdmitIsCareful
<1>3. CASE Plan!WakeUp
  <2>1. queue # <<>> /\ send.step # "idle" /\ UNCHANGED quota
    BY <1>3, BusyHead DEF Plan!WakeUp
  <2>2. CASE Plan!Active \in aborted \/ send.step # "pace"
    <3>1. UNCHANGED sends
      BY <1>3, <2>2 DEF Plan!WakeUp
    <3> QED
      BY <2>1, <3>1, QuietIsCareful
  <2>3. CASE Plan!Active \notin aborted /\ send.step = "pace"
    <3>1. send.rest = 0 /\ Plan!Dispatch("sent", None)
      BY <1>3, <2>3 DEF Plan!WakeUp
    <3>2. pause <= 0 /\ quota' \in Readings /\ quota'.model = ModelOf[queue[1]]
      BY <2>1, <2>3, <3>1 DEF PlanInv, HeadInv
    <3>3. lull = Gap
      BY <3>2, PlanAssumption DEF PlanInv, TypeInv
    <3> QED
      BY <2>1, <3>1, <3>2, <3>3, DispatchIsCareful
  <2> QED
    BY <2>2, <2>3
<1>4. CASE Plan!RecheckArrives
  <2>1. queue # <<>> /\ send.step = "recheck"
    BY <1>4, BusyHead DEF Plan!RecheckArrives
  <2>2. quota' \in Readings /\ quota'.model = ModelOf[queue[1]]
    BY <1>4, <2>1, ReadingTyped DEF Plan!RecheckArrives
  <2>3. CASE Plan!Blocked(quota')
    <3>1. UNCHANGED sends
      BY <1>4, <2>3 DEF Plan!RecheckArrives
    <3> QED
      BY <2>1, <3>1, QuietIsCareful
  <2>4. CASE ~Plan!Blocked(quota') /\ send.held = None
    <3>1. Plan!Pace
      BY <1>4, <2>4 DEF Plan!RecheckArrives
    <3> QED
      BY <2>1, <2>2, <3>1, PaceIsCareful
  <2>5. CASE ~Plan!Blocked(quota') /\ send.held # None
    <3>1. Plan!Dispatch("retry", send.held)
      BY <1>4, <2>5 DEF Plan!RecheckArrives
    <3>2. lull = Gap
      BY <2>1, <2>5 DEF PlanInv, HeadInv
    <3> QED
      BY <2>1, <2>2, <3>1, <3>2, DispatchIsCareful
  <2> QED
    BY <2>3, <2>4, <2>5
<1> QED
  BY <1>1, <1>2, <1>3, <1>4 DEF Plan!PlanCallback

LEMMA StepIsCareful == PlanInv /\ [Next]_vars =>
                           [Careful /\ Plan!ClosedStep]_(Plan!plan)
<1> SUFFICES ASSUME PlanInv, [Next]_vars PROVE [Careful /\ Plan!ClosedStep]_(Plan!plan)
  OBVIOUS
<1>1. CASE UNCHANGED vars \/ ToolStep
  BY <1>1 DEF vars, ToolStep, plan, Plan!plan
<1>2. CASE PlanStep
  <2>1. CASE (\E r \in Request : Plan!Submit(r) \/ Plan!Abort(r)) \/ Plan!Tick
    <3>1. UNCHANGED <<circuit, sends>>
      BY <2>1 DEF Plan!Submit, Plan!Abort, Plan!Tick
    <3> QED
      BY <3>1, QuietIsCareful DEF Plan!ClosedStep
  <2>2. CASE Plan!Start
    BY <2>2, StartIsCareful
  <2>3. CASE Plan!PlanCallback /\ ~Plan!Start
    BY <2>3, BusyIsCareful DEF Plan!ClosedStep
  <2> QED
    BY <1>2, <2>1, <2>2, <2>3 DEF PlanStep, Plan!PlanNext, Plan!PlanCallback
<1> QED
  BY <1>1, <1>2 DEF Next

-----------------------------------------------------------------------------
(* For any callers, models, answers and times: the queue, the reading, the *)
(* circuit and the clock of the transport stay what minimax-plan.ts:94-216 *)
(* declares them to be.                                                    *)
THEOREM PlanTyped == Spec => []Plan!PlanTypeOK
  BY PlanInvariant, TypedPlan, PTL

(* For any number of callers: a request goes out at most twice and only    *)
(* one ever does, every call goes out on an admitting reading of its own   *)
(* model, and what the closed transport hands on is never an answer        *)
(* (minimax-plan.ts:190-213).                                              *)
THEOREM PlanIsKept == Spec => []PlanIsRespected
  BY PlanInvariant, RespectedPlan, PTL

(* For any lengths of the gap and the windows: no call starts within a gap *)
(* of the last, none goes out once a finished request left the transport   *)
(* closed, and none for a caller that gave up before                       *)
(* (minimax-plan.ts:172-187).                                              *)
THEOREM PlanIsCareful == Spec => SpendsCarefully
<1>1. PlanInv /\ [Next]_vars => [Plan!SpacedStep /\ Plan!ClosedStep /\ Plan!AbortedStep]_(Plan!plan)
  BY StepIsCareful DEF Careful
<1> QED
  BY PlanInvariant, <1>1, PTL DEF Spec, SpendsCarefully, Plan!SpendsCarefully

-----------------------------------------------------------------------------
(* What an adapter hands the loop.                                         *)
Finishes   == {"stop", "length", "tool_use", "refusal", "error"}
Categories == {"authentication", "model_not_found", "rate_limit", "network_timeout", "unknown",
               "schema_violation"}

\* A result that is no turn, and one that is.
Refusal(result) == ~result.ok /\ result.category \in Categories
Turn(result)    == result.ok /\ result.finish \in Finishes /\ result.calls \in Seq(Requested)

LEMMA FailureRefuses ==
    ASSUME NEW category \in Categories PROVE Refusal(Failure(category)) /\ Refusal(Final(category))
<1>1. ~Failure(category).ok /\ Failure(category).category = category
  BY DEF Failure
<1>2. ~Final(category).ok /\ Final(category).category = category
  BY DEF Final, Failure
<1> QED
  BY <1>1, <1>2 DEF Refusal

LEMMA ErrorsRefuse ==
    ASSUME NEW delivery
    PROVE  /\ Refusal(OpenAICompatErrorForStatus(delivery))
           /\ Refusal(AnthropicErrorForStatus(delivery))
           /\ Refusal(ErrorForThrow(delivery))
<1>1. \A status, timeouts : CategoryOf(status, timeouts) \in Categories
  BY DEF CategoryOf, Categories
<1>2. Refusal(Failure("network_timeout")) /\ Refusal(Final("rate_limit"))
      /\ Refusal(Failure("unknown"))
  BY FailureRefuses DEF Categories
<1> QED
  BY <1>1, <1>2, FailureRefuses
     DEF OpenAICompatErrorForStatus, AnthropicErrorForStatus, ErrorForThrow

LEMMA FinishTyped ==
    ASSUME NEW raw
    PROVE  /\ MapFinishReason(raw, ChatFinish) \in Finishes
           /\ MapFinishReason(raw, AnthropicFinish) \in Finishes
<1>1. \A r \in DOMAIN ChatFinish : ChatFinish[r] \in Finishes
  BY DEF ChatFinish, Finishes
<1>2. \A r \in DOMAIN AnthropicFinish : AnthropicFinish[r] \in Finishes
  BY DEF AnthropicFinish, Finishes
<1> QED
  BY <1>1, <1>2 DEF MapFinishReason, Finishes

LEMMA CompletionTyped ==
    ASSUME NEW delivery
    PROVE  /\ LET result == OpenAICompatComplete(delivery, FALSE)
              IN Refusal(result) \/ (result.ok /\ result.finish \in Finishes)
           /\ LET result == AnthropicComplete(delivery, FALSE)
              IN Refusal(result) \/ (result.ok /\ result.finish \in Finishes)
<1>1. Refusal(Failure("authentication")) /\ Refusal(Failure("unknown"))
  BY FailureRefuses DEF Categories
<1>2. \A text, finish : Completion(text, finish).ok /\ Completion(text, finish).finish = finish
  BY DEF Completion
<1>3. \/ Refusal(OpenAICompatComplete(delivery, FALSE))
      \/ \E text, raw : OpenAICompatComplete(delivery, FALSE)
                          = Completion(text, MapFinishReason(raw, ChatFinish))
  BY <1>1, ErrorsRefuse DEF OpenAICompatComplete
<1>4. \/ Refusal(AnthropicComplete(delivery, FALSE))
      \/ \E text, raw : AnthropicComplete(delivery, FALSE)
                          = Completion(text, MapFinishReason(raw, AnthropicFinish))
  BY <1>1, ErrorsRefuse DEF AnthropicComplete
<1>5. \A text, raw : /\ Completion(text, MapFinishReason(raw, ChatFinish)).ok
                     /\ Completion(text, MapFinishReason(raw, ChatFinish)).finish \in Finishes
                     /\ Completion(text, MapFinishReason(raw, AnthropicFinish)).ok
                     /\ Completion(text, MapFinishReason(raw, AnthropicFinish)).finish \in Finishes
  BY <1>2, FinishTyped
<1> QED
  BY <1>3, <1>4, <1>5

LEMMA ReplyTyped ==
    ASSUME NEW body \in Bodies
    PROVE  LET result == CallTool([kind |-> "response", status |-> 200, body |-> body])
           IN Refusal(result) \/ Turn(result)
<1> DEFINE delivery == [kind |-> "response", status |-> 200, body |-> body]
<1>1. delivery.body = body /\ body.calls \in Seq(Requested)
  BY LoopAssumption
<1>2. Refusal(Failure("schema_violation"))
  BY FailureRefuses DEF Categories
<1>3. \A text, finish, list : LET reply == ToolReply(text, finish, list)
                              IN reply.ok /\ reply.finish = finish /\ reply.calls = list
  BY DEF ToolReply
<1> HIDE DEF delivery
<1>4. Refusal(OpenAICompatCallTool(delivery)) \/ Turn(OpenAICompatCallTool(delivery))
  <2> DEFINE result == OpenAICompatComplete(delivery, FALSE)
             list == [i \in DOMAIN body.calls |->
                        [body.calls[i] EXCEPT !.args = OpenAICompatParsedArgs(@)]]
  <2>1. list \in Seq(Requested)
    <3>1. \A call \in Requested : [call EXCEPT !.args = OpenAICompatParsedArgs(@)] \in Requested
      BY DEF Requested, OpenAICompatParsedArgs, ArgShape
    <3>2. \A i \in 1..Len(body.calls) : list[i] \in Requested
      BY <1>1, <3>1
    <3>3. Len(body.calls) \in Nat /\ DOMAIN body.calls = 1..Len(body.calls)
      BY <1>1
    <3>4. list \in [1..Len(body.calls) -> Requested]
      BY <3>2, <3>3
    <3> QED
      BY <3>3, <3>4
  <2>2. OpenAICompatCallTool(delivery) =
            IF ~result.ok THEN result
            ELSE IF \E i \in DOMAIN list : ~IsModelToolCall(list[i])
            THEN Failure("schema_violation")
            ELSE ToolReply(result.text, result.finish, list)
    BY <1>1 DEF OpenAICompatCallTool
  <2>3. Refusal(result) \/ (result.ok /\ result.finish \in Finishes)
    BY CompletionTyped
  <2> HIDE DEF result, list
  <2> QED
    BY <1>2, <1>3, <2>1, <2>2, <2>3 DEF Turn, Refusal
<1>5. Refusal(AnthropicCallTool(delivery)) \/ Turn(AnthropicCallTool(delivery))
  <2> DEFINE result == AnthropicComplete(delivery, FALSE)
             list == IF body.choices THEN body.calls ELSE <<>>
  <2>1. list \in Seq(Requested)
    BY <1>1
  <2>2. AnthropicCallTool(delivery) =
            IF ~result.ok THEN result
            ELSE IF \E i \in DOMAIN list : ~IsModelToolCall(list[i])
            THEN Failure("schema_violation")
            ELSE ToolReply(result.text, result.finish, list)
    BY <1>1 DEF AnthropicCallTool
  <2>3. Refusal(result) \/ (result.ok /\ result.finish \in Finishes)
    BY CompletionTyped
  <2> HIDE DEF result, list
  <2> QED
    BY <1>2, <1>3, <2>1, <2>2, <2>3 DEF Turn, Refusal
<1> QED
  BY <1>4, <1>5 DEF CallTool, delivery

LEMMA ReasonTyped ==
    ASSUME NEW result, Turn(result), total \in Nat, calls \in Nat
    PROVE  /\ ReasonToRefuse(result) \in Reasons \cup {"none"}
           /\ ReasonToRefuse(result) = "none" =>
                 /\ total + TextCost(result.text) <= MaxTotal
                 /\ result.calls # <<>> =>
                       /\ ValidTurn(result.calls)
                       /\ calls + Len(result.calls) <= MaxCalls
                       /\ total + TextCost(result.text) + Len(result.calls) <= MaxTotal
<1> DEFINE requested == result.calls
           withText == total + TextCost(result.text)
<1>1. /\ requested \in Seq(Requested) /\ Len(requested) \in Nat /\ withText \in Nat
      /\ result.finish \in Finishes
  BY DEF Turn, TextCost
<1>2. MaxTotal \in Nat /\ MaxCalls \in Nat
  BY LoopAssumption
<1>3. ReasonToRefuse(result) =
        CASE withText > MaxTotal -> "output_limit"
          [] withText <= MaxTotal /\ result.finish \in {"length", "error"} -> "incomplete_response"
          [] withText <= MaxTotal /\ result.finish = "tool_use" /\ requested = <<>> ->
               "missing_tool_call"
          [] withText <= MaxTotal /\ result.finish \in {"stop", "refusal"} /\ requested # <<>> ->
               "unexpected_tool_call"
          [] withText <= MaxTotal /\ result.finish = "tool_use" /\ requested # <<>>
               /\ ~ValidTurn(requested) -> "invalid_tool_call"
          [] withText <= MaxTotal /\ result.finish = "tool_use" /\ requested # <<>>
               /\ ValidTurn(requested)
               /\ (calls + Len(requested) > MaxCalls \/ withText + Len(requested) > MaxTotal) ->
               "call_or_output_limit"
          [] OTHER -> "none"
  BY DEF ReasonToRefuse
<1> HIDE DEF requested, withText
<1>4. ReasonToRefuse(result) \in Reasons \cup {"none"}
  BY <1>3 DEF Reasons
<1>5. ASSUME ReasonToRefuse(result) = "none"
      PROVE  /\ withText <= MaxTotal
             /\ requested # <<>> =>
                   /\ ValidTurn(requested)
                   /\ calls + Len(requested) <= MaxCalls
                   /\ withText + Len(requested) <= MaxTotal
  BY <1>1, <1>2, <1>3, <1>5 DEF Finishes
<1> QED
  BY <1>4, <1>5 DEF requested, withText

\* The ids of a valid turn are distinct, known ids that are new.
LEMMA TurnIsNew ==
    ASSUME NEW list \in Seq(Requested), ValidTurn(list)
    PROVE  /\ \A i \in DOMAIN list : list[i].id \in CallId \ ids
           /\ \A i, j \in DOMAIN list : list[i].id = list[j].id => i = j
<1>1. Len(list) \in Nat /\ DOMAIN list = 1..Len(list) /\ \A i \in DOMAIN list : list[i] \in Requested
  OBVIOUS
<1>2. \A i \in DOMAIN list : list[i].id \in CallId \ ids
  BY <1>1 DEF ValidTurn, Requested
<1> DEFINE f == [i \in 1..Len(list) |-> list[i].id]
<1>3. f \in Surjection(1..Len(list), RequestedIds(list))
  BY <1>1 DEF Surjection, RequestedIds
<1>4. IsFiniteSet(1..Len(list)) /\ Cardinality(1..Len(list)) = Len(list)
  BY <1>1, FS_Interval, SMTT(60)
<1>5. Cardinality(RequestedIds(list)) = Len(list)
  BY DEF ValidTurn
<1>6. f \in Injection(1..Len(list), RequestedIds(list))
  BY <1>3, <1>4, <1>5, FS_SurjSameCardinalityImpliesInj
<1>7. \A i, j \in 1..Len(list) : f[i] = f[j] => i = j
  BY <1>6 DEF Injection, IsInjective
<1> QED
  BY <1>1, <1>2, <1>7

-----------------------------------------------------------------------------
(* The invariant.                                                          *)
Observed == [id : CallId, status : {"started", "completed"}, result : Nat]
Busy     == {"open", "turn", "model", "issue", "call"}

ShapeInv ==
    /\ servers \in [Server -> {"absent", "starting", "ready", "gone"}]
    /\ starting \in 0..Len(Configured)
    /\ loop \in Busy \cup {"close", "report", "done"}
    /\ turn \in 0..MaxTurns /\ calls \in 0..MaxCalls /\ ids \subseteq CallId
    /\ todo \in Seq(Requested)
    /\ events \in Seq({"started", "completed"})
    /\ observations \in Seq(Observed)
    /\ total \in 0..(MaxTotal + MaxResult + 1)
    /\ loop \in Busy => total <= MaxTotal
    /\ failure \in Reasons \cup {None}

\* Calls, issued ids, events and observations count the same thing.
CountInv ==
    /\ IsFiniteSet(issued) /\ calls = Cardinality(issued)
    /\ effects \subseteq issued /\ issued \subseteq ids
    /\ Len(events) = calls
    /\ observing => /\ Len(observations) = calls
                    /\ issued = {observations[i].id : i \in DOMAIN observations}
    /\ ~observing => observations = <<>>

\* The calls of the turn that are still to go out are new.
TodoInv ==
    /\ loop \in {"issue", "call"} =>
          /\ todo # <<>>
          /\ \A i \in DOMAIN todo : todo[i].id \in ids
          /\ \A i, j \in DOMAIN todo : todo[i].id = todo[j].id => i = j
          /\ \A i \in DOMAIN todo : i # 1 => todo[i].id \notin issued
    /\ loop = "issue" => todo[1].id \notin issued /\ calls + Len(todo) <= MaxCalls
    /\ loop = "call"  => calls > 0 /\ calls + Len(todo) <= MaxCalls + 1

AllDone(log)       == \A i \in DOMAIN log : log[i] = "completed"
AllObserved(log)   == \A i \in DOMAIN log : log[i].status = "completed"
ButLast(log)       == \A i \in DOMAIN log : i # Len(log) => log[i] = "completed"
ButLastSeen(log)   == \A i \in DOMAIN log : i # Len(log) => log[i].status = "completed"

TurnRefusals == {"invalid_tool_call", "unexpected_tool_call", "call_or_output_limit",
                 "schema_violation", "incomplete_response"}

ProgressInv ==
    /\ loop \in Busy => failure = None
    /\ loop = "open" => observations = <<>>
    /\ loop # "call" /\ failure = None => AllDone(events) /\ AllObserved(observations)
    /\ loop = "call" => ButLast(events) /\ ButLastSeen(observations)
    /\ failure \in TurnRefusals => AllDone(events)
    /\ observing /\ failure = None /\ loop # "open" => ~(ObservationSize(observations) > MaxTotal)

EndInv ==
    /\ loop \in {"report", "done"} => NoServerLeft
    /\ outcome # None =>
          /\ loop = "done"
          /\ outcome = [status |-> IF failure = None THEN "completed" ELSE "failed",
                        tool_calls |-> calls, observations |-> observations,
                        provider_failure |-> failure]

ToolInv == ShapeInv /\ CountInv /\ TodoInv /\ ProgressInv /\ EndInv

LEMMA InitTool == ToolInit => ToolInv
<1> SUFFICES ASSUME ToolInit PROVE ToolInv
  OBVIOUS
<1> USE DEF ToolInit, SessionInit
<1>1. ShapeInv
  BY LoopAssumption DEF ShapeInv, Busy
<1>2. CountInv
  BY FS_EmptySet DEF CountInv
<1>3. TodoInv /\ ProgressInv
  BY LoopAssumption DEF TodoInv, ProgressInv, Busy, AllDone, AllObserved, TurnRefusals, Reasons
<1>4. EndInv
  BY DEF EndInv
<1> QED
  BY <1>1, <1>2, <1>3, <1>4 DEF ToolInv

-----------------------------------------------------------------------------
(* One step at a time.                                                     *)

LEMMA SameKeeps == ASSUME ToolInv, UNCHANGED <<session, control>> PROVE ToolInv'
<1> USE DEF session, control
<1>1. ShapeInv' /\ CountInv' /\ TodoInv'
  BY DEF ToolInv, ShapeInv, CountInv, TodoInv
<1>2. ProgressInv'
  BY DEF ToolInv, ProgressInv, AllDone, AllObserved, ButLast, ButLastSeen
<1>3. EndInv'
  BY DEF ToolInv, EndInv, NoServerLeft
<1> QED
  BY <1>1, <1>2, <1>3 DEF ToolInv

LEMMA NoOutcomeYet == ASSUME ToolInv, loop # "done" PROVE outcome = None
  BY DEF ToolInv, EndInv

\* A case that fails keeps its books; a refused turn had nothing in flight.
LEMMA FailKeeps ==
    ASSUME ToolInv, loop \in Busy, NEW reason \in Reasons, Fail(reason),
           reason \in TurnRefusals => loop = "model",
           UNCHANGED <<session, observing, turn, ids, todo, calls, events, observations, outcome>>,
           total' \in 0..(MaxTotal + MaxResult + 1)
    PROVE  ToolInv'
<1>1. failure' \in {reason, "timeout"} /\ loop' = "close" /\ failure' \in Reasons
  BY DEF Fail, Reasons
<1>2. failure' # None /\ loop' \notin Busy
  BY <1>1, LoopAssumption DEF Busy
<1>3. ShapeInv'
  BY <1>1, <1>2 DEF ToolInv, ShapeInv, session
<1>4. CountInv' /\ TodoInv'
  BY <1>1 DEF ToolInv, CountInv, TodoInv, session
<1>5. ProgressInv'
  <2>1. failure' \in TurnRefusals => AllDone(events)
    BY <1>1 DEF TurnRefusals, ToolInv, ProgressInv, Busy
  <2> QED
    BY <1>1, <1>2, <2>1 DEF ProgressInv, AllDone
<1>6. EndInv'
  BY <1>1, NoOutcomeYet DEF EndInv, Busy
<1> QED
  BY <1>3, <1>4, <1>5, <1>6 DEF ToolInv

LEMMA OpenNextKeeps == ASSUME ToolInv, OpenNext \/ Connected PROVE ToolInv'
<1>1. /\ loop = "open" /\ UNCHANGED <<control, issued, effects>>
      /\ servers' \in [Server -> {"absent", "starting", "ready", "gone"}]
      /\ starting' \in 0..Len(Configured)
  <2>1. CASE OpenNext
    BY <2>1, LoopAssumption, SMTT(60) DEF OpenNext, StartServer, ToolInv, ShapeInv
  <2>2. CASE Connected
    BY <2>2 DEF Connected, ServerReady, ToolInv, ShapeInv
  <2> QED
    BY <2>1, <2>2
<1> USE DEF control
<1>2. ShapeInv' /\ CountInv' /\ TodoInv'
  BY <1>1 DEF ToolInv, ShapeInv, CountInv, TodoInv
<1>3. ProgressInv'
  BY <1>1 DEF ToolInv, ProgressInv, AllDone, AllObserved, ButLast, ButLastSeen
<1>4. EndInv'
  BY <1>1, NoOutcomeYet DEF EndInv
<1> QED
  BY <1>2, <1>3, <1>4 DEF ToolInv

LEMMA OpenedKeeps == ASSUME ToolInv, Opened PROVE ToolInv'
<1>1. /\ loop = "open" /\ outcome = None
      /\ UNCHANGED <<session, observing, turn, ids, todo, calls, total, events, observations, outcome>>
  BY NoOutcomeYet DEF Opened
<1>2. CASE observing /\ ObservationSize(<<>>) > MaxTotal
  <2>1. Fail("observation_limit")
    BY <1>2 DEF Opened
  <2> QED
    BY <1>1, <2>1, FailKeeps DEF Busy, Reasons, TurnRefusals, ToolInv, ShapeInv
<1>3. CASE ~(observing /\ ObservationSize(<<>>) > MaxTotal)
  <2>1. loop' = "turn" /\ UNCHANGED failure
    BY <1>3 DEF Opened, Stay
  <2>2. ShapeInv' /\ CountInv' /\ TodoInv'
    BY <1>1, <2>1 DEF ToolInv, ShapeInv, CountInv, TodoInv, Busy, session
  <2>3. ProgressInv'
    BY <1>1, <1>3, <2>1 DEF ToolInv, ProgressInv, AllDone, AllObserved, Busy
  <2>4. EndInv'
    BY <1>1, <2>1 DEF EndInv
  <2> QED
    BY <2>2, <2>3, <2>4 DEF ToolInv
<1> QED
  BY <1>2, <1>3

LEMMA OpenThrowsKeeps == ASSUME ToolInv, OpenThrows PROVE ToolInv'
<1>1. /\ loop = "open" /\ outcome = None /\ loop' = "report" /\ CloseSession
      /\ failure' \in {"timeout", "initialization_failed"}
      /\ UNCHANGED <<observing, turn, ids, todo, calls, total, events, observations, outcome>>
  BY NoOutcomeYet DEF OpenThrows
<1>2. failure' \in Reasons /\ failure' # None /\ failure' \notin TurnRefusals
  BY <1>1, LoopAssumption DEF Reasons, TurnRefusals
<1>3. /\ servers' \in [Server -> {"absent", "starting", "ready", "gone"}]
      /\ NoServerLeft' /\ UNCHANGED <<starting, issued, effects>>
  BY <1>1 DEF CloseSession, NoServerLeft, ToolInv, ShapeInv
<1>4. ShapeInv' /\ CountInv' /\ TodoInv'
  BY <1>1, <1>2, <1>3 DEF ToolInv, ShapeInv, CountInv, TodoInv, Busy
<1>5. ProgressInv' /\ EndInv'
  BY <1>1, <1>2, <1>3 DEF ProgressInv, EndInv, Busy
<1> QED
  BY <1>4, <1>5 DEF ToolInv

LEMMA NextTurnKeeps == ASSUME ToolInv, NextTurn PROVE ToolInv'
<1>1. /\ loop = "turn" /\ outcome = None
      /\ UNCHANGED <<session, observing, ids, todo, calls, total, events, observations, outcome>>
  BY NoOutcomeYet DEF NextTurn
<1>2. CASE fired \/ turn = MaxTurns
  <2>1. Fail("turn_limit") /\ UNCHANGED turn
    BY <1>2 DEF NextTurn
  <2> QED
    BY <1>1, <2>1, FailKeeps DEF Busy, Reasons, TurnRefusals, ToolInv, ShapeInv
<1>3. CASE ~(fired \/ turn = MaxTurns)
  <2>1. loop' = "model" /\ turn' = turn + 1 /\ UNCHANGED failure /\ turn # MaxTurns
    BY <1>3 DEF NextTurn, Stay
  <2>2. turn' \in 0..MaxTurns
    BY <2>1, LoopAssumption DEF ToolInv, ShapeInv
  <2>3. ShapeInv' /\ CountInv' /\ TodoInv'
    BY <1>1, <2>1, <2>2 DEF ToolInv, ShapeInv, CountInv, TodoInv, Busy, session
  <2>4. ProgressInv' /\ EndInv'
    BY <1>1, <2>1 DEF ToolInv, ProgressInv, AllDone, AllObserved, Busy, EndInv
  <2> QED
    BY <2>3, <2>4 DEF ToolInv
<1> QED
  BY <1>2, <1>3

LEMMA ThrowsKeep == ASSUME ToolInv, ModelThrows \/ CallThrows PROVE ToolInv'
<1>1. PICK reason \in {"provider_failure", "call_failed"} : Fail(reason)
  BY DEF ModelThrows, CallThrows
<1>2. reason \in Reasons /\ reason \notin TurnRefusals
  BY DEF Reasons, TurnRefusals
<1>3. /\ loop \in Busy
      /\ UNCHANGED <<session, observing, turn, ids, todo, calls, total, events, observations, outcome>>
  BY DEF ModelThrows, CallThrows, Busy
<1> QED
  BY <1>1, <1>2, <1>3, FailKeeps DEF ToolInv, ShapeInv

LEMMA CloseKeeps == ASSUME ToolInv, Close PROVE ToolInv'
<1>1. /\ loop = "close" /\ outcome = None /\ loop' = "report" /\ CloseSession
      /\ failure' \in IF failure = None THEN {None, "cleanup_failed"} ELSE {failure}
      /\ UNCHANGED <<observing, turn, ids, todo, calls, total, events, observations, outcome>>
  BY NoOutcomeYet DEF Close
<1>2. /\ failure' \in Reasons \cup {None} /\ (failure' = None => failure = None)
      /\ failure' \in TurnRefusals => failure \in TurnRefusals
  BY <1>1, LoopAssumption DEF Reasons, TurnRefusals, ToolInv, ShapeInv
<1>3. /\ servers' \in [Server -> {"absent", "starting", "ready", "gone"}]
      /\ NoServerLeft' /\ UNCHANGED <<starting, issued, effects>>
  BY <1>1 DEF CloseSession, NoServerLeft, ToolInv, ShapeInv
<1>4. ShapeInv' /\ CountInv' /\ TodoInv'
  BY <1>1, <1>2, <1>3 DEF ToolInv, ShapeInv, CountInv, TodoInv, Busy
<1>5. ProgressInv'
  BY <1>1, <1>2 DEF ToolInv, ProgressInv, AllDone, AllObserved, Busy
<1>6. EndInv'
  BY <1>1, <1>3 DEF EndInv
<1> QED
  BY <1>4, <1>5, <1>6 DEF ToolInv

LEMMA ReportKeeps == ASSUME ToolInv, Report PROVE ToolInv'
<1>1. /\ loop = "report" /\ loop' = "done"
      /\ UNCHANGED <<session, observing, turn, ids, todo, calls, total, events, observations, failure>>
  BY DEF Report
<1>2. ShapeInv' /\ CountInv' /\ TodoInv'
  BY <1>1 DEF ToolInv, ShapeInv, CountInv, TodoInv, Busy, session
<1>3. ProgressInv'
  BY <1>1 DEF ToolInv, ProgressInv, AllDone, AllObserved, Busy
<1>4. NoServerLeft'
  BY <1>1 DEF ToolInv, EndInv, NoServerLeft, session
<1>5. EndInv'
  BY <1>1, <1>4 DEF EndInv, Report
<1> QED
  BY <1>2, <1>3, <1>5 DEF ToolInv

LEMMA ActLateKeeps == ASSUME ToolInv, ActLate PROVE ToolInv'
<1>1. effects' \subseteq issued /\ UNCHANGED <<servers, starting, issued, control>>
  BY DEF ActLate, ServerActs, ToolInv, CountInv
<1> USE DEF control
<1>2. ShapeInv' /\ CountInv' /\ TodoInv'
  BY <1>1 DEF ToolInv, ShapeInv, CountInv, TodoInv
<1>3. ProgressInv'
  BY <1>1 DEF ToolInv, ProgressInv, AllDone, AllObserved, ButLast, ButLastSeen
<1>4. EndInv'
  BY <1>1 DEF ToolInv, EndInv, NoServerLeft
<1> QED
  BY <1>2, <1>3, <1>4 DEF ToolInv

LEMMA ModelRepliesKeeps == ASSUME ToolInv, ModelReplies PROVE ToolInv'
<1>1. /\ loop = "model" /\ outcome = None /\ failure = None
      /\ UNCHANGED <<session, observing, turn, calls, events, observations, outcome>>
  BY NoOutcomeYet DEF ModelReplies, ToolInv, ProgressInv, Busy
<1>2. total \in 0..MaxTotal /\ calls \in 0..MaxCalls /\ total \in Nat /\ calls \in Nat
      /\ MaxTotal \in Nat /\ MaxCalls \in Nat /\ MaxResult \in Nat
  BY <1>1, LoopAssumption DEF ToolInv, ShapeInv, Busy
<1> DEFINE Reply(body) == CallTool([kind |-> "response", status |-> 200, body |-> body])
<1>3. PICK body \in Bodies :
        IF ~Reply(body).ok
        THEN /\ Fail(Reply(body).category)
             /\ UNCHANGED <<ids, todo, total, answer>>
        ELSE IF ReasonToRefuse(Reply(body)) # "none"
        THEN Fail(ReasonToRefuse(Reply(body))) /\ UNCHANGED <<ids, todo, total, answer>>
        ELSE IF Reply(body).calls = <<>>
        THEN /\ answer' = Reply(body).text
             /\ loop' = "close" /\ armed' = FALSE /\ UNCHANGED failure
             /\ total' = total + TextCost(Reply(body).text)
             /\ UNCHANGED <<ids, todo>>
        ELSE /\ ids' = ids \cup RequestedIds(Reply(body).calls)
             /\ todo' = Reply(body).calls
             /\ total' = total + TextCost(Reply(body).text) + Len(Reply(body).calls)
             /\ loop' = "issue" /\ Stay /\ UNCHANGED answer
  BY DEF ModelReplies
<1> DEFINE result == Reply(body)
<1>4. Refusal(result) \/ Turn(result)
  BY ReplyTyped
<1>5. result = Reply(body)
  OBVIOUS
<1> HIDE DEF result, Reply
<1>6. total \in 0..(MaxTotal + MaxResult + 1)
  BY <1>2
<1>7. CASE ~result.ok
  <2>1. Fail(result.category) /\ UNCHANGED <<ids, todo, total>>
    BY <1>3, <1>5, <1>7
  <2>2. result.category \in Reasons
    BY <1>4, <1>7 DEF Refusal, Turn, Categories, Reasons
  <2> QED
    BY <1>1, <1>6, <2>1, <2>2, FailKeeps DEF Busy
<1>8. CASE result.ok /\ ReasonToRefuse(result) # "none"
  <2>1. Turn(result)
    BY <1>4, <1>8 DEF Refusal
  <2>2. Fail(ReasonToRefuse(result)) /\ UNCHANGED <<ids, todo, total>>
    BY <1>3, <1>5, <1>8
  <2>3. ReasonToRefuse(result) \in Reasons
    BY <1>2, <1>8, <2>1, ReasonTyped
  <2> QED
    BY <1>1, <1>6, <2>2, <2>3, FailKeeps DEF Busy
<1>9. ASSUME result.ok, ReasonToRefuse(result) = "none"
      PROVE  /\ Turn(result) /\ result.calls \in Seq(Requested)
             /\ TextCost(result.text) \in Nat /\ total + TextCost(result.text) <= MaxTotal
             /\ result.calls # <<>> =>
                   /\ ValidTurn(result.calls)
                   /\ calls + Len(result.calls) <= MaxCalls
                   /\ total + TextCost(result.text) + Len(result.calls) <= MaxTotal
  <2>1. Turn(result)
    BY <1>4, <1>9 DEF Refusal
  <2> QED
    BY <1>2, <1>9, <2>1, ReasonTyped DEF Turn, TextCost
<1>10. CASE result.ok /\ ReasonToRefuse(result) = "none" /\ result.calls = <<>>
  <2>1. /\ loop' = "close" /\ UNCHANGED <<failure, ids, todo>>
        /\ total' = total + TextCost(result.text)
    BY <1>3, <1>5, <1>10
  <2>2. total' \in 0..(MaxTotal + MaxResult + 1)
    BY <1>2, <1>9, <1>10, <2>1
  <2>3. ShapeInv' /\ CountInv' /\ TodoInv'
    BY <1>1, <2>1, <2>2 DEF ToolInv, ShapeInv, CountInv, TodoInv, Busy, session
  <2>4. ProgressInv' /\ EndInv'
    BY <1>1, <2>1 DEF ToolInv, ProgressInv, AllDone, AllObserved, Busy, EndInv
  <2> QED
    BY <2>3, <2>4 DEF ToolInv
<1>11. CASE result.ok /\ ReasonToRefuse(result) = "none" /\ result.calls # <<>>
  <2>1. /\ ids' = ids \cup RequestedIds(result.calls) /\ todo' = result.calls
        /\ total' = total + TextCost(result.text) + Len(result.calls)
        /\ loop' = "issue" /\ UNCHANGED failure
    BY <1>3, <1>5, <1>11 DEF Stay
  <2>2. /\ todo' \in Seq(Requested) /\ todo' # <<>>
        /\ ValidTurn(todo') /\ calls + Len(todo') <= MaxCalls /\ total' <= MaxTotal
    BY <1>9, <1>11, <2>1
  <2>3. /\ \A i \in DOMAIN todo' : todo'[i].id \in CallId \ ids
        /\ \A i, j \in DOMAIN todo' : todo'[i].id = todo'[j].id => i = j
    BY <1>9, <1>11, <2>1, TurnIsNew
  <2>4. RequestedIds(todo') \subseteq CallId /\ \A i \in DOMAIN todo' : todo'[i].id \in ids'
    BY <2>1, <2>3 DEF RequestedIds
  <2>5. Len(todo') \in Nat \ {0} /\ 1 \in DOMAIN todo' /\ total' \in 0..(MaxTotal + MaxResult + 1)
    BY <1>2, <1>9, <1>11, <2>1, <2>2
  <2>6. ShapeInv'
    BY <1>1, <2>1, <2>2, <2>4, <2>5 DEF ToolInv, ShapeInv, Busy, session
  <2>7. CountInv'
    BY <1>1, <2>1 DEF ToolInv, CountInv, session
  <2>8. issued' = issued /\ issued \subseteq ids /\ calls' = calls
    BY <1>1 DEF ToolInv, CountInv, session
  <2>9. TodoInv'
    BY <2>1, <2>2, <2>3, <2>4, <2>5, <2>8 DEF TodoInv
  <2>10. ProgressInv' /\ EndInv'
    BY <1>1, <2>1 DEF ToolInv, ProgressInv, AllDone, AllObserved, Busy, EndInv
  <2> QED
    BY <2>6, <2>7, <2>9, <2>10 DEF ToolInv
<1> QED
  BY <1>7, <1>8, <1>10, <1>11

LEMMA BeginCallKeeps == ASSUME ToolInv, BeginCall PROVE ToolInv'
<1> DEFINE log == Append(observations, Started(Head(todo)))
           stops == fired \/ (observing /\ ObservationSize(log) > MaxTotal)
<1>1. /\ loop = "issue" /\ outcome = None /\ failure = None
      /\ UNCHANGED <<observing, turn, ids, todo, total, outcome>>
  BY NoOutcomeYet DEF BeginCall, ToolInv, ProgressInv, Busy
<1>2. CASE stops
  <2>1. Fail("observation_limit") /\ UNCHANGED <<session, calls, events, observations>>
    BY <1>2 DEF BeginCall
  <2> QED
    BY <1>1, <2>1, FailKeeps DEF Busy, Reasons, TurnRefusals, ToolInv, ShapeInv
<1>3. CASE ~stops
  <2> DEFINE id == todo[1].id
  <2>1. /\ observations' = IF observing THEN log ELSE observations
        /\ calls' = calls + 1 /\ events' = Append(events, "started")
        /\ IssueCall(Head(todo).id) /\ loop' = "call" /\ UNCHANGED failure
    BY <1>3 DEF BeginCall, Stay
  <2>2. /\ todo \in Seq(Requested) /\ todo # <<>> /\ id \in ids /\ id \notin issued
        /\ Len(todo) \in Nat \ {0} /\ calls + Len(todo) <= MaxCalls /\ 1 \in DOMAIN todo
        /\ Head(todo) = todo[1]
    BY <1>1 DEF ToolInv, ShapeInv, TodoInv
  <2>3. /\ calls \in Nat /\ MaxCalls \in Nat /\ ids \subseteq CallId
        /\ observations \in Seq(Observed) /\ events \in Seq({"started", "completed"})
        /\ Len(observations) \in Nat /\ Len(events) = calls
    BY LoopAssumption, SMTT(60) DEF ToolInv, ShapeInv, CountInv
  <2>4. /\ Started(todo[1]) \in Observed /\ Started(todo[1]).id = id
    BY <2>2, <2>3 DEF Started, Observed
  <2>5. /\ issued' = issued \cup {id} /\ UNCHANGED <<servers, starting, effects>>
    BY <2>1, <2>2 DEF IssueCall
  <2>6. /\ log \in Seq(Observed) /\ Len(log) = Len(observations) + 1
        /\ DOMAIN log = 1..(Len(observations) + 1)
        /\ \A i \in 1..Len(observations) : log[i] = observations[i]
        /\ log[Len(observations) + 1].id = id
    BY <2>2, <2>3, <2>4
  <2>7. /\ events' \in Seq({"started", "completed"}) /\ Len(events') = calls + 1
        /\ \A i \in 1..calls : events'[i] = events[i]
        /\ DOMAIN events' = 1..(calls + 1) /\ DOMAIN events = 1..calls
    BY <2>1, <2>3
  <2>8. calls' \in 0..MaxCalls /\ calls' > 0 /\ calls' + Len(todo) <= MaxCalls + 1
    BY <2>1, <2>2, <2>3
  <2> HIDE DEF log, id
  <2>9. ShapeInv'
    BY <1>1, <2>1, <2>3, <2>5, <2>6, <2>7, <2>8 DEF ToolInv, ShapeInv, Busy
  <2>10. CountInv'
    <3>1. IsFiniteSet(issued') /\ Cardinality(issued') = calls + 1
      BY <2>2, <2>5, FS_AddElement DEF ToolInv, CountInv
    <3>2. effects' \subseteq issued' /\ issued' \subseteq ids'
      BY <1>1, <2>2, <2>5 DEF ToolInv, CountInv
    <3>3. observing => /\ Len(observations') = calls'
                       /\ issued' = {observations'[i].id : i \in DOMAIN observations'}
      <4> SUFFICES ASSUME observing
                   PROVE  /\ Len(observations') = calls'
                          /\ issued' = {observations'[i].id : i \in DOMAIN observations'}
        OBVIOUS
      <4>1. observations' = log /\ Len(observations) = calls
            /\ issued = {observations[i].id : i \in 1..Len(observations)}
        BY <2>1, <2>3 DEF ToolInv, CountInv
      <4>2. {log[i].id : i \in 1..(Len(observations) + 1)}
              = {observations[i].id : i \in 1..Len(observations)} \cup {id}
        BY <2>3, <2>6
      <4> QED
        BY <2>1, <2>5, <2>6, <4>1, <4>2
    <3>4. ~observing => observations' = <<>>
      BY <2>1 DEF ToolInv, CountInv
    <3> QED
      BY <1>1, <2>1, <2>7, <3>1, <3>2, <3>3, <3>4 DEF CountInv
  <2>11. TodoInv'
    <3>1. \A i \in DOMAIN todo : i # 1 => todo[i].id \notin issued'
      BY <1>1, <2>2, <2>5 DEF ToolInv, TodoInv, id
    <3> QED
      BY <1>1, <2>1, <2>8, <3>1 DEF ToolInv, TodoInv
  <2>12. ProgressInv'
    <3>1. AllDone(events) /\ AllObserved(observations)
      BY <1>1 DEF ToolInv, ProgressInv
    <3>2. ButLast(events')
      BY <2>3, <2>7, <3>1 DEF ButLast, AllDone
    <3>3. ButLastSeen(observations')
      <4>1. CASE observing
        BY <2>1, <2>3, <2>6, <3>1, <4>1, SMTT(60) DEF ButLastSeen, AllObserved
      <4>2. CASE ~observing
        BY <2>1, <3>1, <4>2 DEF ButLastSeen, AllObserved
      <4> QED
        BY <4>1, <4>2
    <3>4. observing => observations' = log /\ ~(ObservationSize(log) > MaxTotal)
      BY <1>3, <2>1
    <3>5. None \notin TurnRefusals
      BY LoopAssumption DEF TurnRefusals, Reasons
    <3>6. observing' = observing /\ failure' = None /\ loop' = "call"
      BY <1>1, <2>1
    <3> QED
      BY <3>2, <3>3, <3>4, <3>5, <3>6 DEF ProgressInv, Busy
  <2>13. EndInv'
    BY <1>1, <2>1 DEF EndInv
  <2> QED
    BY <2>9, <2>10, <2>11, <2>12, <2>13 DEF ToolInv
<1> QED
  BY <1>2, <1>3

LEMMA CallReturnsKeeps == ASSUME ToolInv, CallReturns PROVE ToolInv'
<1> DEFINE Log(size) == IF observing THEN Completed(observations, size) ELSE observations
           Large(size) == size > MaxResult \/ total + size > MaxTotal
           Stops(size) == fired \/ Large(size) \/ (observing /\ ObservationSize(Log(size)) > MaxTotal)
<1>1. /\ loop = "call" /\ outcome = None /\ failure = None
      /\ UNCHANGED <<session, observing, turn, ids, calls, outcome>>
  BY NoOutcomeYet DEF CallReturns, ToolInv, ProgressInv, Busy
<1>2. PICK size \in 1..MaxResult + 1 :
        /\ total' = total + size
        /\ IF Stops(size)
           THEN /\ Fail(IF Large(size) THEN "output_limit" ELSE "observation_limit")
                /\ UNCHANGED <<todo, events, observations>>
           ELSE /\ observations' = Log(size)
                /\ events' = [events EXCEPT ![Len(events)] = "completed"]
                /\ todo' = Tail(todo)
                /\ loop' = IF Len(todo) = 1 THEN "turn" ELSE "issue"
                /\ Stay
  BY DEF CallReturns
<1>3. total' \in 0..(MaxTotal + MaxResult + 1) /\ size \in Nat /\ total \in Nat
      /\ MaxTotal \in Nat /\ MaxResult \in Nat /\ MaxCalls \in Nat
  BY <1>1, <1>2, LoopAssumption, SMTT(60) DEF ToolInv, ShapeInv, Busy
<1>4. CASE Stops(size)
  <2>1. PICK reason \in {"output_limit", "observation_limit"} : Fail(reason)
    BY <1>2, <1>4
  <2>2. reason \in Reasons /\ reason \notin TurnRefusals
    BY DEF Reasons, TurnRefusals
  <2> QED
    BY <1>1, <1>2, <1>3, <1>4, <2>1, <2>2, FailKeeps DEF Busy
<1>5. CASE ~Stops(size)
  <2>1. /\ observations' = Log(size)
        /\ events' = [events EXCEPT ![Len(events)] = "completed"]
        /\ todo' = Tail(todo) /\ loop' = IF Len(todo) = 1 THEN "turn" ELSE "issue"
        /\ UNCHANGED failure
    BY <1>2, <1>5 DEF Stay
  <2>2. /\ todo \in Seq(Requested) /\ todo # <<>> /\ Len(todo) \in Nat \ {0}
        /\ calls \in Nat /\ calls > 0 /\ calls + Len(todo) <= MaxCalls + 1
        /\ events \in Seq({"started", "completed"}) /\ Len(events) = calls
        /\ observations \in Seq(Observed) /\ Len(observations) \in Nat
    BY <1>1 DEF ToolInv, ShapeInv, TodoInv, CountInv
  <2>3. total' <= MaxTotal
    BY <1>2, <1>3, <1>5
  <2>4. /\ todo' \in Seq(Requested) /\ Len(todo') = Len(todo) - 1
        /\ \A i \in DOMAIN todo' : i + 1 \in DOMAIN todo /\ i + 1 # 1 /\ todo'[i] = todo[i + 1]
        /\ DOMAIN todo' \subseteq Nat \ {0}
        /\ loop' = "issue" => Len(todo) # 1
    BY <2>1, <2>2
  <2>5. /\ events' \in Seq({"started", "completed"}) /\ Len(events') = calls
        /\ DOMAIN events' = DOMAIN events
        /\ \A i \in DOMAIN events : events'[i] = IF i = Len(events) THEN "completed" ELSE events[i]
    BY <2>1, <2>2
  <2>6. ASSUME observing
        PROVE  /\ observations' \in Seq(Observed) /\ Len(observations') = Len(observations)
               /\ DOMAIN observations' = DOMAIN observations
               /\ \A i \in DOMAIN observations :
                    /\ observations'[i].id = observations[i].id
                    /\ i # Len(observations) => observations'[i] = observations[i]
                    /\ i = Len(observations) => observations'[i].status = "completed"
               /\ ~(ObservationSize(observations') > MaxTotal)
    <3> DEFINE last == observations[Len(observations)]
               done == [last EXCEPT !.status = "completed", !.result = size]
    <3>1. Len(observations) = calls
      BY <2>6 DEF ToolInv, CountInv
    <3>2. last \in Observed /\ Len(observations) \in DOMAIN observations
      BY <2>2, <3>1
    <3>3. done \in Observed /\ done.id = last.id /\ done.status = "completed"
      BY <1>3, <3>2 DEF Observed
    <3>4. observations' = [observations EXCEPT ![Len(observations)] = done]
      BY <2>1, <2>6 DEF Completed
    <3>5. observing /\ ~(ObservationSize(observations') > MaxTotal)
      BY <1>5, <2>1, <2>6
    <3> HIDE DEF done
    <3> QED
      BY <2>2, <3>2, <3>3, <3>4, <3>5
  <2>7. ~observing => observations' = observations
    BY <2>1
  <2>8. observations' \in Seq(Observed)
    BY <2>2, <2>6, <2>7
  <2>9. ShapeInv'
    BY <1>1, <1>3, <2>1, <2>3, <2>4, <2>5, <2>8 DEF ToolInv, ShapeInv, Busy, session
  <2>10. CountInv'
    <3>1. observing => /\ Len(observations') = calls
                       /\ issued = {observations'[i].id : i \in DOMAIN observations'}
      <4> SUFFICES ASSUME observing
                   PROVE  /\ Len(observations') = calls
                          /\ issued = {observations'[i].id : i \in DOMAIN observations'}
        OBVIOUS
      <4>1. Len(observations) = calls
            /\ issued = {observations[i].id : i \in DOMAIN observations}
        BY DEF ToolInv, CountInv
      <4>2. {observations'[i].id : i \in DOMAIN observations'}
              = {observations[i].id : i \in DOMAIN observations}
        BY <2>6
      <4> QED
        BY <2>6, <4>1, <4>2
    <3>2. ~observing => observations' = <<>>
      BY <2>7 DEF ToolInv, CountInv
    <3>3. IsFiniteSet(issued) /\ calls = Cardinality(issued)
          /\ effects \subseteq issued /\ issued \subseteq ids
      BY DEF ToolInv, CountInv
    <3>4. UNCHANGED <<issued, effects, ids, calls, observing>>
      BY <1>1 DEF session
    <3> QED
      BY <2>5, <3>1, <3>2, <3>3, <3>4 DEF CountInv
  <2>11. TodoInv'
    <3>1. /\ \A i \in DOMAIN todo : todo[i].id \in ids
          /\ \A i, j \in DOMAIN todo : todo[i].id = todo[j].id => i = j
          /\ \A i \in DOMAIN todo : i # 1 => todo[i].id \notin issued
      BY <1>1 DEF ToolInv, TodoInv
    <3>2. /\ \A i \in DOMAIN todo' : todo'[i].id \in ids
          /\ \A i, j \in DOMAIN todo' : todo'[i].id = todo'[j].id => i = j
          /\ \A i \in DOMAIN todo' : todo'[i].id \notin issued
      BY <2>4, <3>1
    <3>3. loop' = "issue" => todo' # <<>> /\ 1 \in DOMAIN todo' /\ calls + Len(todo') <= MaxCalls
      BY <1>3, <2>2, <2>4
    <3>4. UNCHANGED <<issued, ids, calls>> /\ loop' # "call"
      BY <1>1, <2>1 DEF session
    <3> QED
      BY <3>2, <3>3, <3>4 DEF TodoInv
  <2>12. ProgressInv'
    <3>1. ButLast(events) /\ ButLastSeen(observations)
      BY <1>1 DEF ToolInv, ProgressInv
    <3>2. AllDone(events')
      BY <2>5, <3>1 DEF AllDone, ButLast
    <3>3. AllObserved(observations')
      <4>1. CASE observing
        BY <2>6, <3>1, <4>1 DEF AllObserved, ButLastSeen
      <4>2. CASE ~observing
        <5>1. observations' = <<>>
          BY <2>7, <4>2 DEF ToolInv, CountInv
        <5> QED
          BY <5>1 DEF AllObserved
      <4> QED
        BY <4>1, <4>2
    <3>4. observing' = observing /\ failure' = None /\ loop' \in {"turn", "issue"}
      BY <1>1, <2>1
    <3>5. observing' => ~(ObservationSize(observations') > MaxTotal)
      BY <2>6, <3>4
    <3> QED
      BY <3>2, <3>3, <3>4, <3>5 DEF ProgressInv, Busy
  <2>13. EndInv'
    BY <1>1, <2>1 DEF EndInv
  <2> QED
    BY <2>9, <2>10, <2>11, <2>12, <2>13 DEF ToolInv
<1> QED
  BY <1>4, <1>5

LEMMA ToolInvariant == Spec => []ToolInv
<1>1. ToolInv /\ [ToolNext]_tools => ToolInv'
  <2> SUFFICES ASSUME ToolInv, [ToolNext]_tools PROVE ToolInv'
    OBVIOUS
  <2>1. CASE LoopStep
    BY <2>1, OpenNextKeeps, OpenedKeeps, NextTurnKeeps, BeginCallKeeps, CloseKeeps, ReportKeeps
       DEF LoopStep
  <2>2. CASE Connected
    BY <2>2, OpenNextKeeps
  <2>3. CASE OpenThrows
    BY <2>3, OpenThrowsKeeps
  <2>4. CASE TimerFires
    BY <2>4, SameKeeps DEF TimerFires
  <2>5. CASE ModelReplies
    BY <2>5, ModelRepliesKeeps
  <2>6. CASE ModelThrows \/ CallThrows
    BY <2>6, ThrowsKeep
  <2>7. CASE CallReturns
    BY <2>7, CallReturnsKeeps
  <2>8. CASE ActLate
    BY <2>8, ActLateKeeps
  <2>9. CASE UNCHANGED tools
    BY <2>9, SameKeeps DEF tools
  <2> QED
    BY <2>1, <2>2, <2>3, <2>4, <2>5, <2>6, <2>7, <2>8, <2>9 DEF ToolNext
<1>2. Init => ToolInv
  BY InitTool DEF Init
<1>3. [Next]_vars => [ToolNext]_tools
  BY DEF Next, PlanStep, ToolStep, vars
<1> QED
  BY <1>1, <1>2, <1>3, PTL DEF Spec

-----------------------------------------------------------------------------
(* What it gives.                                                          *)

LEMMA InvIsTyped == ToolInv => ToolTypeOK
  BY DEF ToolInv, ShapeInv, CountInv, ToolTypeOK, SessionTypeOK, Busy

LEMMA InvAccounts == ToolInv => CaseIsAccountable
<1> SUFFICES ASSUME ToolInv PROVE CaseIsAccountable
  OBVIOUS
<1>1. /\ IsFiniteSet(issued) /\ calls = Cardinality(issued)
      /\ effects \subseteq issued /\ issued \subseteq ids /\ calls \in Nat
  BY LoopAssumption DEF ToolInv, CountInv, ShapeInv
<1>2. Cardinality(effects) <= calls
  BY <1>1, FS_Subset
<1>3. ASSUME outcome # None
      PROVE  /\ loop = "done" /\ outcome.tool_calls = calls /\ outcome.observations = observations
             /\ outcome.status = "completed" => failure = None
  <2>1. /\ loop = "done"
        /\ outcome = [status |-> IF failure = None THEN "completed" ELSE "failed",
                      tool_calls |-> calls, observations |-> observations,
                      provider_failure |-> failure]
    BY <1>3 DEF ToolInv, EndInv
  <2> QED
    BY <2>1
<1>4. EffectsAreReported
  BY <1>2, <1>3 DEF EffectsAreReported
<1>5. EvidenceIsAccepted
  <2> SUFFICES ASSUME outcome # None, outcome.status = "completed", observing
               PROVE  JudgeAccepts(outcome)
    BY DEF EvidenceIsAccepted
  <2>1. outcome.tool_calls = calls /\ outcome.observations = observations
        /\ loop = "done" /\ failure = None
    BY <1>3
  <2>2. AllObserved(observations) /\ ~(ObservationSize(observations) > MaxTotal)
    BY <2>1 DEF ToolInv, ProgressInv
  <2>3. Len(observations) = calls /\ issued = {observations[i].id : i \in DOMAIN observations}
    BY DEF ToolInv, CountInv
  <2> QED
    BY <1>1, <2>1, <2>2, <2>3 DEF JudgeAccepts, AllObserved
<1>6. RefusedTurnIsHarmless
  BY <1>1 DEF RefusedTurnIsHarmless, ToolInv, ProgressInv, TurnRefusals, AllDone
<1>7. SessionsAreClosed
  BY DEF SessionsAreClosed, ToolInv, EndInv
<1> QED
  BY <1>4, <1>5, <1>6, <1>7 DEF CaseIsAccountable

(* However many servers, turns, calls and bytes a configuration allows,    *)
(* executeWithTools (tool-execution.ts) stays within its types and limits. *)
THEOREM CaseTyped == Spec => []ToolTypeOK
  BY ToolInvariant, InvIsTyped, PTL

(* However a case with tools ends (tool-execution.ts: an answer, a refused *)
(* turn, a limit, the timeout in the middle of a call, a dead server), its *)
(* report counts every effect it had, getJudgeObservations accepts the     *)
(* evidence of a completed one, and no server of its session is left.      *)
THEOREM CasesAreAccountable == Spec => []CaseIsAccountable
  BY ToolInvariant, InvAccounts, PTL
=============================================================================
