--------------------------- MODULE PlanTransport ---------------------------
(***************************************************************************)
(* The MiniMax plan transport (minimax-plan.ts): one queue of requests, a  *)
(* cached quota reading, a gap between starts, one recovery per provider   *)
(* instance, and a circuit that closes the transport for everyone behind.  *)
(* Times are relative, in one unit, and saturate: the age of the reading,  *)
(* the time left until a reset, the rest of a sleep, the rest of the gap.  *)
(***************************************************************************)
EXTENDS Naturals, Sequences, FiniteSetsExt

CONSTANTS Request, ModelOf, Answers,
          Gap, Cache, Recovery, OverloadWait, Soon, Late, None

VARIABLES canonical,     \* is the base URL the one the plan knows
          queue,         \* requests not finished, the head being sent
          send,          \* where the head's send() is
          settled,       \* what each caller has been told
          aborted,       \* callers whose signal fired
          quota, circuit, recoveryUsed,
          pause,         \* nextStart - now
          sends,         \* history: every completion call and its reading
          lull           \* history: time since the last completion call

plan == <<canonical, queue, send, settled, aborted, quota, circuit, recoveryUsed,
          pause, sends, lull>>

Thrown(what) == [kind |-> "thrown", what |-> what]
Refused == Thrown("refused")
Aborted == Thrown("abort")
Waiting == [kind |-> "waiting"]
Unsent  == [kind |-> "unsent"]

Idle == [step |-> "idle", rest |-> 0, held |-> None]
At(step, rest, held) == [step |-> step, rest |-> rest, held |-> held]

\* An explicit rejection for overload, without a trace of output.
IsRejectedOverload(response) ==
    /\ response.status \in {503, 529}
    /\ ~response.body.choices /\ ~response.body.usage
    /\ response.body.code = "2064"

Limits(response) == response.status = 429 \/ IsRejectedOverload(response)
Succeeds(response) == response.status \in 200..299

\* Readings parsePlanQuota accepts: blockedUntil, relative, is all that is used
\* of the percentages and reset times (None: both windows have allowance).
Reading(model) == [model : {model}, age : {0}, reset : {None, Soon, Late}]

Blocked(reading) == reading.reset # None
UntilReset(reading) == reading.reset + 1

PlanInit ==
    /\ canonical \in BOOLEAN
    /\ queue = <<>> /\ send = Idle
    /\ settled = [r \in Request |-> Unsent]
    /\ aborted = {}
    /\ quota = None /\ circuit = None /\ recoveryUsed = FALSE
    /\ pause = 0 /\ sends = <<>> /\ lull = Gap

(* Callers: submit in any order, and give up at any time after that. *)
Submit(r) ==
    /\ settled[r] = Unsent
    /\ settled' = [settled EXCEPT ![r] = Waiting]
    /\ queue' = Append(queue, r)
    /\ UNCHANGED <<canonical, send, aborted, quota, circuit, recoveryUsed, pause, sends, lull>>

Abort(r) ==
    /\ settled[r] = Waiting /\ r \notin aborted
    /\ aborted' = aborted \cup {r}
    /\ settled' = [settled EXCEPT ![r] = Aborted]
    /\ UNCHANGED <<canonical, queue, send, quota, circuit, recoveryUsed, pause, sends, lull>>

Active == Head(queue)

\* send() ends; a caller that gave up has its answer already.
End(outcome) ==
    /\ send' = Idle
    /\ queue' = Tail(queue)
    /\ settled' = [settled EXCEPT ![Active] = IF @ = Waiting THEN outcome ELSE @]

GoTo(step, rest, held) ==
    send' = At(step, rest, held) /\ UNCHANGED <<queue, settled>>

\* Mutant: a reading is shared by the models.
FreshAnyModel(r) == quota # None /\ quota.age < Cache

Fresh(r) == quota # None /\ quota.model = ModelOf[r] /\ quota.age < Cache

\* The completion call goes out, unless its caller gave up meanwhile.
Dispatch(step, held) ==
    IF Active \in aborted
    THEN End(Aborted) /\ UNCHANGED <<pause, sends, lull>>
    ELSE /\ GoTo(step, 0, held)
         /\ pause' = Gap
         /\ sends' = Append(sends, [req |-> Active, model |-> quota'.model,
                                     blocked |-> Blocked(quota')])
         /\ lull' = 0

Pace ==
    IF pause > 0
    THEN GoTo("pace", pause, None) /\ UNCHANGED <<pause, sends, lull>>
    ELSE Dispatch("sent", None)

Recover(rest, held) ==
    /\ circuit' = Refused
    /\ recoveryUsed' = (recoveryUsed \/ rest <= Recovery)
    /\ IF recoveryUsed \/ rest > Recovery
       THEN End(Refused)
       ELSE GoTo("cooldown", rest, held)
    /\ UNCHANGED <<pause, sends, lull>>

\* What follows a usable reading at the start of send().
Admit ==
    IF Blocked(quota')
    THEN Recover(UntilReset(quota'), None)
    ELSE Pace /\ UNCHANGED <<circuit, recoveryUsed>>

\* Mutant: only an error closes the transport, a kept response does not.
StartOnErrorOnly ==
    /\ send.step = "idle" /\ queue # <<>>
    /\ UNCHANGED <<canonical, aborted, quota>>
    /\ IF Active \in aborted \/ ~canonical \/ circuit = Refused
       THEN /\ End(CASE Active \in aborted -> Aborted
                     [] Active \notin aborted /\ ~canonical -> Refused
                     [] OTHER -> circuit)
            /\ UNCHANGED <<circuit, recoveryUsed, pause, sends, lull>>
       ELSE IF Fresh(Active)
       THEN Admit
       ELSE GoTo("quota", 0, None) /\ UNCHANGED <<circuit, recoveryUsed, pause, sends, lull>>

Start ==
    /\ send.step = "idle" /\ queue # <<>>
    /\ UNCHANGED <<canonical, aborted, quota>>
    /\ IF Active \in aborted \/ ~canonical \/ circuit # None
       THEN /\ End(CASE Active \in aborted -> Aborted
                     [] Active \notin aborted /\ ~canonical -> Refused
                     [] OTHER -> circuit)
            /\ UNCHANGED <<circuit, recoveryUsed, pause, sends, lull>>
       ELSE IF Fresh(Active)
       THEN Admit
       ELSE GoTo("quota", 0, None) /\ UNCHANGED <<circuit, recoveryUsed, pause, sends, lull>>

\* A reading that is missing, unusable or refused; an abort is nobody's fault.
QuotaFails ==
    /\ send.step \in {"quota", "recheck", "requota"}
    /\ \/ Active \in aborted /\ End(Aborted) /\ UNCHANGED circuit
       \/ Active \notin aborted /\ End(Refused) /\ circuit' = Refused
    /\ UNCHANGED <<canonical, aborted, quota, recoveryUsed, pause, sends, lull>>

QuotaArrives ==
    /\ send.step = "quota"
    /\ quota' \in Reading(ModelOf[Active])
    /\ Admit
    /\ UNCHANGED <<canonical, aborted>>

\* The reading after a limit decides how long to wait, and whether to.
LimitWait(response, reading) ==
    Max({IF IsRejectedOverload(response) THEN OverloadWait ELSE 0,
         IF Blocked(reading) THEN UntilReset(reading)
         ELSE IF IsRejectedOverload(response) THEN OverloadWait ELSE Recovery,
         response.retryAfter})

RequotaArrives ==
    /\ send.step = "requota"
    /\ quota' \in Reading(ModelOf[Active])
    /\ LET rest == LimitWait(send.held, quota')
       IN IF IsRejectedOverload(send.held) /\ rest > Recovery
          THEN End(send.held) /\ UNCHANGED <<circuit, recoveryUsed, pause, sends, lull>>
          ELSE Recover(rest, send.held)
    /\ UNCHANGED <<canonical, aborted>>

\* sleep() ends on time, or at once when the signal fires.
WakeUp ==
    /\ send.step \in {"cooldown", "pace"}
    /\ send.rest = 0 \/ Active \in aborted
    /\ UNCHANGED <<canonical, aborted, quota, circuit, recoveryUsed>>
    /\ IF Active \in aborted
       THEN End(Aborted) /\ UNCHANGED <<pause, sends, lull>>
       ELSE IF send.step = "pace"
       THEN Dispatch("sent", None)
       ELSE GoTo("recheck", 0, send.held) /\ UNCHANGED <<pause, sends, lull>>

\* A reading after the wait: still exhausted closes for good, otherwise the
\* request goes on where it was, or is sent a second time after a limit.
RecheckArrives ==
    /\ send.step = "recheck"
    /\ quota' \in Reading(ModelOf[Active])
    /\ IF Blocked(quota')
       THEN circuit' = Refused /\ End(Refused) /\ UNCHANGED <<pause, sends, lull>>
       ELSE IF send.held = None
       THEN circuit' = None /\ Pace
       ELSE circuit' = send.held /\ Dispatch("retry", send.held)
    /\ UNCHANGED <<canonical, aborted, recoveryUsed>>

\* The endpoint answers the first call ...
AnswerArrives ==
    /\ send.step = "sent"
    /\ \E response \in Answers :
        /\ circuit' = IF Limits(response) \/ response.status = 402 THEN response ELSE circuit
        /\ IF Limits(response) /\ ~recoveryUsed
           THEN GoTo("requota", 0, response)
           ELSE End(response)
    /\ UNCHANGED <<canonical, aborted, quota, recoveryUsed, pause, sends, lull>>

\* ... and the second; only success reopens the transport.
RetryArrives ==
    /\ send.step = "retry"
    /\ \E response \in Answers :
        /\ circuit' = IF Succeeds(response) THEN None ELSE response
        /\ End(response)
    /\ UNCHANGED <<canonical, aborted, quota, recoveryUsed, pause, sends, lull>>

TransportThrows ==
    /\ send.step \in {"sent", "retry"}
    /\ End(IF Active \in aborted THEN Aborted ELSE Thrown("socket"))
    /\ UNCHANGED <<canonical, aborted, quota, circuit, recoveryUsed, pause, sends, lull>>

Less(time) == IF time = 0 THEN 0 ELSE time - 1

\* One unit of time, while something can still notice it.
Tick ==
    /\ send' = [send EXCEPT !.rest = Less(@)]
    /\ pause' = Less(pause)
    /\ lull' = Min({lull + 1, Gap})
    /\ quota' = IF quota = None THEN None
                ELSE [quota EXCEPT !.age = Min({@ + 1, Cache}),
                                   !.reset = IF @ = None THEN None ELSE Less(@)]
    /\ UNCHANGED <<canonical, queue, settled, aborted, circuit, recoveryUsed, sends>>

\* Something that is awaited arrives: a service or the event loop owes it.
PlanCallback ==
    \/ Start \/ QuotaFails \/ QuotaArrives \/ RequotaArrives \/ WakeUp
    \/ RecheckArrives \/ AnswerArrives \/ RetryArrives \/ TransportThrows

PlanNext ==
    \/ \E r \in Request : Submit(r) \/ Abort(r)
    \/ PlanCallback
    \/ Tick

-----------------------------------------------------------------------------
PlanTypeOK ==
    /\ canonical \in BOOLEAN /\ recoveryUsed \in BOOLEAN
    /\ queue \in Seq(Request)
    /\ send \in [step : {"idle", "quota", "cooldown", "recheck", "pace", "sent",
                         "requota", "retry"},
                 rest : 0..Late, held : Answers \cup {None}]
    /\ settled \in [Request -> {Unsent, Waiting, Aborted, Refused, Thrown("socket")} \cup Answers]
    /\ aborted \subseteq Request
    /\ circuit \in {None, Refused} \cup Answers
    /\ pause \in 0..Gap /\ lull \in 0..Gap

\* The calls that were made for a request.
CallsFor(r) == {i \in DOMAIN sends : sends[i].req = r}

(* A request goes out at most twice, and only one request in the life of   *)
(* the transport does: nothing that was answered is replayed, however many *)
(* callers meet a limit.                                                   *)
OneRetryAtMost ==
    /\ \A r \in Request : Cardinality(CallsFor(r)) <= 2
    /\ Cardinality({r \in Request : Cardinality(CallsFor(r)) = 2}) <= 1

(* Every completion call, the retry included, goes out on a reading of its *)
(* own model that shows allowance, whoever the reading was made for.       *)
SentUnderQuota ==
    \A i \in DOMAIN sends :
        sends[i].model = ModelOf[sends[i].req] /\ ~sends[i].blocked

\* Starts are at least one gap apart, the retry included.
SpacedStep == sends' # sends => lull = Gap

\* A transport that a finished request left closed stays so, and sends nothing.
ClosedStep ==
    circuit # None /\ send.step = "idle" => circuit' = circuit /\ sends' = sends

\* A caller that gave up before its call began never costs a call.
AbortedStep == \A r \in aborted : {i \in DOMAIN sends' : sends'[i].req = r} = CallsFor(r)

(* What no step of the transport does: start too early, spend against a    *)
(* closed plan or for nobody (minimax-plan.ts:94-99).                      *)
SpendsCarefully == [][SpacedStep /\ ClosedStep /\ AbortedStep]_plan

(* Every caller hears something, and the queue behind it drains.           *)
CallersSettle == <>[](queue = <<>> /\ \A r \in Request : settled[r] # Waiting)
=============================================================================
