----------------------------- MODULE EmitCommand -----------------------------
(***************************************************************************)
(* `j-rig emit-evidence' and `j-rig emit-refiner-pass': one invocation     *)
(* composes a statement, validates it, and prints it or has cosign sign    *)
(* it.  A CI job collects what the invocations that exited 0 printed into  *)
(* a bundle and asks the rollout gate after each.                          *)
(***************************************************************************)
EXTENDS RolloutGate, Integers

CONSTANTS Gates,     \* gate ids
          Policies,  \* rollout policies
          MaxCalls   \* bound: invocations of one job

ASSUME EmitAssumption == Gates # {} /\ MaxCalls \in Nat

VARIABLES calls,      \* invocations made
          call,       \* the running invocation, NoCall between two
          composed,   \* its validated statement
          exit,       \* its exit code, "running" until it has one
          printed,    \* what it wrote to its output
          rows,       \* the bundle: statements collected so far
          nonVerdict, \* history: rows routed from NOT_APPLICABLE
          policy, decision  \* the gate's policy and its last decision

gateVars == <<rows, nonVerdict, policy, decision>>
emitVars == <<calls, call, composed, exit, printed, gateVars>>

-----------------------------------------------------------------------------
(* What an invocation is given.  emit-evidence: the gate and its raw       *)
(* decision, whether every required field is there and well-formed, how it *)
(* signs and which artifact it was pointed at.  emit-refiner-pass: whether *)
(* the accept record spells its keys in one of the two known ways, is      *)
(* complete, and satisfies the accept invariant of the kernel schema.      *)

Raw == {"pass", "fail", "advisory", "error", "NOT_APPLICABLE", "unknown"}
Signing == {"off", "no-key", "key", "keyless"}
Artifact == {"absent", "missing-file", "other-file", "hashed-file"}

GateCall == {c \in [command : {"evidence"}, gate : Gates, raw : Raw, complete : BOOLEAN,
                     sign : Signing, exclusive : BOOLEAN, artifact : Artifact] :
               c.sign = "off" => ~c.exclusive /\ c.artifact = "absent"}

RefinerCall == [command : {"refiner-pass"}, gate : Gates, keys : {"snake", "camel", "typo"},
                complete : BOOLEAN, invariant : BOOLEAN, sign : {"off"}]

NoCall == [command |-> "none"]
NoOutput == [form |-> "none"]

\* parseDecision: GateResultEnum.
IsGateResult(raw) == raw \in {"pass", "fail", "advisory", "error"}

\* resolveDecision: NOT_APPLICABLE becomes a pass with a reserved skip token.
ResolveDecision(raw) ==
    [decision |-> IF raw = "NOT_APPLICABLE" THEN "pass" ELSE raw,
     skipped |-> raw = "NOT_APPLICABLE"]

\* buildComposeInput and composeStatement: every required field, a known
\* decision, a valid statement; else the command throws.
Composes(c) ==
    /\ c.complete
    /\ IsGateResult(c.raw) \/ c.raw = "NOT_APPLICABLE"

Composed(c) ==
    [statement |-> Statement(c.gate, ResolveDecision(c.raw).decision, "absent", "absent"),
     nonVerdict |-> ResolveDecision(c.raw).skipped]

\* signAndEmit: the refusals before cosign is called.
Refuses(c) ==
    c.sign = "no-key" \/ c.exclusive \/ c.artifact # "hashed-file"

-----------------------------------------------------------------------------
Invoke ==
    /\ call = NoCall /\ calls < MaxCalls
    /\ call' \in GateCall \cup RefinerCall
    /\ calls' = calls + 1
    /\ UNCHANGED <<composed, exit, printed, gateVars>>

ExitWith(code) == exit' = code /\ UNCHANGED <<calls, call, composed, printed, gateVars>>

Running == call # NoCall /\ exit = "running"

\* The action up to its first output: composed, refused, or an exception.
Compose ==
    /\ Running /\ call.command = "evidence" /\ composed = NoOutput
    /\ IF Composes(call)
       THEN composed' = Composed(call) /\ UNCHANGED <<calls, call, exit, printed, gateVars>>
       ELSE ExitWith("1")

\* writeOut: any exception of it is caught by the action and exits 1.
Write(form) ==
    \/ /\ printed' = [form |-> form, content |-> composed]
       /\ exit' = "0"
       /\ UNCHANGED <<calls, call, composed, gateVars>>
    \/ ExitWith("1")

EmitPlain ==
    /\ Running /\ composed # NoOutput /\ call.sign = "off"
    /\ \E form \in {"statement", "body"} : Write(form)

\* cosign may not start, may fail, or signs; the temporary files always go.
SignAndEmit ==
    /\ Running /\ composed # NoOutput /\ call.sign # "off"
    /\ IF Refuses(call) THEN ExitWith("1")
       ELSE ExitWith("2") \/ ExitWith("3") \/ Write("envelope")

\* normalizeRecord refuses an unknown key; the kernel schema does the rest.
RefinerBody(c) == c.keys # "typo" /\ c.complete /\ c.invariant

\* emit-refiner-pass: a write that fails has an exit code of its own.
EmitRefinerPass ==
    /\ Running /\ call.command = "refiner-pass"
    /\ IF ~RefinerBody(call) THEN ExitWith("1")
       ELSE \/ /\ printed' \in {[form |-> form, content |-> composed] :
                                    form \in {"refiner-statement", "body"}}
               /\ exit' = "0"
               /\ UNCHANGED <<calls, call, composed, gateVars>>
            \/ ExitWith("2")

\* The gate's schema knows one predicate type: a refiner statement is invalid.
RowPrinted == IF printed.form = "statement" THEN composed.statement ELSE InvalidRow(call.gate)

\* The job appends the statement to its bundle and asks the gate again.
Collect ==
    /\ call # NoCall /\ exit # "running"
    /\ IF exit = "0" /\ printed.form \in {"statement", "refiner-statement"}
       THEN /\ rows' = Append(rows, RowPrinted)
            /\ nonVerdict' = IF printed.form = "statement" /\ composed.nonVerdict
                             THEN nonVerdict \cup {Len(rows) + 1} ELSE nonVerdict
       ELSE UNCHANGED <<rows, nonVerdict>>
    /\ decision' = DecideRelease(TRUE, rows', policy)
    /\ call' = NoCall /\ composed' = NoOutput /\ exit' = "running" /\ printed' = NoOutput
    /\ UNCHANGED <<calls, policy>>

\* Rows of other tools reach the same bundle: stub rows, ungrounded or invalid.
ForeignRows ==
    {Statement(gate, verdict, origin[1], origin[2]) :
        gate \in Gates, verdict \in {"pass", "error"},
        origin \in {<<"real", "yes">>, <<"stub", "no">>}}
    \cup {InvalidRow(gate) : gate \in Gates}

CollectForeign ==
    /\ call = NoCall /\ calls < MaxCalls
    /\ \E row \in ForeignRows : rows' = Append(rows, row)
    /\ decision' = DecideRelease(TRUE, rows', policy)
    /\ calls' = calls + 1
    /\ UNCHANGED <<call, composed, exit, printed, nonVerdict, policy>>

EmitInit ==
    /\ calls = 0 /\ call = NoCall /\ composed = NoOutput
    /\ exit = "running" /\ printed = NoOutput
    /\ rows = <<>> /\ nonVerdict = {}
    /\ policy \in Policies
    /\ decision = DecideRelease(TRUE, rows, policy)

EmitNext ==
    \/ Invoke \/ Compose \/ EmitPlain \/ SignAndEmit \/ EmitRefinerPass
    \/ Collect \/ CollectForeign

-----------------------------------------------------------------------------
(* Fail closed, row by row: more evidence never lifts a block, unless the  *)
(* bundle was empty or a required gate was still missing from it.  Neither *)
(* a second row of a gate nor a row of another gate hides a bad one.       *)
AppendNeverUnblocks ==
    [][decision = "block" /\ decision' = "allow" =>
         \/ rows = <<>>
         \/ \E pattern \in policy.required : MatchedBy(rows, pattern) = {}
      ]_emitVars

(* An envelope is printed only for a statement over the very file whose    *)
(* hash the gate recorded, and an invocation that fails prints nothing.    *)
SignedIsBound ==
    /\ printed.form = "envelope" => call.artifact = "hashed-file"
    /\ exit \notin {"running", "0"} => printed = NoOutput
    /\ exit = "0" => printed.content = composed

(* MIGRATION.md asks the rollout gate to inspect the skipped dimensions of *)
(* every passing row: a gate that did not apply is not a green light, so a *)
(* required gate needs a row with a verdict.                               *)
NonVerdictIsNotGreen ==
    decision = "allow" =>
        \A pattern \in policy.required : MatchedBy(rows, pattern) \ nonVerdict # {}
==============================================================================
