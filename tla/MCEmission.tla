----------------------------- MODULE MCEmission ------------------------------
(* The nightly workflow on two skills, or a job that emits gate rows one   *)
(* invocation at a time; the machine that Init does not choose stays idle. *)
EXTENDS NightlyEvidence, EmitCommand

Ended(exitCode, decisions) == [exit |-> exitCode, decisions |-> decisions, stub |-> FALSE]

MCChildren ==
    {Ended(0, <<"pass">>), Ended(0, <<"fail">>), Ended(0, <<"pass", "advisory">>),
     Ended(2, <<"error">>), Ended(2, <<"pass", "error">>), Ended(3, <<>>)}
    \cup {[Ended(0, <<"pass">>) EXCEPT !.stub = TRUE], [Ended(3, <<>>) EXCEPT !.stub = TRUE]}

MCPolicies ==
    {DefaultPolicy({})} \cup
    {[DefaultPolicy(required) EXCEPT !.advisoryBlocks = strict, !.allowUnknown = ~strict,
                                     !.valid = valid] :
        required \in SUBSET (SUBSET Gates \ {{}}), strict \in BOOLEAN, valid \in BOOLEAN}

VARIABLE machine

MCInit ==
    /\ machine \in {"nightly", "emit"}
    /\ NightlyInit /\ EmitInit
    /\ machine = "nightly" => policy = DefaultPolicy({})

MCNext ==
    /\ UNCHANGED machine
    /\ \/ machine = "nightly" /\ NightlyNext /\ UNCHANGED emitVars
       \/ machine = "emit" /\ EmitNext /\ UNCHANGED nightly

MCSpec == MCInit /\ [][MCNext]_<<machine, nightly, emitVars>>

(* The evidence that leaves the repository is what was measured: the rows  *)
(* and the flips of the published manifest, and the envelopes of the       *)
(* command.                                                                *)
EvidenceIsHonest == RowsAreEarned /\ FlipsAreReal /\ SignedIsBound
==============================================================================
