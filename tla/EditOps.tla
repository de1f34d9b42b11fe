------------------------------- MODULE EditOps -------------------------------
(***************************************************************************)
(* Bounded edits of a SKILL.md: what is kept of a model's answer, and what *)
(* applyEdit() makes of a text.  A text is a sequence of tokens; the token *)
(* "$&" is the one String.replace() does not take for itself.              *)
(***************************************************************************)
EXTENDS Naturals, Sequences, FiniteSets, SequencesExt

CONSTANT MaxOps     \* MAX_OPS_PER_PROPOSAL

Failed == <<"an anchor is missing, empty or ambiguous">>

Positions(text, anchor) ==
    {i \in 1..(Len(text) + 1 - Len(anchor)) : SubSeq(text, i, i + Len(anchor) - 1) = anchor}

\* indexOf() from the end of the last occurrence: those that overlap it are
\* not counted.
CountOccurrences(text, anchor) ==
    LET Take(scan, i) == IF i \in Positions(text, anchor) /\ i >= scan.next
                         THEN [next |-> i + Len(anchor), count |-> scan.count + 1] ELSE scan
    IN IF anchor = <<>> THEN 0
       ELSE FoldLeft(Take, [next |-> 1, count |-> 0], [i \in 1..Len(text) |-> i]).count

RequireUnique(text, anchor) == CountOccurrences(text, anchor) = 1

First(text, anchor) ==
    CHOOSE i \in Positions(text, anchor) : \A j \in Positions(text, anchor) : i <= j

\* What String.replace() puts in the place of a match.
Expanded(content, match) ==
    FlattenSeq([i \in DOMAIN content |-> IF content[i] = "$&" THEN match ELSE <<content[i]>>])

Around(text, anchor, middle) ==
    SubSeq(text, 1, First(text, anchor) - 1) \o middle
        \o SubSeq(text, First(text, anchor) + Len(anchor), Len(text))

ApplyOp(text, op) ==
    IF text = Failed \/ ~RequireUnique(text, op.anchor) THEN Failed
    ELSE CASE op.kind = "add"     -> Around(text, op.anchor, op.anchor \o op.content)
           [] op.kind = "delete"  -> Around(text, op.anchor, <<>>)
           [] op.kind = "replace" -> Around(text, op.anchor, Expanded(op.content, op.anchor))

\* Every operation sees what those before it left; one that fails fails all.
ApplyEdit(text, parent, ops) ==
    IF parent # text THEN Failed ELSE FoldLeft(ApplyOp, text, ops)

\* parseProposalResponse(): a malformed operation is dropped, and so is what
\* follows the last one that fits.
ParseProposalResponse(candidates, wellFormed) ==
    LET kept == SelectSeq(candidates, LAMBDA op : op \in wellFormed)
    IN SubSeq(kept, 1, IF Len(kept) > MaxOps THEN MaxOps ELSE Len(kept))

\* selectWorstRollouts(): the k weakest, in the order of their values.
SelectWorstRollouts(values, k) ==
    LET order == SortSeq(values, LAMBDA a, b : a < b)
    IN SubSeq(order, 1, IF k < Len(order) THEN k ELSE Len(order))

(* An edit that fails changes nothing, an edit that applies leaves every   *)
(* token outside of its anchors where it was, and what an `add' put there  *)
(* can be taken back when it is unambiguous.                               *)
AppliesWell(text, op) ==
    LET edited == ApplyOp(text, op)
    IN edited # Failed =>
        LET at    == First(text, op.anchor)
            after == Len(text) - (at + Len(op.anchor) - 1)
        IN /\ SubSeq(edited, 1, at - 1) = SubSeq(text, 1, at - 1)
           /\ SubSeq(edited, Len(edited) - after + 1, Len(edited)) =
                 SubSeq(text, Len(text) - after + 1, Len(text))
           /\ op.kind = "add" /\ Cardinality(Positions(edited, op.content)) = 1 =>
                 ApplyOp(edited, [kind |-> "delete", anchor |-> op.content, content |-> <<>>]) = text

(* types.ts calls a replacement `content': the text that takes the place   *)
(* of the target.  Not so when it holds a pattern of String.replace().     *)
ReplaceIsLiteral(text, op) ==
    op.kind = "replace" /\ ApplyOp(text, op) # Failed =>
        ApplyOp(text, op) = Around(text, op.anchor, op.content)

(* apply.ts:1-16 An anchor that could mean two places is refused.  Not so  *)
(* when the two overlap.                                                   *)
AmbiguityIsRefused(text, op) ==
    ApplyOp(text, op) # Failed => Cardinality(Positions(text, op.anchor)) = 1
=============================================================================
