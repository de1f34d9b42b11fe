----------------------------- MODULE SliceUtility -----------------------------
(***************************************************************************)
(* Leave-one-block-out attribution of a SKILL.md: how its text is cut into *)
(* blocks, which of them are ablated, and what each ablation says.         *)
(* A text is a sequence of lines; a line is a heading, a fence, or text.   *)
(* Heading titles are such that none contains another.                     *)
(***************************************************************************)
EXTENDS RefinerGate

Heading(depth, title) == [kind |-> "heading", depth |-> depth, title |-> title]
Fence        == [kind |-> "fence", depth |-> 0, title |-> ""]
Plain(words) == [kind |-> "text", depth |-> 0, title |-> words]
Blank        == Plain("")

-----------------------------------------------------------------------------
(* sliceIntoBlocks()                                                       *)

\* One scan: every fence line toggles, a heading counts outside of fences.
Scan(lines) ==
    FoldLeft(LAMBDA seen, i :
                IF lines[i].kind = "fence" THEN [seen EXCEPT !.fenced = ~@]
                ELSE IF lines[i].kind = "heading" /\ ~seen.fenced
                     THEN [seen EXCEPT !.heads = Append(@, i)]
                     ELSE seen,
             [fenced |-> FALSE, heads |-> <<>>], [i \in 1..Len(lines) |-> i])

Heads(lines) == Scan(lines).heads

\* The line before the next heading that is not deeper.
BlockEnd(lines, start) ==
    LET stops == {i \in Range(Heads(lines)) : i > start /\ lines[i].depth <= lines[start].depth}
    IN IF stops = {} THEN Len(lines) ELSE Min(stops) - 1

\* trimEnd(): blank lines at the end of a block are not part of its anchor.
TrimmedEnd(lines, start) ==
    Max({i \in start..BlockEnd(lines, start) : lines[i] # Blank})

\* `### Usage' ends with the text of `## Usage': an anchor may begin inside a
\* line and, when it is one line of text long, nowhere else.
BeginsIn(line, first) ==
    \/ line = first
    \/ line.kind = "heading" /\ first.kind = "heading"
       /\ line.title = first.title /\ line.depth > first.depth

OccursAt(lines, anchor, i) ==
    /\ i + Len(anchor) - 1 <= Len(lines)
    /\ BeginsIn(lines[i], anchor[1])
    /\ \A k \in 2..Len(anchor) : lines[i + k - 1] = anchor[k]

\* Occurrences do not overlap: an anchor holds its heading once at the top.
Occurrences(lines, anchor) == {i \in 1..Len(lines) : OccursAt(lines, anchor, i)}

\* The n-th heading with a slug is called slug-n; the first keeps the slug.
IdOf(lines, start) ==
    <<lines[start].title,
      Cardinality({i \in Range(Heads(lines)) :
                      i <= start /\ lines[i].title = lines[start].title})>>

\* One block per heading whose
\* anchor can be deleted without ambiguity.
SliceIntoBlocks(lines) ==
    LET BlockAt(start) ==
            [id |-> IdOf(lines, start), from |-> start, to |-> TrimmedEnd(lines, start),
             anchor |-> SubSeq(lines, start, TrimmedEnd(lines, start))]
        all == [k \in DOMAIN Heads(lines) |-> BlockAt(Heads(lines)[k])]
    IN SelectSeq(all, LAMBDA block : Cardinality(Occurrences(lines, block.anchor)) = 1)

\* applyEdit() of the synthetic proposal of one deletion.
Ablate(lines, block) ==
    SubSeq(lines, 1, block.from - 1) \o SubSeq(lines, block.to + 1, Len(lines))

-----------------------------------------------------------------------------
(* gateEvalSet() and isRefreshDue(): a date is a number, and refreshDueAt  *)
(* a set of at most one date.                                              *)
IsRefreshDue(refreshDueAt, now, treatNullAsDue) ==
    IF refreshDueAt = {} THEN treatNullAsDue ELSE \A due \in refreshDueAt : now >= due

UngatedReasons(set, verified, now, treatNullAsDue) ==
    {reason \in {"unverified-harvested-source", "refresh-due"} :
        \/ reason = "refresh-due" /\ IsRefreshDue(set.refreshDueAt, now, treatNullAsDue)
        \/ reason # "refresh-due" /\ set.source \in {"harvested", "hybrid"} /\ ~verified}

-----------------------------------------------------------------------------
(* computeSliceUtility().  `score' and `valid' give, for each block by its *)
(* position, what the scorer and the schema validator say without it.      *)

TypePriority == [example |-> 0, note |-> 1, body |-> 2, trigger |-> 3, policy |-> 4]

\* Weakest type first, ties by id (ids are numbers here).
WeakerFirst(a, b) ==
    \/ TypePriority[a.type] < TypePriority[b.type]
    \/ TypePriority[a.type] = TypePriority[b.type] /\ a.id < b.id

ClassOf(baseline, ablated, minPowerN) ==
    IF IsSignificantRegression(ablated, baseline) THEN "load-bearing"
    ELSE IF IsSignificantImprovement(ablated, baseline) THEN "harmful"
    ELSE IF baseline.n >= minPowerN /\ ablated.n >= minPowerN THEN "inert" ELSE "inconclusive"

Magnitude(utility) == IF utility < 0 THEN -utility ELSE utility

Measure(block, baseline, ablated, valid, minPowerN) ==
    IF ~valid[block.id] THEN [id |-> block.id, class |-> "schema-required", utility |-> Uncapped]
    ELSE [id |-> block.id, class |-> ClassOf(baseline, ablated[block.id], minPowerN),
          utility |-> baseline.value - ablated[block.id].value]

\* One more than the scored blocks that moved the value further, ties by id.
RankOf(measured, m) ==
    IF m.utility = Uncapped THEN Uncapped
    ELSE 1 + Cardinality({k \in DOMAIN measured :
                LET other == measured[k]
                IN /\ other.utility # Uncapped
                   /\ \/ Magnitude(other.utility) > Magnitude(m.utility)
                      \/ Magnitude(other.utility) = Magnitude(m.utility) /\ other.id < m.id})

ComputeSliceUtility(blocks, capped, maxAblations, reasons, allowUngated, baseline, ablated, valid, minPowerN) ==
    LET ordered  == IF capped THEN SortSeq(blocks, WeakerFirst) ELSE blocks
        cap      == IF capped /\ maxAblations # Uncapped
                    THEN Max({0, Min({maxAblations, Len(ordered)})}) ELSE Len(ordered)
        refused  == reasons # {} /\ ~allowUngated
        toAblate == IF refused THEN <<>> ELSE SubSeq(ordered, 1, cap)
        measured == [k \in DOMAIN toAblate |->
                        Measure(toAblate[k], baseline, ablated, valid, minPowerN)]
    IN [quality |-> IF reasons = {} THEN "gated" ELSE "ungated",
        blocks  |-> [k \in DOMAIN measured |->
                        measured[k] @@ [rank |-> RankOf(measured, measured[k])]],
        skipped |-> IF refused THEN [k \in DOMAIN blocks |-> blocks[k].id]
                    ELSE [k \in 1..(Len(ordered) - cap) |-> ordered[cap + k].id]]

-----------------------------------------------------------------------------
(* References.                                                             *)

\* A line is code when an odd number of fences stands before it.
InCode(lines, i) == Cardinality({j \in 1..(i - 1) : lines[j].kind = "fence"}) % 2 = 1

(* Whatever the text, every block starts at a heading that is not code,    *)
(* may be deleted without ambiguity, has an id of its own, and contains,   *)
(* is contained in, or is apart from any other; deleting a block leaves    *)
(* every block that is apart from it.                                      *)
SlicesWell(lines) ==
    LET blocks == SliceIntoBlocks(lines)
    IN \A a \in DOMAIN blocks :
        /\ lines[blocks[a].from].kind = "heading" /\ ~InCode(lines, blocks[a].from)
        /\ Occurrences(lines, blocks[a].anchor) = {blocks[a].from}
        /\ Len(Ablate(lines, blocks[a])) = Len(lines) - Len(blocks[a].anchor)
        /\ \A b \in DOMAIN blocks : a < b =>
              /\ blocks[a].id # blocks[b].id
              /\ \/ blocks[b].to <= blocks[a].to
                 \/ /\ blocks[a].to < blocks[b].from
                    /\ \E i \in 1..Len(lines) :
                          OccursAt(Ablate(lines, blocks[a]), blocks[b].anchor, i)

(* A report accounts for every block once, measured or skipped; a refused  *)
(* one measures nothing; the ranks of the scored blocks are 1, 2, 3, ...   *)
(* and a block that carries weight never ranks below one that moved less.  *)
ReportsWell(blocks, report) ==
    LET ids    == {blocks[k].id : k \in DOMAIN blocks}
        scored == {k \in DOMAIN report.blocks : report.blocks[k].class # "schema-required"}
    IN /\ Range(report.skipped) \cup {report.blocks[k].id : k \in DOMAIN report.blocks} = ids
       /\ Len(report.skipped) + Len(report.blocks) = Cardinality(ids)
       /\ {report.blocks[k].rank : k \in scored} = 1..Cardinality(scored)
       /\ \A j, k \in scored :
             Magnitude(report.blocks[j].utility) > Magnitude(report.blocks[k].utility)
                => report.blocks[j].rank < report.blocks[k].rank
       /\ \A k \in scored :
             /\ report.blocks[k].class = "load-bearing" => report.blocks[k].utility > 0
             /\ report.blocks[k].class = "harmful" => report.blocks[k].utility < 0
=============================================================================
