---------------------------- MODULE GapRangeLoops ----------------------------
(***************************************************************************)
(* The loops of pipeline/pending-gap-ranges.ts, and the loop of            *)
(* processConsumer that collects newGapBounds, as the source runs them:    *)
(* over arrays, with a running cursor or a forward pointer.  The machine   *)
(* builds an arbitrary sorted array of disjoint entries and an arbitrary   *)
(* set of ids, calls one of the functions and stops; the invariants say    *)
(* that the loop returns what PendingGapRanges defines.                    *)
(***************************************************************************)
EXTENDS PendingGapRanges, Sequences, SequencesExt

CONSTANTS MaxId, MaxXmax   \* bounds: ids and snapshot bounds of the inputs

ASSUME GapRangeLoopsAssumption == MaxId \in Nat \ {0} /\ MaxXmax \in Nat \ {0}

VARIABLES
    gaps,  \* the input entries, sorted by from
    call   \* the function called, its other arguments and its result

loopVars == <<gaps, call>>

Ids == 1 .. MaxId

NotCalled ==
    [fn |-> "none", ids |-> {}, cursor |-> 0, truncated |-> FALSE, xminNow |-> 0,
     result |-> <<>>]

Init ==
    /\ gaps = <<>>
    /\ call = NotCalled

AddEntry(from, to, xmax) ==
    /\ call = NotCalled
    /\ from <= to
    /\ gaps # <<>> => from > Last(gaps).to
    /\ gaps' = Append(gaps, [from |-> from, to |-> to, xmax |-> xmax])
    /\ UNCHANGED call

-----------------------------------------------------------------------------
(* The loops.                                                              *)

Ascending(S) == SetToSortSeq(S, <)

Entry(from, to, xmax) == [from |-> from, to |-> to, xmax |-> xmax]

(* for (const id of inRange) with the running cursor.                      *)
SplitStep(acc, id, xmax) ==
    [parts  |-> IF id > acc.cursor
                THEN Append(acc.parts, Entry(acc.cursor, id - 1, xmax))
                ELSE acc.parts,
     cursor |-> id + 1]

SplitLoop(g, excludeIds) ==
    LET inRange == Ascending({id \in excludeIds : id >= g.from /\ id <= g.to})
        end     == FoldLeft(LAMBDA acc, id : SplitStep(acc, id, g.xmax),
                            [parts |-> <<>>, cursor |-> g.from], inRange)
    IN  IF inRange = <<>> THEN <<g>>
        ELSE IF end.cursor <= g.to
             THEN Append(end.parts, Entry(end.cursor, g.to, g.xmax))
             ELSE end.parts

(* Mutant of SubtractStep: the pointer also passes the id that ended the   *)
(* scan of this range.                                                     *)
SubtractStepSkippingOne(acc, g, sortedIds) ==
    LET ahead  == {k \in acc.ptr .. Len(sortedIds) : sortedIds[k] <= g.to}
        inside == {sortedIds[k] : k \in {m \in ahead : sortedIds[m] >= g.from}}
    IN  [ptr |-> acc.ptr + Cardinality(ahead) + 1,
         out |-> acc.out \o SplitLoop(g, inside)]

(* The forward pointer over sortedIds: skip the ids below the range, take  *)
(* the ids inside it, leave the pointer at the first one above it.         *)
SubtractStep(acc, g, sortedIds) ==
    LET ahead  == {k \in acc.ptr .. Len(sortedIds) : sortedIds[k] <= g.to}
        inside == {sortedIds[k] : k \in {m \in ahead : sortedIds[m] >= g.from}}
    IN  [ptr |-> acc.ptr + Cardinality(ahead),
         out |-> acc.out \o SplitLoop(g, inside)]

SubtractLoop(entries, sortedIds) ==
    IF sortedIds = <<>> THEN entries
    ELSE FoldLeft(LAMBDA acc, g : SubtractStep(acc, g, sortedIds),
                  [ptr |-> 1, out |-> <<>>], entries).out

CapStep(capped, g, cursor) ==
    IF g.from >= cursor THEN capped
    ELSE Append(capped, [g EXCEPT !.to = IF g.to >= cursor THEN cursor - 1 ELSE g.to])

CapLoop(entries, cursor) ==
    IF cursor <= 0 THEN <<>>
    ELSE FoldLeft(LAMBDA capped, g : CapStep(capped, g, cursor), <<>>, entries)

(* Mutant of MergeStep: the first bound wins.                              *)
MergeStepKeepingFirstBound(merged, g) ==
    IF merged # <<>> /\ Last(merged).to + 1 = g.from
    THEN Append(Front(merged), Entry(Last(merged).from, g.to, Last(merged).xmax))
    ELSE Append(merged, g)

(* The last merged entry absorbs the next one when they touch exactly.     *)
MergeStep(merged, g) ==
    IF merged # <<>> /\ Last(merged).to + 1 = g.from
    THEN Append(Front(merged),
                Entry(Last(merged).from, g.to,
                      IF g.xmax > Last(merged).xmax THEN g.xmax ELSE Last(merged).xmax))
    ELSE Append(merged, g)

(* The dispatcher hands over kept, new and held entries one after another, *)
(* so the loop sorts them first.                                           *)
MergeLoop(entries) ==
    FoldLeft(MergeStep, <<>>, SortSeq(entries, LAMBDA g, h : g.from < h.from))

(* isRangeFullyCoveredByFetch with the last fetched id, null as 0.         *)
PartitionLoop(entries, fetchedIds, truncated, xminNow) ==
    LET maxFetched == IF fetchedIds = {} THEN 0 ELSE Last(Ascending(fetchedIds))
        covered(g) == \/ ~truncated
                      \/ maxFetched # 0 /\ g.to < maxFetched
        burnt(g)   == /\ ~\E id \in fetchedIds : id >= g.from /\ id <= g.to
                      /\ covered(g)
                      /\ g.xmax <= xminNow
    IN  SelectSeq(entries, burnt)

(* newGapBounds: between consecutive ids of the new window.                *)
BoundsStep(acc, id) ==
    [bounds |-> IF id > acc.prev + 1
                THEN Append(acc.bounds, Entry(acc.prev + 1, id - 1, 1))
                ELSE acc.bounds,
     prev   |-> id]

BoundsLoop(oldCursor, windowIds) ==
    FoldLeft(BoundsStep, [bounds |-> <<>>, prev |-> oldCursor], Ascending(windowIds)).bounds

-----------------------------------------------------------------------------
Return(args) ==
    /\ call = NotCalled
    /\ call' = args
    /\ UNCHANGED gaps

Build ==
    \E from \in Ids, to \in Ids, xmax \in 1 .. MaxXmax : AddEntry(from, to, xmax)

CallSubtract ==
    \E ids \in SUBSET Ids :
       Return([NotCalled EXCEPT !.fn = "subtract", !.ids = ids,
                                !.result = SubtractLoop(gaps, Ascending(ids))])

CallCap ==
    \E cursor \in 0 .. MaxId + 1 :
       Return([NotCalled EXCEPT !.fn = "cap", !.cursor = cursor,
                                !.result = CapLoop(gaps, cursor)])

CallMerge ==
    \E order \in SetToSeqs(ToSet(gaps)) :
       Return([NotCalled EXCEPT !.fn = "merge", !.result = MergeLoop(order)])

CallPartition ==
    \E ids \in SUBSET Ids, truncated \in BOOLEAN, xminNow \in 0 .. MaxXmax :
       Return([NotCalled EXCEPT !.fn = "burnt", !.ids = ids, !.truncated = truncated,
                                !.xminNow = xminNow,
                                !.result = PartitionLoop(gaps, ids, truncated, xminNow)])

(* The ids of the new window all lie past the old cursor.                  *)
CallBounds ==
    \E cursor \in 0 .. MaxId : \E ids \in SUBSET (cursor + 1 .. MaxId) :
       Return([NotCalled EXCEPT !.fn = "bounds", !.ids = ids, !.cursor = cursor,
                                !.result = BoundsLoop(cursor, ids)])

Next == Build \/ CallSubtract \/ CallCap \/ CallMerge \/ CallPartition \/ CallBounds

Spec == Init /\ [][Next]_loopVars

-----------------------------------------------------------------------------
(* Properties: loop and definition agree.                                  *)

Entries  == ToSet(gaps)
Returned == ToSet(call.result)

(* subtractSortedIdsFromRanges, with splitRangeExcludingIds inside it,     *)
(* leaves exactly the pieces that SubtractIds defines, in order.           *)
SubtractAgrees ==
    call.fn = "subtract" =>
        /\ Returned = SubtractIds(Entries, call.ids)
        /\ \A k \in 1 .. Len(call.result) - 1 : call.result[k].to < call.result[k + 1].from

(* capPendingGapsBelowCursor returns the entries below the cursor, cut off *)
(* at it.                                                                  *)
CapAgrees ==
    call.fn = "cap" => Returned = CapPendingGapsBelowCursor(Entries, call.cursor)

(* mergeContiguousGapRanges returns the maximal runs with the largest      *)
(* bound of what each run absorbed.                                        *)
MergeAgrees == call.fn = "merge" => Returned = MergeContiguousGapRanges(Entries)

(* "merging can delay [finality] but never make it premature": it watches  *)
(* the same ids as before, and no id ends up with a smaller bound.         *)
MergeNeverShortensTheWait ==
    call.fn = "merge" =>
        /\ Covered(Returned) = Covered(Entries)
        /\ \A g \in Entries, m \in Returned :
              IdsOf(g) \cap IdsOf(m) # {} => g.xmax <= m.xmax

(* partitionBurntGaps separates out the entries that IsBurnt defines.      *)
PartitionAgrees ==
    call.fn = "burnt" =>
        Returned = BurntGaps(Entries, call.ids, call.truncated, call.xminNow)

(* The new gap bounds of processConsumer are the maximal runs of ids       *)
(* between the old cursor and the last delivered id that were not          *)
(* delivered.                                                              *)
BoundsAgree ==
    call.fn = "bounds" =>
        LET last == IF call.ids = {} THEN call.cursor ELSE Last(Ascending(call.ids))
        IN  Returned = GapsFor((call.cursor + 1 .. last) \ call.ids, 1)

(* Every loop of pending-gap-ranges.ts, and the one of processConsumer     *)
(* that collects the new bounds, returns what its definition says, for     *)
(* every sorted array of gaps.                                             *)
LoopsAgree == SubtractAgrees /\ CapAgrees /\ MergeAgrees /\ PartitionAgrees /\ BoundsAgree
=============================================================================
