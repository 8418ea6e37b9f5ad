-------------------------- MODULE PendingGapRanges --------------------------
(***************************************************************************)
(* The range algebra of a consumer's pending_gaps column                   *)
(* (pipeline/pending-gap-ranges.ts).  A gap entry is a record              *)
(* [from, to, xmax]: the event ids from..to were invisible when the cursor *)
(* moved over them, and xmax is the snapshot bound recorded at that time.  *)
(*                                                                         *)
(* The source keeps the entries in an array sorted by from; here they are  *)
(* a set, and every operator says WHICH ids and bounds the result holds.   *)
(* GapRangeLoops has the source's loops over arrays and checks that they   *)
(* compute exactly these sets.                                             *)
(***************************************************************************)
EXTENDS Integers, FiniteSets

(* The ids of one entry: rangeContainsId(g, id) is id \in IdsOf(g).        *)
IdsOf(g) == g.from .. g.to

(* All ids some entry still watches.                                       *)
Covered(gaps) == UNION {IdsOf(g) : g \in gaps}

(* The maximal runs of consecutive ids in S, as pairs <<first, last>>.     *)
Runs(S) ==
    {p \in S \X S : /\ p[1] <= p[2]
                    /\ p[1] .. p[2] \subseteq S
                    /\ p[1] - 1 \notin S
                    /\ p[2] + 1 \notin S}

(* Entries for the ids of S, all with the same bound.                      *)
GapsFor(S, xmax) == {[from |-> p[1], to |-> p[2], xmax |-> xmax] : p \in Runs(S)}

(* The pending part of a fetch is cut off by LIMIT; an id it returned      *)
(* above the range proves that the scan went past the range.               *)
IsRangeFullyCoveredByFetch(g, truncated, fetchedIds) ==
    truncated => \E id \in fetchedIds : g.to < id

(* Mutant of IsBurnt: absence from the fetch is taken for finality.        *)
IsBurntIgnoringXmin(g, fetchedIds, truncated, xminNow) ==
    /\ IdsOf(g) \cap fetchedIds = {}
    /\ IsRangeFullyCoveredByFetch(g, truncated, fetchedIds)

(* No id of the range showed up, the fetch is known to have covered it,    *)
(* and the xmin read before the fetch has reached the recorded xmax.       *)
IsBurnt(g, fetchedIds, truncated, xminNow) ==
    /\ IdsOf(g) \cap fetchedIds = {}
    /\ IsRangeFullyCoveredByFetch(g, truncated, fetchedIds)
    /\ g.xmax <= xminNow

BurntGaps(gaps, fetchedIds, truncated, xminNow) ==
    {g \in gaps : IsBurnt(g, fetchedIds, truncated, xminNow)}

(* Carve ids out of one entry; every remaining piece keeps the bound.      *)
SplitRangeExcludingIds(g, excludeIds) == GapsFor(IdsOf(g) \ excludeIds, g.xmax)

SubtractIds(gaps, ids) == UNION {SplitRangeExcludingIds(g, ids) : g \in gaps}

(* Keep what lies strictly below the cursor.                               *)
CapPendingGapsBelowCursor(gaps, cursor) ==
    {[from |-> g.from,
      to   |-> IF g.to >= cursor THEN cursor - 1 ELSE g.to,
      xmax |-> g.xmax] : g \in {h \in gaps : h.from < cursor}}

(* Entries that touch become one entry, with the largest of their bounds.  *)
MergeContiguousGapRanges(gaps) ==
    LET within(p) == {g \in gaps : p[1] <= g.from /\ g.to <= p[2]}
    IN  UNION {{[from |-> p[1], to |-> p[2], xmax |-> g.xmax] :
                   g \in {h \in within(p) : \A o \in within(p) : o.xmax <= h.xmax}} :
               p \in Runs(Covered(gaps))}
=============================================================================
