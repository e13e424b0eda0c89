---------------------------- MODULE GuardrailTrend ----------------------------
(***************************************************************************)
(* The Trend Calculator and the History Store of Guardrail                 *)
(* (agents/trend.py): the bounded history list and the per-dimension and   *)
(* overall trend computed from its last two entries.                       *)
(***************************************************************************)
EXTENDS GuardrailScore, Sequences, FiniteSets

\* The number of entries update_trends keeps (52 in the code).
CONSTANT HistoryCap

ASSUME HistoryCapAssumption == HistoryCap \in Nat \ {0}

\* A history entry: the audit's timestamp and its per-dimension scores.  The
\* stored overall_score is the weighted score of these and is not kept.
Entry(a) == [ts |-> a.ts, score |-> a.score]

\* Variant: truncating with history[:52], which keeps the oldest entries.
AppendCappedHead(h, e) ==
    LET g == Append(h, e)
    IN IF Len(g) > HistoryCap THEN SubSeq(g, 1, HistoryCap) ELSE g

(***************************************************************************)
(* history.append(entry); if len(history) > 52: history = history[-52:]   *)
(***************************************************************************)
AppendCapped(h, e) ==
    LET g == Append(h, e)
    IN IF Len(g) > HistoryCap THEN SubSeq(g, Len(g) - HistoryCap + 1, Len(g)) ELSE g

Directions == {"improving", "stable", "worsening"}

\* The +-5 dead zone of _calculate_trends (change > 5, change < -5).
Direction(change) ==
    IF change > Pt(5) THEN "improving"
    ELSE IF change < -Pt(5) THEN "worsening" ELSE "stable"

\* Marks a trend without a previous score (previous_score = None).
NoPrev == -1

(***************************************************************************)
(* _calculate_trends on a non-empty history: every dimension of the newest *)
(* entry, compared with the entry before it when there is one.  Every      *)
(* audit scores all five dimensions, so previous["dimensions"].get() never *)
(* misses.  The last-10 chart window is display data and is not kept.      *)
(***************************************************************************)
Trends(h) ==
    LET cur == h[Len(h)].score
    IN IF Len(h) < 2
       THEN [d \in Dims |-> [current |-> cur[d], previous |-> NoPrev,
                             change |-> 0, direction |-> "stable"]]
       ELSE LET prev == h[Len(h) - 1].score
            IN [d \in Dims |-> [current |-> cur[d], previous |-> prev[d],
                                change |-> cur[d] - prev[d],
                                direction |-> Direction(cur[d] - prev[d])]]

DirCount(t, dir) == Cardinality({d \in DOMAIN t : t[d].direction = dir})

\* _determine_overall_trend: a majority vote of improving against worsening.
OverallTrend(t) ==
    IF DOMAIN t = {} THEN "stable"
    ELSE IF DirCount(t, "improving") > DirCount(t, "worsening") THEN "improving"
    ELSE IF DirCount(t, "worsening") > DirCount(t, "improving") THEN "worsening"
    ELSE "stable"

\* The improvements and regressions lists of update_trends, by dimension.
WithDirection(t, dir) == {d \in DOMAIN t : t[d].direction = dir}
=============================================================================
