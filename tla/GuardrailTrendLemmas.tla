------------------------- MODULE GuardrailTrendLemmas -------------------------
(***************************************************************************)
(* Facts about the capped append of the history store (AppendCapped,      *)
(* trend.py history.append then history[-52:]), used by the proofs of    *)
(* both the system (GuardrailProofs) and the concurrent-invocation model *)
(* (GuardrailRaceProofs).                                                 *)
(***************************************************************************)
EXTENDS GuardrailTrend, SequenceTheorems, TLAPS

\* Appending to the capped history keeps it a sequence of entries.
LEMMA AppendCappedType ==
    ASSUME NEW S, NEW h \in Seq(S), NEW e \in S
    PROVE  AppendCapped(h, e) \in Seq(S) /\ AppendCapped(h, e) # << >>
<1>1. Append(h, e) \in Seq(S) /\ Len(Append(h, e)) = Len(h) + 1
    BY AppendProperties
<1>2. ASSUME Len(Append(h, e)) > HistoryCap
      PROVE  /\ SubSeq(Append(h, e), Len(Append(h, e)) - HistoryCap + 1, Len(Append(h, e))) \in Seq(S)
           /\ SubSeq(Append(h, e), Len(Append(h, e)) - HistoryCap + 1, Len(Append(h, e))) # << >>
    <2> DEFINE g == Append(h, e)
               m == Len(g) - HistoryCap + 1
    <2>1. m \in Int /\ Len(g) \in Int
        BY <1>1, HistoryCapAssumption
    <2>2. \A i \in m..Len(g) : g[i] \in S
        BY <1>1, <1>2, HistoryCapAssumption
    <2>3. Len(SubSeq(g, m, Len(g))) = HistoryCap
        BY <2>1, <2>2, SubSeqProperties, HistoryCapAssumption
    <2>. QED  BY <2>1, <2>2, <2>3, SubSeqProperties, HistoryCapAssumption, EmptySeq
<1>3. Append(h, e) # << >>
    BY <1>1, EmptySeq
<1>. QED  BY <1>1, <1>2, <1>3 DEF AppendCapped

\* The i-th element of a slice s[lo..hi] of a sequence.
LEMMA SliceAt ==
    ASSUME NEW S, NEW t \in Seq(S), NEW lo \in Int, NEW hi \in Int,
           1 <= lo, hi <= Len(t), NEW i \in 1..hi - lo + 1
    PROVE  SubSeq(t, lo, hi)[i] = t[lo + i - 1]
<1>1. \A j \in lo..hi : t[j] \in S
    BY LenProperties
<1>. QED  BY <1>1, SubSeqProperties

\* The capped append ends with the appended entry.
LEMMA AppendCappedLast ==
    ASSUME NEW S, NEW h \in Seq(S), NEW e \in S
    PROVE  /\ AppendCapped(h, e) # << >>
           /\ AppendCapped(h, e)[Len(AppendCapped(h, e))] = e
<1> DEFINE g == Append(h, e)
           lo == Len(g) - HistoryCap + 1
           hi == Len(g)
<1>1. /\ g \in Seq(S) /\ Len(g) = Len(h) + 1 /\ g[Len(h) + 1] = e
      /\ HistoryCap \in Nat \ {0}
    BY AppendProperties, HistoryCapAssumption
<1>2. CASE Len(g) > HistoryCap
    <2>1. AppendCapped(h, e) = SubSeq(g, lo, hi)
        BY <1>2 DEF AppendCapped, lo, hi, g
    <2>2. Len(SubSeq(g, lo, hi)) = HistoryCap
        <3>1. \A j \in lo..hi : g[j] \in S
            BY <1>1, <1>2, LenProperties DEF lo, hi
        <3>. QED  BY <1>1, <1>2, <3>1, SubSeqProperties DEF lo, hi
    <2>3. SubSeq(g, lo, hi)[HistoryCap] = g[lo + HistoryCap - 1]
        <3>1. lo \in Int /\ hi \in Int /\ 1 <= lo /\ hi <= Len(g) /\ HistoryCap \in 1..hi - lo + 1
            BY <1>1, <1>2 DEF lo, hi
        <3>. QED  BY <1>1, <3>1, SliceAt
    <2>4. lo + HistoryCap - 1 = Len(h) + 1
        BY <1>1 DEF lo, hi
    <2>. QED  BY <1>1, <2>1, <2>2, <2>3, <2>4, AppendCappedType
<1>3. CASE ~(Len(g) > HistoryCap)
    BY <1>1, <1>3, AppendCappedType DEF AppendCapped, g
<1>. QED  BY <1>2, <1>3

=============================================================================
