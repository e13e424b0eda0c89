-------------------------- MODULE GuardrailRaceProofs --------------------------
(***************************************************************************)
(* Proofs about concurrent Guardrail invocations (GuardrailRace).          *)
(***************************************************************************)
EXTENDS GuardrailRace, GuardrailTrendLemmas

USE RaceAssumption, FileStateAssumption, HistoryCapAssumption

\* A trend invocation that has read an audit holds one of the saved audits.
AuditRead ==
    \A p \in Procs : Kind[p] = "trend" /\ pc[p] \in {"save", "writing"} => localAudit[p] \in Audits

TInv == TypeOK /\ AuditRead

LEMMA InitTInv == Init => TInv
BY DEF Init, TInv, TypeOK, AuditRead

LEMMA NextTInv == TInv /\ [Next]_vars => TInv'
<1> SUFFICES ASSUME TInv, [Next]_vars PROVE TInv'
    OBVIOUS
<1>1. ASSUME NEW p \in Procs, LoadHistory(p) PROVE TInv'
    <2>1. CASE historyFile = Partial
        BY <1>1, <2>1 DEF LoadHistory, TInv, TypeOK, AuditRead, Active
    <2>2. CASE historyFile = NoFile
        <3>1. historyFile # Partial /\ << >> \in Seq(Audits)
            BY <2>2, EmptySeq
        <3>2. localHist' = [localHist EXCEPT ![p] = << >>] /\ pc' = [pc EXCEPT ![p] = "loaded"]
            BY <1>1, <2>2, <3>1 DEF LoadHistory
        <3>. QED  BY <1>1, <3>1, <3>2 DEF LoadHistory, TInv, TypeOK, AuditRead, Active
    <2>3. CASE historyFile \notin {NoFile, Partial}
        <3>1. historyFile \in Seq(Audits)
            BY <2>3 DEF TInv, TypeOK
        <3>. QED  BY <1>1, <2>3, <3>1 DEF LoadHistory, TInv, TypeOK, AuditRead, Active
    <2>. QED  BY <2>1, <2>2, <2>3
<1>2. ASSUME NEW p \in Procs, ReadLatestAudit(p) PROVE TInv'
    <2>1. CASE auditFile = NoFile
        BY <1>2, <2>1 DEF ReadLatestAudit, TInv, TypeOK, AuditRead, Active
    <2>2. CASE auditFile = Partial
        BY <1>2, <2>2 DEF ReadLatestAudit, TInv, TypeOK, AuditRead, Active
    <2>3. CASE auditFile # NoFile /\ auditFile # Partial
        BY <1>2, <2>3 DEF ReadLatestAudit, TInv, TypeOK, AuditRead, Active
    <2>. QED  BY <2>1, <2>2, <2>3
<1>3. ASSUME NEW p \in Procs, TruncateHistory(p) PROVE TInv'
    BY <1>3 DEF TruncateHistory, TInv, TypeOK, AuditRead, Active
<1>4. ASSUME NEW p \in Procs, WriteHistory(p) PROVE TInv'
    <2>1. localHist[p] \in Seq(Audits) /\ localAudit[p] \in Audits
        BY <1>4 DEF WriteHistory, TInv, TypeOK, AuditRead
    <2>2. AppendCapped(localHist[p], localAudit[p]) \in Seq(Audits)
        BY <2>1, AppendCappedType
    <2>. QED  BY <1>4, <2>2 DEF WriteHistory, TInv, TypeOK, AuditRead, Active
<1>5. ASSUME NEW p \in Procs, TruncateAudit(p) \/ WriteAudit(p) PROVE TInv'
    <2>1. Kind[p] = "audit" => AuditOf[p] \in Audits
        BY DEF Audits
    <2>. QED  BY <1>5, <2>1 DEF TruncateAudit, WriteAudit, TInv, TypeOK, AuditRead, Active
<1>6. ASSUME NEW p \in Procs, Kill(p) PROVE TInv'
    BY <1>6 DEF Kill, TInv, TypeOK, AuditRead, Active
<1>7. CASE UNCHANGED vars
    BY <1>7 DEF vars, TInv, TypeOK, AuditRead
<1>. QED  BY <1>1, <1>2, <1>3, <1>4, <1>5, <1>6, <1>7 DEF Next

(***************************************************************************)
(* Whatever the interleaving of trend and audit invocations and wherever  *)
(* they are killed, the files and the in-memory copies only ever hold     *)
(* histories of saved audits, and a trend invocation about to save holds  *)
(* an audit, not the "no latest audit" answer.                             *)
(***************************************************************************)
THEOREM RaceTypeCorrect == Spec => []TypeOK
<1>1. Spec => []TInv
    BY InitTInv, NextTInv, PTL DEF Spec
<1>. QED  BY <1>1, PTL DEF TInv

-----------------------------------------------------------------------------
(***************************************************************************)
(* Single-writer use.  At most one trend invocation is between loading    *)
(* and finishing its save; it loaded the last complete save; history.json *)
(* is that save, or absent before the first, or truncated.                 *)
(***************************************************************************)
TrendActive(p) == Kind[p] = "trend" /\ pc[p] \in Active

SerialInv ==
    /\ \A p, q \in Procs : TrendActive(p) /\ TrendActive(q) => p = q
    /\ \A p \in Procs : TrendActive(p) => localHist[p] = saved
    /\ historyFile \in Seq(Audits) => historyFile = saved
    /\ historyFile = NoFile => saved = << >>

RInv == TInv /\ SerialInv

LEMMA InitRInv == Init => RInv
<1>1. Init => SerialInv
    BY DEF Init, SerialInv, TrendActive, Active
<1>. QED  BY <1>1, InitTInv DEF RInv

LEMMA NextRInv == Serial /\ RInv /\ [Next]_vars => RInv'
<1> SUFFICES ASSUME Serial, RInv, [Next]_vars PROVE SerialInv'
    BY NextTInv DEF RInv
<1> USE DEF RInv, TInv, TypeOK
<1>1. ASSUME NEW p \in Procs, LoadHistory(p) PROVE SerialInv'
    <2>1. \A q \in Procs \ {p} : ~TrendActive(q)
        BY <1>1 DEF LoadHistory, TrendActive
    <2>2. CASE historyFile = Partial
        BY <1>1, <2>2 DEF LoadHistory, SerialInv, TrendActive, Active
    <2>3. CASE historyFile # Partial
        <3>1. localHist'[p] = saved
            BY <1>1, <2>3 DEF LoadHistory, SerialInv
        <3>. QED  BY <1>1, <2>1, <2>3, <3>1 DEF LoadHistory, SerialInv, TrendActive, Active
    <2>. QED  BY <2>2, <2>3
<1>2. ASSUME NEW p \in Procs, ReadLatestAudit(p) PROVE SerialInv'
    BY <1>2 DEF ReadLatestAudit, SerialInv, TrendActive, Active
<1>3. ASSUME NEW p \in Procs, TruncateHistory(p) PROVE SerialInv'
    BY <1>3 DEF TruncateHistory, SerialInv, TrendActive, Active
<1>4. ASSUME NEW p \in Procs, WriteHistory(p) PROVE SerialInv'
    <2>1. \A q \in Procs : TrendActive(q)' => q # p /\ TrendActive(q)
        BY <1>4 DEF WriteHistory, TrendActive, Active
    <2>2. \A q \in Procs : TrendActive(q)' => FALSE
        BY <1>4, <2>1 DEF WriteHistory, SerialInv, TrendActive, Active
    <2>3. localHist[p] \in Seq(Audits) /\ localAudit[p] \in Audits
        BY <1>4 DEF WriteHistory, AuditRead
    <2>4. historyFile' = saved' /\ historyFile' \in Seq(Audits)
        BY <1>4, <2>3, AppendCappedType DEF WriteHistory
    <2>5. historyFile' # NoFile
        BY <2>4, FileStateAssumption
    <2>. QED  BY <2>2, <2>4, <2>5 DEF SerialInv
<1>5. ASSUME NEW p \in Procs, TruncateAudit(p) \/ WriteAudit(p) PROVE SerialInv'
    BY <1>5 DEF TruncateAudit, WriteAudit, SerialInv, TrendActive, Active
<1>6. ASSUME NEW p \in Procs, Kill(p) PROVE SerialInv'
    BY <1>6 DEF Kill, SerialInv, TrendActive, Active
<1>7. CASE UNCHANGED vars
    BY <1>7 DEF vars, SerialInv, TrendActive
<1>. QED  BY <1>1, <1>2, <1>3, <1>4, <1>5, <1>6, <1>7 DEF Next

\* Under RInv a step saves the loaded history with one audit appended, or
\* leaves the last complete save alone.
LEMMA SavedRecordStep ==
    ASSUME RInv, [Next]_vars
    PROVE  [AbstractHistory!Record]_saved
<1> USE DEF RInv, TInv
<1>1. ASSUME NEW p \in Procs, WriteHistory(p) PROVE AbstractHistory!Record
    <2>1. pc[p] = "writing" /\ Kind[p] = "trend"
        BY <1>1 DEF WriteHistory
    <2>2. localHist[p] = saved /\ saved \in Seq(Audits) /\ localAudit[p] \in Audits
        BY <2>1 DEF SerialInv, TrendActive, Active, TypeOK, AuditRead
    <2>3. saved' = AppendCapped(saved, localAudit[p])
        BY <1>1, <2>2 DEF WriteHistory
    <2>4. saved' # << >> /\ saved'[Len(saved')] = localAudit[p]
        BY <2>2, <2>3, AppendCappedLast
    <2>5. AppendCapped(saved, localAudit[p])
            = AbstractHistory!Newest(Append(saved, localAudit[p]))
        BY DEF AppendCapped, AbstractHistory!Newest
    <2>. QED  BY <2>3, <2>4, <2>5 DEF AbstractHistory!Record
<1>2. ASSUME NEW p \in Procs,
             \/ LoadHistory(p) \/ ReadLatestAudit(p) \/ TruncateHistory(p)
             \/ TruncateAudit(p) \/ WriteAudit(p) \/ Kill(p)
      PROVE  UNCHANGED saved
    BY <1>2 DEF LoadHistory, ReadLatestAudit, TruncateHistory, TruncateAudit, WriteAudit, Kill
<1>3. CASE UNCHANGED vars
    BY <1>3 DEF vars
<1>. QED  BY <1>1, <1>2, <1>3 DEF Next

(***************************************************************************)
(* When no two trend invocations overlap (Serial), update_trends's split  *)
(* load, append and save of history.json implements the atomic history   *)
(* store of spec 4.4 for every set of invocations and every cap: every    *)
(* complete save is the previous complete save with one audit appended,   *)
(* whatever audits are saved and whichever invocations are killed in      *)
(* between.                                                                 *)
(***************************************************************************)
THEOREM SerialImplementsHistory == Serial => (Spec => HistoryImplemented)
<1> SUFFICES ASSUME Serial PROVE Spec => HistoryImplemented
    OBVIOUS
<1>1. Init => AbstractHistory!Init
    BY DEF Init, AbstractHistory!Init
<1>2. Spec => []RInv
    BY InitRInv, NextRInv, PTL DEF Spec
<1>3. RInv /\ [Next]_vars => [AbstractHistory!Record]_saved
    BY SavedRecordStep
<1>. QED  BY <1>1, <1>2, <1>3, PTL DEF Spec, HistoryImplemented, AbstractHistory!Spec
=============================================================================
