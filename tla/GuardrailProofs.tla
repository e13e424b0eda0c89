--------------------------- MODULE GuardrailProofs ---------------------------
(***************************************************************************)
(* Proofs about the Guardrail specification, for every value of its       *)
(* constants that the ASSUMEs allow.                                        *)
(***************************************************************************)
EXTENDS Guardrail, GuardrailTrendLemmas

USE ScaleAssumption, HistoryCapAssumption, WeightsAssumption, LintMaxAssumption,
    MaxRunsAssumption, ReqStatesAssumption, InitReposAssumption, EditableAssumption

-----------------------------------------------------------------------------
(***************************************************************************)
(* Scores.  Every penalty is a natural number of score units, so every     *)
(* dimension score max(0, 100 - penalties) lies between 0 and 100.          *)
(***************************************************************************)

\* max(0, 100 - p) is a score for every penalty p >= 0.
LEMMA ClampRange ==
    ASSUME NEW p \in Nat
    PROVE  Clamp(FullScore - p) \in 0..FullScore
BY DEF Clamp, FullScore, Pt

\* Every single penalty of the scorer is a natural number.
LEMMA MissNat ==
    ASSUME NEW r, NEW f, NEW w \in Nat PROVE Miss(r, f, w) \in Nat
BY DEF Miss, Pt
LEMMA LintPenaltyNat ==
    ASSUME NEW n \in Int PROVE LintPenalty(n) \in Nat
BY DEF LintPenalty, Pt
LEMMA DocPenaltyNat ==
    ASSUME NEW r, NEW f, NEW w \in Nat PROVE DocPenalty(r, f, w) \in Nat
BY DEF DocPenalty, Pt
LEMMA FlagNat ==
    ASSUME NEW b, NEW w \in Nat PROVE Flag(b, w) \in Nat
BY DEF Flag, Pt

\* The implementation rate of a mapping with implemented <= total is a score.
LEMMA RateRange ==
    ASSUME NEW m \in PrdMapping, m.total > 0, m.implemented <= m.total
    PROVE  Rate(m) \in 0..FullScore
<1>1. m.implemented * FullScore \in 0..(m.total * FullScore)
    BY DEF PrdMapping, FullScore, Pt
<1>2. QED
    BY <1>1 DEF Rate, PrdMapping, FullScore, Pt

\* A PRD mapping that can be cached in memory.json.
SaneMapping(prd) == prd \in PrdMapping /\ prd.implemented <= prd.total

\* Every dimension score of an audit is between 0 and 100.
LEMMA DimScoreRange ==
    ASSUME NEW r \in RepoState(LintMax), NEW prd, SaneMapping(prd), NEW d \in Dims
    PROVE  DimScore(d, r, prd) \in 0..FullScore
<1>1. r.lint \in [Sides -> 0..LintMax]
    BY DEF RepoState
<1>2. CodeQualityScore(r) \in 0..FullScore
    <2>1. r.lint["backend"] \in Int /\ r.lint["frontend"] \in Int
        BY <1>1 DEF Sides
    <2>. QED  BY <2>1, MissNat, LintPenaltyNat, ClampRange DEF CodeQualityScore
<1>3. TestingScore(r) \in 0..FullScore
    BY MissNat, FlagNat, ClampRange DEF TestingScore
<1>4. DeploymentScore(r) \in 0..FullScore
    BY MissNat, ClampRange DEF DeploymentScore
<1>5. DocumentationScore(r) \in 0..FullScore
    BY MissNat, DocPenaltyNat, FlagNat, ClampRange DEF DocumentationScore
<1>6. PrdScore(r, prd) \in 0..FullScore
    <2>1. prd.total > 0 => Clamp(Rate(prd)) \in 0..FullScore
        BY RateRange DEF SaneMapping, Clamp
    <2>2. Clamp(FullScore - Pt(50)) \in 0..FullScore
        BY DEF Clamp, FullScore, Pt
    <2>3. FullScore \in 0..FullScore
        BY DEF FullScore, Pt
    <2>. QED  BY <2>1, <2>2, <2>3 DEF PrdScore
<1>. QED  BY <1>2, <1>3, <1>4, <1>5, <1>6 DEF DimScore, Dims

\* Every issue an audit reports is one of the issue identifiers.
LEMMA DimIssuesType ==
    ASSUME NEW r \in RepoState(LintMax), NEW prd, NEW d \in Dims
    PROVE  DimIssues(d, r, prd) \subseteq IssueIds
<1>1. Missing(r, CodeQualityFiles) \cup Missing(r, TestingFiles) \cup Missing(r, DeploymentFiles)
        \cup Missing(r, DocumentationFiles) \subseteq IssueIds
    BY DEF Missing, IssueIds, Files
<1>2. {<<"lint", s>> : s \in {t \in Sides : r.lint[t] > 0}} \subseteq IssueIds
    BY DEF IssueIds
<1>3. {<<"short", f>> : f \in {g \in RequiredDocs : r.files[g] = "short"}} \subseteq IssueIds
    BY DEF IssueIds, Files, DocumentationFiles
<1>. QED  BY <1>1, <1>2, <1>3 DEF DimIssues, IssueIds, Dims

\* The audit of a repository, with a sane cached mapping, is an audit record.
LEMMA AuditTyped ==
    ASSUME NEW ts \in Nat, NEW r \in RepoState(LintMax), NEW prd, SaneMapping(prd)
    PROVE  Audit(ts, r, prd) \in AuditType
<1>1. [d \in Dims |-> DimScore(d, r, prd)] \in Scores
    BY DimScoreRange DEF Scores
<1>2. [d \in Dims |-> DimIssues(d, r, prd)] \in [Dims -> SUBSET IssueIds]
    BY DimIssuesType
<1>. QED  BY <1>1, <1>2 DEF Audit, AuditType

-----------------------------------------------------------------------------
(***************************************************************************)
(* History and trends.                                                     *)
(***************************************************************************)

\* The trends of a non-empty history of entries are trend records for all dimensions.
LEMMA TrendsType ==
    ASSUME NEW h \in Seq(EntryType), h # << >>
    PROVE  Trends(h) \in [Dims -> TrendDatum]
<1>1. Len(h) \in Nat \ {0} /\ h[Len(h)] \in EntryType
    BY EmptySeq, LenProperties
<1>2. Len(h) >= 2 => h[Len(h) - 1] \in EntryType
    BY <1>1
<1>3. \A x \in EntryType, d \in Dims : x.score[d] \in Int
    BY DEF EntryType, Scores
<1>4. \A c \in Int : Direction(c) \in Directions
    BY DEF Direction, Directions
<1>. QED  BY <1>1, <1>2, <1>3, <1>4 DEF Trends, TrendDatum, NoPrev, Directions

\* update_trends' report on a non-empty history is a trend report.
LEMMA TrendReportType ==
    ASSUME NEW h \in Seq(EntryType), h # << >>
    PROVE  TrendReport(h) \in TrendType
BY TrendsType DEF TrendReport, TrendType, OverallTrend, Directions

-----------------------------------------------------------------------------
(***************************************************************************)
(* The fix loop, the documentation agent and the report.                   *)
(***************************************************************************)

\* Every outcome of apply_fixes is a repository with the same requirements
\* and a fix result.
LEMMA FixOutcomesType ==
    ASSUME NEW la \in AuditType \cup {NoFile}, NEW r \in RepoState(LintMax),
           NEW c \in BOOLEAN, NEW o \in FixOutcomes(la, r, c)
    PROVE  /\ o.repo \in RepoState(LintMax)
           /\ o.repo.reqs = r.reqs
           /\ o.made \subseteq Files
           /\ o.result \in FixResultType
<1>1. CASE la = NoFile
    BY <1>1 DEF FixOutcomes, FixStatus, FixResultType
<1>2. CASE la # NoFile /\ FixCreates(la, c) \cup FixLints(la, c) = {}
    BY <1>2 DEF FixOutcomes, FixStatus, FixResultType
<1>3. CASE la # NoFile /\ FixCreates(la, c) \cup FixLints(la, c) # {}
    <2>0. o \in {FixDone(la, r, c, ok, lint) :
                    ok \in SUBSET FixLints(la, c), lint \in LintAfter(r, FixLints(la, c))}
        BY <1>3 DEF FixOutcomes
    <2>1. PICK ok \in SUBSET FixLints(la, c), lint \in LintAfter(r, FixLints(la, c)) :
                o = FixDone(la, r, c, ok, lint)
        BY <2>0
    <2>2. FixCreates(la, c) \subseteq FixableFiles /\ FixLints(la, c) \subseteq Sides
        BY DEF FixCreates, FixLints
    <2>3. FixableFiles \subseteq Files /\ FixMade(la, r, c) \subseteq FixCreates(la, c)
        BY DEF FixableFiles, Files, CodeQualityFiles, DeploymentFiles, DocumentationFiles,
               RequiredDocs, FixMade
    <2>4. lint \in [Sides -> 0..LintMax]
        BY <2>1 DEF LintAfter
    <2>5. o.repo \in RepoState(LintMax) /\ o.repo.reqs = r.reqs
        BY <2>1, <2>3, <2>4 DEF FixDone, RepoState, FileStatus
    <2>6. o.result \in FixResultType
        BY <2>1, <2>2, <2>3 DEF FixDone, FixResultType, FixTargets
    <2>7. o.made \subseteq Files
        BY <2>1, <2>2, <2>3 DEF FixDone
    <2>. QED  BY <2>5, <2>6, <2>7
<1>. QED  BY <1>1, <1>2, <1>3

\* update_docs keeps the repository a repository and lists files of it.
LEMMA DocsType ==
    ASSUME NEW r \in RepoState(LintMax)
    PROVE  /\ DocsRepo(r) \in RepoState(LintMax)
           /\ DocsRepo(r).reqs = r.reqs
           /\ DocsMade(r) \subseteq Files
           /\ \A u \in DocsUpdated(r) : u \subseteq Files
<1>1. QuickStart \in Files /\ DocsReads(r) \subseteq Files
    BY DEF Files, QuickStart, DocsReads, DeploymentFiles, DocumentationFiles, RequiredDocs
<1>. QED  BY <1>1 DEF DocsRepo, DocsMade, DocsUpdated, RepoState, FileStatus

\* generate_report on well-typed latest_*.json files is a report.
LEMMA ReportTyped ==
    ASSUME NEW la \in AuditType \cup {NoFile}, NEW lt \in TrendType \cup {NoFile},
           NEW lf \in FixResultType \cup {NoFile}, NEW ld \in (SUBSET Files) \cup {NoFile}
    PROVE  Report(la, lt, lf, ld) \in ReportType
<1> DEFINE trends == IF lt = NoFile THEN << >> ELSE lt.trends
           auditDims == IF la = NoFile THEN {} ELSE Dims
<1>1. trends = << >> \/ trends \in [Dims -> TrendDatum]
    BY DEF TrendType
<1>2. DOMAIN trends \subseteq Dims
    BY <1>1
<1>3. \A dir \in Directions : WithDirection(trends, dir) \subseteq Dims
    BY <1>2 DEF WithDirection
<1>4. [d \in auditDims \cap DOMAIN trends |-> ReportLabel(trends[d].change)]
        \in UNION {[D -> Directions] : D \in SUBSET Dims}
    <2>1. \A d \in auditDims \cap DOMAIN trends : ReportLabel(trends[d].change) \in Directions
        BY DEF ReportLabel, Directions
    <2>2. auditDims \cap DOMAIN trends \in SUBSET Dims
        BY <1>2
    <2>3. [d \in auditDims \cap DOMAIN trends |-> ReportLabel(trends[d].change)]
            \in [auditDims \cap DOMAIN trends -> Directions]
        BY <2>1
    <2>. QED  BY <2>2, <2>3
<1>5. (IF lf = NoFile THEN {} ELSE lf.applied \cup lf.skipped \cup lf.failed) \subseteq FixTargets
    BY DEF FixResultType
<1>6. (IF ld = NoFile THEN {} ELSE ld) \subseteq Files
    OBVIOUS
<1>. QED  BY <1>3, <1>4, <1>5, <1>6 DEF Report, ReportType, Directions

-----------------------------------------------------------------------------
(***************************************************************************)
(* Type correctness.  TypeOK alone is not inductive: an audit's PRD score  *)
(* is a score only when the mapping cached in memory.json has no more     *)
(* implemented requirements than requirements, so the invariant carries   *)
(* that fact about memory as well.                                         *)
(***************************************************************************)
IInv == TypeOK /\ SaneMapping(memory)

\* generate_report either saves a report or, on a cut-short latest_fixes.json,
\* fails and leaves latest_report.json as it was.
LEMMA GenerateReportTyped ==
    ASSUME TypeOK, GenerateReport
    PROVE  /\ latestReport' \in ReportType \cup {NoFile}
           /\ \/ latestReport' = Report(latestAudit, latestTrend, latestFixes, latestDocs)
              \/ UNCHANGED latestReport
<1>1. CASE latestFixes # Partial
    <2>1. latestFixes \in FixResultType \cup {NoFile}
        BY <1>1 DEF TypeOK
    <2>2. latestReport' = Report(latestAudit, latestTrend, latestFixes, latestDocs)
        BY <1>1 DEF GenerateReport
    <2>. QED  BY <2>1, <2>2, ReportTyped DEF TypeOK
<1>2. CASE latestFixes = Partial
    BY <1>2 DEF GenerateReport, TypeOK
<1>. QED  BY <1>1, <1>2

\* A baseline scan of a reachable repository caches a sane mapping.
LEMMA PrdMapSane ==
    ASSUME NEW r \in RepoState(LintMax), r.reqs \in ReqStates
    PROVE  SaneMapping(PrdMap(r))
BY DEF PrdMap, SaneMapping, PrdMapping, PrdNotFound, PrdMapped

\* The snapshot taken of an audit record is a history entry.
LEMMA EntryTyped ==
    ASSUME NEW a \in AuditType PROVE Entry(a) \in EntryType
BY DEF Entry, AuditType, EntryType

LEMMA InitIInv == Init => IInv
<1> SUFFICES ASSUME Init PROVE IInv
    OBVIOUS
<1>1. SaneMapping(memory)
    BY DEF Init, EmptyMapping, SaneMapping, PrdMapping
<1>2. repo \in RepoState(LintMax) /\ repo.reqs \in ReqStates
    BY InitReposAssumption DEF Init
<1>3. << >> \in Seq(EntryType)
    BY EmptySeq
<1>4. clock \in 0..MaxRuns /\ edits \in 0..MaxEdits
    BY MaxRunsAssumption DEF Init
<1>. QED  BY <1>1, <1>2, <1>3, <1>4 DEF Init, IInv, TypeOK, SaneMapping

\* Appending latest_audit.json to history keeps history and log typed.
LEMMA AppendAuditTyped ==
    ASSUME TypeOK, NEW la \in AuditType, AppendAudit(la)
    PROVE  /\ history' \in Seq(EntryType) /\ history' # << >>
           /\ log' \in Seq(EntryType)
BY EntryTyped, AppendCappedType, AppendProperties DEF AppendAudit, TypeOK

LEMMA NextIInv == IInv /\ [Next]_vars => IInv'
<1> SUFFICES ASSUME IInv, [Next]_vars PROVE IInv'
    OBVIOUS
<1> USE DEF IInv
<1>0. /\ repo \in RepoState(LintMax) /\ repo.reqs \in ReqStates
      /\ latestAudit \in AuditType \cup {NoFile}
      /\ latestTrend \in TrendType \cup {NoFile}
      /\ latestFixes \in FixResultType \cup {NoFile, Partial}
      /\ latestDocs \in (SUBSET Files) \cup {NoFile}
      /\ clock \in 0..MaxRuns
      /\ written \subseteq Files
    BY DEF TypeOK
<1>1. ASSUME NEW u \in BOOLEAN, BaselineCmd(u) PROVE IInv'
    <2>1. SaneMapping(PrdMap(repo)) /\ SaneMapping(memory)
        BY <1>0, PrdMapSane
    <2>2. SaneMapping(memory')
        BY <1>1, <2>1 DEF BaselineCmd
    <2>. QED  BY <1>1, <1>0, <2>2 DEF BaselineCmd, Tick, TypeOK, SaneMapping
<1>2. ASSUME AuditCmd PROVE IInv'
    BY <1>2, <1>0, AuditTyped DEF AuditCmd, Tick, TypeOK
<1>3. ASSUME TrendCmd PROVE IInv'
    <2>1. CASE latestAudit = NoFile
        BY <1>3, <2>1 DEF TrendCmd, Tick, TypeOK, EmptyTrendReport, TrendType, Directions
    <2>2. CASE latestAudit # NoFile
        <3>1. /\ history' \in Seq(EntryType) /\ history' # << >>
              /\ log' \in Seq(EntryType)
            BY <1>3, <2>2, <1>0, AppendAuditTyped DEF TrendCmd
        <3>2. latestTrend' \in TrendType
            BY <1>3, <2>2, <3>1, TrendReportType DEF TrendCmd
        <3>. QED  BY <1>3, <2>2, <3>1, <3>2 DEF TrendCmd, Tick, TypeOK
    <2>. QED  BY <2>1, <2>2
<1>4. ASSUME NEW c \in BOOLEAN, FixCmd(c) PROVE IInv'
    <2>1. PICK o \in FixOutcomes(latestAudit, repo, c) :
                /\ repo' = o.repo /\ written' = written \cup o.made
                /\ latestFixes' = SavedFixes(o.result)
        BY <1>4 DEF FixCmd
    <2>2. /\ repo' \in RepoState(LintMax) /\ repo'.reqs = repo.reqs /\ written' \subseteq Files
          /\ latestFixes' \in FixResultType \cup {Partial}
        BY <2>1, <1>0, FixOutcomesType DEF SavedFixes
    <2>. QED  BY <1>4, <2>2, <1>0 DEF FixCmd, Tick, TypeOK
<1>5. ASSUME DocsCmd PROVE IInv'
    BY <1>5, <1>0, DocsType DEF DocsCmd, Tick, TypeOK
<1>6. ASSUME ReportCmd PROVE IInv'
    <2>1. latestReport' \in ReportType \cup {NoFile}
        BY <1>6, GenerateReportTyped DEF ReportCmd
    <2>. QED  BY <1>6, <1>0, <2>1 DEF ReportCmd, Tick, TypeOK
<1>7. ASSUME WeeklyFirstSteps
      PROVE  /\ SaneMapping(memory') /\ clock' \in 0..MaxRuns /\ edits' = edits
             /\ history' \in Seq(EntryType) /\ log' \in Seq(EntryType)
             /\ UNCHANGED <<latestAudit, latestTrend, latestFixes, latestDocs>>
    <2>1. history' \in Seq(EntryType) /\ log' \in Seq(EntryType)
        <3>1. CASE latestAudit = NoFile
            BY <1>7, <3>1 DEF WeeklyFirstSteps, TypeOK
        <3>2. CASE latestAudit # NoFile
            BY <1>7, <3>2, <1>0, AppendAuditTyped DEF WeeklyFirstSteps
        <3>. QED  BY <3>1, <3>2
    <2>. QED  BY <1>7, <2>1, <1>0, PrdMapSane DEF WeeklyFirstSteps, Tick
<1>8. ASSUME WeeklyCmd PROVE IInv'
    <2>1. PICK o \in FixOutcomes(latestAudit, repo, TRUE) :
                /\ repo' = DocsRepo(o.repo)
                /\ written' = written \cup o.made \cup DocsMade(o.repo)
                /\ GenerateReport
        BY <1>8 DEF WeeklyCmd
    <2>2. o.repo \in RepoState(LintMax) /\ o.repo.reqs = repo.reqs /\ o.made \subseteq Files
        BY <1>0, FixOutcomesType
    <2>3. repo' \in RepoState(LintMax) /\ repo'.reqs = repo.reqs /\ written' \subseteq Files
        BY <2>1, <2>2, <1>0, DocsType
    <2>4. latestReport' \in ReportType \cup {NoFile}
        BY <2>1, GenerateReportTyped
    <2>5. /\ SaneMapping(memory') /\ clock' \in 0..MaxRuns /\ edits' = edits
          /\ history' \in Seq(EntryType) /\ log' \in Seq(EntryType)
          /\ UNCHANGED <<latestAudit, latestTrend, latestFixes, latestDocs>>
        BY <1>8, <1>7 DEF WeeklyCmd
    <2>. QED  BY <2>3, <2>4, <2>5, <1>0 DEF TypeOK, SaneMapping
<1>9. ASSUME WeeklyAborted PROVE IInv'
    <2>1. PICK o \in FixOutcomes(latestAudit, repo, TRUE) :
                /\ repo' = o.repo
                /\ written' = written \cup o.made
                /\ UNCHANGED latestReport
        BY <1>9 DEF WeeklyAborted
    <2>2. o.repo \in RepoState(LintMax) /\ o.repo.reqs = repo.reqs /\ o.made \subseteq Files
        BY <1>0, FixOutcomesType
    <2>3. /\ SaneMapping(memory') /\ clock' \in 0..MaxRuns /\ edits' = edits
          /\ history' \in Seq(EntryType) /\ log' \in Seq(EntryType)
          /\ UNCHANGED <<latestAudit, latestTrend, latestFixes, latestDocs>>
        BY <1>9, <1>7 DEF WeeklyAborted
    <2>. QED  BY <2>1, <2>2, <2>3, <1>0 DEF TypeOK, SaneMapping
<1>12. ASSUME WeeklySkipFixes PROVE IInv'
    <2>1. /\ SaneMapping(memory') /\ clock' \in 0..MaxRuns /\ edits' = edits
          /\ history' \in Seq(EntryType) /\ log' \in Seq(EntryType)
          /\ UNCHANGED <<latestAudit, latestTrend, latestFixes, latestDocs>>
        BY <1>12, <1>7 DEF WeeklySkipFixes
    <2>2. /\ repo' \in RepoState(LintMax) /\ repo'.reqs = repo.reqs
          /\ latestReport' \in ReportType \cup {NoFile}
          /\ written' \subseteq Files
        <3>1. CASE repo' = DocsRepo(repo) /\ written' = written \cup DocsMade(repo) /\ GenerateReport
            BY <3>1, <1>0, DocsType, GenerateReportTyped
        <3>2. CASE UNCHANGED <<repo, latestReport, written>>
            BY <3>2, <1>0 DEF TypeOK
        <3>. QED  BY <1>12, <3>1, <3>2 DEF WeeklySkipFixes
    <2>. QED  BY <2>1, <2>2, <1>0 DEF TypeOK, SaneMapping
<1>10. ASSUME DevEdit PROVE IInv'
    <2>1. repo' \in RepoState(LintMax) /\ repo'.reqs \in ReqStates
        <3>1. CASE \E f \in EditableFiles, st \in FileStatus : EditFile(f, st)
            BY <3>1, <1>0, EditableAssumption DEF EditFile, RepoState
        <3>2. CASE \E sd \in Sides, n \in 0..LintMax : SetLint(sd, n)
            BY <3>2, <1>0 DEF SetLint, RepoState
        <3>3. CASE \E g \in EditableFlags : FlipFlag(g)
            BY <3>3, <1>0, EditableAssumption DEF FlipFlag, RepoState
        <3>4. CASE \E m \in ReqStates : SetReqs(m)
            BY <3>4, <1>0, ReqStatesAssumption DEF SetReqs, RepoState
        <3>. QED  BY <1>10, <3>1, <3>2, <3>3, <3>4 DEF DevEdit
    <2>2. written' \subseteq Files
        BY <1>10, <1>0 DEF DevEdit, EditFile
    <2>. QED  BY <1>10, <2>1, <2>2 DEF DevEdit, TypeOK
<1>11. CASE UNCHANGED vars
    BY <1>11 DEF vars, TypeOK
<1>. QED  BY <1>1, <1>2, <1>3, <1>4, <1>5, <1>6, <1>8, <1>9, <1>10, <1>11, <1>12 DEF Next

(***************************************************************************)
(* Every state the commands and the developer's edits can reach is well   *)
(* typed: in particular every score an audit writes to latest_audit.json   *)
(* and history.json lies between 0 and 100 (the max(0, score) clamps and   *)
(* the PRD rate of a mapping taken by a baseline scan), and the report     *)
(* only ever names dimensions, fix targets and repository files.           *)
(***************************************************************************)
THEOREM TypeCorrect == Spec => []TypeOK
<1>1. Init => IInv
    BY InitIInv
<1>2. IInv /\ [Next]_vars => IInv'
    BY NextIInv
<1>3. IInv => TypeOK
    BY DEF IInv
<1>. QED  BY <1>1, <1>2, <1>3, PTL DEF Spec

-----------------------------------------------------------------------------
(***************************************************************************)
(* The history window.  history.json is the last HistoryCap entries of the *)
(* ghost log of every append, because history[-52:] of an appended window *)
(* is the window of the appended log.                                       *)
(***************************************************************************)

\* Appending to the window of s and truncating as update_trends does gives
\* the window of s with the entry appended.
LEMMA WindowAppend ==
    ASSUME NEW S, NEW s \in Seq(S), NEW e \in S
    PROVE  Window(Append(s, e)) = AppendCapped(Window(s), e)
<1> DEFINE n == Len(s)
           c == HistoryCap
           g == Append(s, e)
           w == Window(s)
<1> USE DEF n, c, g, w
<1>1. /\ n \in Nat /\ c \in Nat \ {0}
      /\ g \in Seq(S) /\ Len(g) = n + 1
      /\ \A i \in 1..n : g[i] = s[i]
      /\ g[n + 1] = e
      /\ \A i \in 1..n : s[i] \in S
    BY AppendProperties, LenProperties, HistoryCapAssumption
<1>2. CASE n < c
    <2>1. w = s
        BY <1>1, <1>2 DEF Window
    <2>2. Window(g) = g
        BY <1>1, <1>2 DEF Window
    <2>3. AppendCapped(s, e) = g
        BY <1>1, <1>2 DEF AppendCapped
    <2>. QED  BY <2>1, <2>2, <2>3
<1>3. CASE n >= c
    <2>1. w \in Seq(S) /\ Len(w) = c /\ \A j \in 1..c : w[j] = s[n - c + j]
        <3>1. CASE n = c
            BY <1>1, <3>1 DEF Window
        <3>2. CASE n > c
            <4>1. (n - c + 1) \in Int /\ n \in Int /\ \A i \in (n - c + 1)..n : s[i] \in S
                BY <1>1, <3>2
            <4>2. /\ SubSeq(s, n - c + 1, n) \in Seq(S)
                  /\ Len(SubSeq(s, n - c + 1, n)) = c
                  /\ \A i \in 1..c : SubSeq(s, n - c + 1, n)[i] = s[n - c + i]
                BY <4>1, <1>1, <3>2, SubSeqProperties
            <4>3. w = SubSeq(s, n - c + 1, n)
                BY <3>2 DEF Window
            <4>. QED  BY <4>2, <4>3
        <3>. QED  BY <1>3, <3>1, <3>2
    <2> DEFINE a == Append(w, e)
    <2> USE DEF a
    <2>2. /\ a \in Seq(S) /\ Len(a) = c + 1
          /\ \A j \in 1..c : a[j] = w[j]
          /\ a[c + 1] = e
          /\ \A j \in 2..(c + 1) : a[j] \in S
        BY <2>1, <1>1, AppendProperties, LenProperties
    <2>3. AppendCapped(w, e) = SubSeq(a, 2, c + 1)
        <3>1. Len(a) > c /\ Len(a) - c + 1 = 2 /\ Len(a) = c + 1
            BY <2>2, <1>1
        <3>. QED  BY <3>1 DEF AppendCapped
    <2>4. Window(g) = SubSeq(g, n + 2 - c, n + 1)
        BY <1>1, <1>3 DEF Window
    <2>5. /\ SubSeq(a, 2, c + 1) \in Seq(S)
          /\ Len(SubSeq(a, 2, c + 1)) = c
          /\ \A i \in 1..c : SubSeq(a, 2, c + 1)[i] = a[i + 1]
        <3>1. 2 \in Int /\ c + 1 \in Int
            BY <1>1
        <3>. QED  BY <3>1, <2>2, <1>1, SubSeqProperties
    <2> DEFINE lo == n + 2 - c
               hi == n + 1
    <2>6. /\ SubSeq(g, lo, hi) \in Seq(S)
          /\ Len(SubSeq(g, lo, hi)) = c
          /\ \A i \in 1..c : SubSeq(g, lo, hi)[i] = g[lo + i - 1]
        <3>1. lo \in Int /\ hi \in Int /\ \A i \in lo..hi : g[i] \in S
            BY <1>1, <1>3, LenProperties
        <3>2. Len(SubSeq(g, lo, hi)) = IF lo <= hi THEN hi - lo + 1 ELSE 0
            BY <3>1, SubSeqProperties
        <3>3. hi - lo + 1 = c /\ lo <= hi
            BY <1>1, <1>3 DEF lo, hi
        <3>4. \A i \in 1..hi - lo + 1 : SubSeq(g, lo, hi)[i] = g[lo + i - 1]
            <4> SUFFICES ASSUME NEW i \in 1..hi - lo + 1 PROVE SubSeq(g, lo, hi)[i] = g[lo + i - 1]
                OBVIOUS
            <4>1. 1 <= lo /\ hi <= Len(g) /\ g \in Seq(S)
                BY <1>1, <1>3 DEF lo, hi
            <4>. QED  BY <3>1, <4>1, SliceAt
        <3>. QED  BY <3>1, <3>2, <3>3, <3>4, SubSeqProperties
    <2>7. \A i \in 1..c : a[i + 1] = g[n + 1 - c + i]
        <3> SUFFICES ASSUME NEW i \in 1..c PROVE a[i + 1] = g[n + 1 - c + i]
            OBVIOUS
        <3>1. CASE i = c
            BY <3>1, <2>2, <1>1
        <3>2. CASE i < c
            <4>1. a[i + 1] = s[n - c + i + 1]
                BY <3>2, <2>2, <2>1, <1>1
            <4>2. g[n + 1 - c + i] = s[n - c + i + 1]
                BY <3>2, <1>1, <1>3
            <4>. QED  BY <4>1, <4>2
        <3>3. i = c \/ i < c
            BY <1>1
        <3>. QED  BY <3>1, <3>2, <3>3
    <2>8. \A i \in 1..c : SubSeq(a, 2, c + 1)[i] = SubSeq(g, lo, hi)[i]
        <3> SUFFICES ASSUME NEW i \in 1..c PROVE SubSeq(a, 2, c + 1)[i] = SubSeq(g, lo, hi)[i]
            OBVIOUS
        <3>1. lo + i - 1 = n + 1 - c + i
            BY <1>1 DEF lo
        <3>2. SubSeq(a, 2, c + 1)[i] = a[i + 1]
            BY <2>5
        <3>3. SubSeq(g, lo, hi)[i] = g[lo + i - 1]
            BY <2>6
        <3>4. a[i + 1] = g[n + 1 - c + i]
            BY <2>7
        <3>. QED  BY <3>1, <3>2, <3>3, <3>4, Zenon
    <2>9. SubSeq(a, 2, c + 1) = SubSeq(g, lo, hi)
        BY <2>5, <2>6, <2>8, SeqEqual
    <2>. QED  BY <2>3, <2>4, <2>9 DEF lo, hi
<1>. QED  BY <1>2, <1>3, <1>1

\* A step either leaves history and log alone or appends one audit record
\* to both (AppendAudit); no command rewrites history otherwise.
LEMMA HistoryStep ==
    ASSUME TypeOK, [Next]_vars
    PROVE  \/ UNCHANGED <<history, log>>
           \/ \E la \in AuditType : AppendAudit(la)
<1>1. latestAudit \in AuditType \cup {NoFile}
    BY DEF TypeOK
<1>2. ASSUME WeeklyFirstSteps PROVE UNCHANGED <<history, log>> \/ \E la \in AuditType : AppendAudit(la)
    BY <1>1, <1>2 DEF WeeklyFirstSteps
<1>3. ASSUME TrendCmd PROVE UNCHANGED <<history, log>> \/ \E la \in AuditType : AppendAudit(la)
    BY <1>1, <1>3 DEF TrendCmd
<1>. QED  BY <1>2, <1>3 DEF Next, BaselineCmd, AuditCmd, FixCmd, DocsCmd, ReportCmd,
                             WeeklyCmd, WeeklyAborted, WeeklySkipFixes, DevEdit, vars

\* The strengthening: the type invariant and the window property together.
HInv == IInv /\ HistoryWindow

LEMMA NextHInv == HInv /\ [Next]_vars => HInv'
<1> SUFFICES ASSUME HInv, [Next]_vars PROVE HInv'
    OBVIOUS
<1>1. IInv'
    BY NextIInv DEF HInv
<1>2. log \in Seq(EntryType) /\ history = Window(log)
    BY DEF HInv, IInv, TypeOK, HistoryWindow
<1>3. ASSUME UNCHANGED <<history, log>> PROVE HistoryWindow'
    BY <1>2, <1>3 DEF HistoryWindow
<1>4. ASSUME \E la \in AuditType : AppendAudit(la) PROVE HistoryWindow'
    <2>1. PICK la \in AuditType : AppendAudit(la)
        BY <1>4
    <2>2. Entry(la) \in EntryType
        BY EntryTyped
    <2>. QED  BY <1>2, <2>1, <2>2, WindowAppend DEF AppendAudit, HistoryWindow
<1>. QED  BY <1>1, <1>3, <1>4, HistoryStep DEF HInv, IInv

(***************************************************************************)
(* update_trends keeps history.json a FIFO window: in every reachable      *)
(* state it holds exactly the last HistoryCap snapshots ever appended by   *)
(* the trend command and the weekly routines, oldest first, for every cap. *)
(***************************************************************************)
THEOREM HistoryIsWindow == Spec => []HistoryWindow
<1>1. Init => HInv
    BY InitIInv DEF Init, HInv, HistoryWindow, Window
<1>2. HInv /\ [Next]_vars => HInv'
    BY NextHInv
<1>3. HInv => HistoryWindow
    BY DEF HInv
<1>. QED  BY <1>1, <1>2, <1>3, PTL DEF Spec


-----------------------------------------------------------------------------
(***************************************************************************)
(* The weighted mean.                                                      *)
(***************************************************************************)

\* A sum weighted by non-negative weights lies between the least and the
\* greatest term times the total weight.
LEMMA WeightedSumBounds ==
    ASSUME NEW sc \in [Dims -> Int], NEW W \in [Dims -> Nat],
           NEW m \in Int, NEW M \in Int,
           \A d \in Dims : m <= sc[d] /\ sc[d] <= M
    PROVE  m * WeightTotal(W) <= WeightedNum(sc, W) /\ WeightedNum(sc, W) <= M * WeightTotal(W)
<1>1. \A d \in Dims : (sc[d] - m) * W[d] >= 0 /\ (M - sc[d]) * W[d] >= 0
    BY SMT
<1>. QED  BY <1>1 DEF WeightedNum, WeightTotal, Dims

\* Among the five dimension scores there is a least and a greatest.
LEMMA ScoreExtremes ==
    ASSUME NEW sc \in [Dims -> Int]
    PROVE  /\ \E d \in Dims : \A e \in Dims : sc[d] <= sc[e]
           /\ \E d \in Dims : \A e \in Dims : sc[e] <= sc[d]
BY DEF Dims

(***************************************************************************)
(* For every weight vector the configuration may hold (non-negative, not  *)
(* summing to 100, some zero), calculate_weighted_score gives the saved   *)
(* audit an overall score between its lowest and its highest dimension     *)
(* score: the division by the total weight makes it a true weighted mean. *)
(***************************************************************************)
THEOREM OverallIsWeightedMean == Spec => []OverallBetweenDims
<1>1. TypeOK => OverallBetweenDims
    <2> SUFFICES ASSUME TypeOK, latestAudit # NoFile, WeightTotal(Weights) > 0
                 PROVE  LET num == WeightedNum(latestAudit.score, Weights)
                            T == WeightTotal(Weights)
                        IN /\ \E d \in Dims : latestAudit.score[d] * T <= num
                           /\ \E d \in Dims : num <= latestAudit.score[d] * T
        BY DEF OverallBetweenDims
    <2>1. latestAudit.score \in [Dims -> Int]
        <3>1. latestAudit \in AuditType
            BY DEF TypeOK
        <3>2. latestAudit.score \in [Dims -> 0..FullScore]
            BY <3>1 DEF AuditType, Scores
        <3>. QED  BY <3>2
    <2>2. PICK lo \in Dims : \A e \in Dims : latestAudit.score[lo] <= latestAudit.score[e]
        BY <2>1, ScoreExtremes
    <2>3. PICK hi \in Dims : \A e \in Dims : latestAudit.score[e] <= latestAudit.score[hi]
        BY <2>1, ScoreExtremes
    <2>4. /\ latestAudit.score[lo] * WeightTotal(Weights) <= WeightedNum(latestAudit.score, Weights)
          /\ WeightedNum(latestAudit.score, Weights) <= latestAudit.score[hi] * WeightTotal(Weights)
        BY <2>1, <2>2, <2>3, WeightedSumBounds
    <2>. QED  BY <2>4
<1>. QED  BY <1>1, TypeCorrect, PTL


-----------------------------------------------------------------------------
(***************************************************************************)
(* The report's trend column.  reporting.py re-implements the +-5 dead    *)
(* zone of trend.py; the two agree because every trend latest_trend.json *)
(* holds has the direction Direction gives its change, and ReportLabel is *)
(* that same classification.                                               *)
(***************************************************************************)

\* Every trend of t has the direction its change calls for.
TrendsConsistent(t) == \A d \in DOMAIN t : t[d].direction = Direction(t[d].change)

\* latest_trend.json, when present, is consistent.
TrendInv == latestTrend # NoFile => TrendsConsistent(latestTrend.trends)

\* The report's trend column against its improvements and regressions.
LabelsAgree(rep) ==
    \A d \in DOMAIN rep.labels :
        /\ (rep.labels[d] = "improving") <=> (d \in rep.improvements)
        /\ (rep.labels[d] = "worsening") <=> (d \in rep.regressions)

LInv == IInv /\ TrendInv /\ ReportLabelsAgree

\* The report's column and the trend agent classify every change alike.
LEMMA LabelIsDirection ==
    ASSUME NEW c \in Int PROVE ReportLabel(c) = Direction(c)
BY DEF ReportLabel, Direction

\* _calculate_trends gives every dimension the direction of its change; a
\* first entry has change 0 and is stable.
LEMMA TrendsConsistentLemma ==
    ASSUME NEW h \in Seq(EntryType), h # << >>
    PROVE  TrendsConsistent(Trends(h))
<1>1. Len(h) \in Nat \ {0} /\ h[Len(h)] \in EntryType
    BY EmptySeq, LenProperties
<1>2. Len(h) >= 2 => h[Len(h) - 1] \in EntryType
    BY <1>1
<1>3. \A x \in EntryType, d \in Dims : x.score[d] \in Int
    BY DEF EntryType, Scores
<1>4. Direction(0) = "stable"
    BY ScaleAssumption DEF Direction, Pt
<1>. QED  BY <1>1, <1>2, <1>3, <1>4 DEF TrendsConsistent, Trends

\* A report built from a consistent latest_trend.json (or none) agrees.
LEMMA ReportAgrees ==
    ASSUME NEW la, NEW lt \in TrendType \cup {NoFile}, NEW lf, NEW ld,
           lt # NoFile => TrendsConsistent(lt.trends)
    PROVE  LabelsAgree(Report(la, lt, lf, ld))
<1> DEFINE trends == IF lt = NoFile THEN <<>> ELSE lt.trends
<1>1. DOMAIN trends = {} \/ (trends \in [Dims -> TrendDatum] /\ TrendsConsistent(trends))
    BY DEF TrendType
<1>2. CASE DOMAIN trends = {}
    BY <1>2 DEF Report, LabelsAgree, WithDirection
<1>3. CASE trends \in [Dims -> TrendDatum] /\ TrendsConsistent(trends)
    <2>1. \A d \in Dims : trends[d].change \in Int
          /\ trends[d].direction = Direction(trends[d].change)
        BY <1>3 DEF TrendDatum, TrendsConsistent
    <2>2. \A d \in Dims : ReportLabel(trends[d].change) = trends[d].direction
        BY <2>1, LabelIsDirection
    <2>. QED  BY <1>3, <2>2 DEF Report, LabelsAgree, WithDirection
<1>. QED  BY <1>1, <1>2, <1>3


LEMMA InitLInv == Init => LInv
BY InitIInv DEF Init, LInv, TrendInv, ReportLabelsAgree

\* latest_trend.json stays consistent: only trend writes it.
LEMMA NextTrendInv == IInv /\ TrendInv /\ [Next]_vars => TrendInv'
<1> SUFFICES ASSUME IInv, TrendInv, [Next]_vars PROVE TrendInv'
    OBVIOUS
<1>1. CASE TrendCmd
    <2>1. CASE latestAudit = NoFile
        BY <1>1, <2>1 DEF TrendCmd, TrendInv, EmptyTrendReport, TrendsConsistent
    <2>2. CASE latestAudit # NoFile
        <3>1. latestAudit \in AuditType
            BY <2>2 DEF IInv, TypeOK
        <3>2. history' \in Seq(EntryType) /\ history' # << >>
            BY <1>1, <2>2, <3>1, AppendAuditTyped DEF TrendCmd, IInv
        <3>3. latestTrend' = TrendReport(history')
            BY <1>1, <2>2 DEF TrendCmd
        <3>. QED  BY <3>2, <3>3, TrendsConsistentLemma DEF TrendInv, TrendReport
    <2>. QED  BY <2>1, <2>2
<1>2. CASE ~TrendCmd
    <2>1. UNCHANGED latestTrend
        BY <1>2 DEF Next, vars, BaselineCmd, AuditCmd, FixCmd, DocsCmd, ReportCmd,
                    WeeklyCmd, WeeklyAborted, WeeklySkipFixes, WeeklyFirstSteps, DevEdit
    <2>. QED  BY <2>1 DEF TrendInv
<1>. QED  BY <1>1, <1>2

\* Every report is built from the latest_trend.json of its time.
LEMMA NextLabelsAgree == IInv /\ TrendInv /\ ReportLabelsAgree /\ [Next]_vars => ReportLabelsAgree'
<1> SUFFICES ASSUME IInv, TrendInv, ReportLabelsAgree, [Next]_vars PROVE ReportLabelsAgree'
    OBVIOUS
<1>1. latestTrend \in TrendType \cup {NoFile}
    BY DEF IInv, TypeOK
<1>2. LabelsAgree(Report(latestAudit, latestTrend, latestFixes, latestDocs))
    BY <1>1, ReportAgrees DEF TrendInv
<1>3. \/ latestReport' = Report(latestAudit, latestTrend, latestFixes, latestDocs)
      \/ UNCHANGED latestReport
    <2>1. GenerateReport => \/ latestReport' = Report(latestAudit, latestTrend, latestFixes, latestDocs)
                            \/ UNCHANGED latestReport
        BY DEF GenerateReport
    <2>. QED  BY <2>1 DEF Next, vars, BaselineCmd, AuditCmd, TrendCmd, FixCmd, DocsCmd,
                          ReportCmd, WeeklyCmd, WeeklyAborted, WeeklySkipFixes,
                          WeeklyFirstSteps, DevEdit
<1>. QED  BY <1>2, <1>3 DEF ReportLabelsAgree, LabelsAgree

(***************************************************************************)
(* For every scale, cap and weight vector, the trend column of every saved *)
(* report (reporting.py, change > 5 / < -5) says "improving" exactly for   *)
(* the dimensions the report lists as improvements and "worsening" exactly *)
(* for its regressions (trend.py's dead zone), a change of exactly 5      *)
(* included: the two re-implementations of the dead zone never disagree.  *)
(***************************************************************************)
THEOREM ReportColumnAgrees == Spec => []ReportLabelsAgree
<1>1. Init => LInv
    BY InitLInv
<1>2. LInv /\ [Next]_vars => LInv'
    BY NextIInv, NextTrendInv, NextLabelsAgree DEF LInv
<1>. QED  BY <1>1, <1>2, PTL DEF Spec, LInv

-----------------------------------------------------------------------------
(***************************************************************************)
(* No command overwrites a file.                                           *)
(***************************************************************************)

\* Going from repository r to s, writing the files M, leaves every file of r
\* that exists alone.
Keeps(r, s, M) == \A f \in Files : ~Absent(r, f) => s.files[f] = r.files[f] /\ f \notin M

\* Keeping the existing files composes: fix then docs in the weekly routine.
LEMMA KeepsTrans ==
    ASSUME NEW r, NEW s, NEW t, NEW M, NEW N, Keeps(r, s, M), Keeps(s, t, N)
    PROVE  Keeps(r, t, M \cup N)
BY DEF Keeps, Absent

\* apply_fixes writes only files that _create_file_fix found missing.
LEMMA FixKeeps ==
    ASSUME NEW la \in AuditType \cup {NoFile}, NEW r \in RepoState(LintMax),
           NEW c \in BOOLEAN, NEW o \in FixOutcomes(la, r, c)
    PROVE  Keeps(r, o.repo, o.made)
<1>1. CASE la = NoFile
    BY <1>1 DEF FixOutcomes, Keeps
<1>2. CASE la # NoFile /\ FixCreates(la, c) \cup FixLints(la, c) = {}
    BY <1>2 DEF FixOutcomes, Keeps
<1>3. CASE la # NoFile /\ FixCreates(la, c) \cup FixLints(la, c) # {}
    <2>1. PICK ok \in SUBSET FixLints(la, c), lint \in LintAfter(r, FixLints(la, c)) :
                o = FixDone(la, r, c, ok, lint)
        BY <1>3 DEF FixOutcomes
    <2>2. \A f \in FixMade(la, r, c) : Absent(r, f)
        BY DEF FixMade
    <2>. QED  BY <2>1, <2>2 DEF FixDone, Keeps, RepoState
<1>. QED  BY <1>1, <1>2, <1>3

\* update_docs writes QUICKSTART.md only when it is missing.
LEMMA DocsKeeps ==
    ASSUME NEW r \in RepoState(LintMax)
    PROVE  Keeps(r, DocsRepo(r), DocsMade(r))
BY DEF DocsRepo, DocsMade, Keeps, Absent, RepoState

\* A command run that keeps the existing files and adds what it wrote to
\* written leaves the developer's files theirs.
LEMMA KeepsUserFiles ==
    ASSUME NEW M, Keeps(repo, repo', M), written' = written \cup M
    PROVE  \A f \in Files : ~Absent(repo, f) /\ f \notin written =>
              /\ repo'.files[f] = repo.files[f]
              /\ f \notin written'
BY DEF Keeps

\* Every step that runs a command keeps the developer's files.
LEMMA NoOverwriteStep ==
    ASSUME IInv, [Next]_vars
    PROVE  [clock' # clock =>
              \A f \in Files : ~Absent(repo, f) /\ f \notin written =>
                   /\ repo'.files[f] = repo.files[f]
                   /\ f \notin written']_vars
<1> DEFINE Goal == \A f \in Files : ~Absent(repo, f) /\ f \notin written =>
                        /\ repo'.files[f] = repo.files[f]
                        /\ f \notin written'
<1> SUFFICES ASSUME Next, clock' # clock PROVE Goal
    BY DEF vars, Goal
<1> USE DEF Goal
<1>0. repo \in RepoState(LintMax) /\ latestAudit \in AuditType \cup {NoFile}
    BY DEF IInv, TypeOK
<1>1. CASE \E u \in BOOLEAN : BaselineCmd(u)
    BY <1>1 DEF BaselineCmd
<1>2. CASE AuditCmd \/ TrendCmd \/ ReportCmd
    BY <1>2 DEF AuditCmd, TrendCmd, ReportCmd
<1>3. CASE \E c \in BOOLEAN : FixCmd(c)
    <2>1. PICK c \in BOOLEAN : FixCmd(c)
        BY <1>3
    <2>2. PICK o \in FixOutcomes(latestAudit, repo, c) :
                repo' = o.repo /\ written' = written \cup o.made
        BY <2>1 DEF FixCmd
    <2>. QED  BY <1>0, <2>2, FixKeeps, KeepsUserFiles
<1>4. CASE DocsCmd
    BY <1>0, <1>4, DocsKeeps, KeepsUserFiles DEF DocsCmd
<1>5. CASE WeeklyCmd
    <2>1. PICK o \in FixOutcomes(latestAudit, repo, TRUE) :
                /\ repo' = DocsRepo(o.repo)
                /\ written' = written \cup o.made \cup DocsMade(o.repo)
        BY <1>5 DEF WeeklyCmd
    <2>2. Keeps(repo, o.repo, o.made) /\ o.repo \in RepoState(LintMax)
        BY <1>0, FixKeeps, FixOutcomesType
    <2>3. Keeps(o.repo, repo', DocsMade(o.repo))
        BY <2>1, <2>2, DocsKeeps
    <2>4. Keeps(repo, repo', o.made \cup DocsMade(o.repo))
        BY <2>2, <2>3, KeepsTrans
    <2>. QED  BY <2>1, <2>4, KeepsUserFiles
<1>6. CASE WeeklyAborted
    <2>1. PICK o \in FixOutcomes(latestAudit, repo, TRUE) :
                repo' = o.repo /\ written' = written \cup o.made
        BY <1>6 DEF WeeklyAborted
    <2>. QED  BY <1>0, <2>1, FixKeeps, KeepsUserFiles
<1>7. CASE WeeklySkipFixes
    <2>1. CASE repo' = DocsRepo(repo) /\ written' = written \cup DocsMade(repo)
        BY <1>0, <2>1, DocsKeeps, KeepsUserFiles
    <2>2. CASE UNCHANGED <<repo, written>>
        BY <2>2
    <2>. QED  BY <1>7, <2>1, <2>2 DEF WeeklySkipFixes
<1>8. CASE DevEdit
    BY <1>8 DEF DevEdit
<1>. QED  BY <1>1, <1>2, <1>3, <1>4, <1>5, <1>6, <1>7, <1>8 DEF Next

(***************************************************************************)
(* The fix loop and the documentation agent never replace what the        *)
(* developer wrote, in every run of every command (fix, docs, weekly       *)
(* complete, aborted or with --skip-fixes), for every repository and every *)
(* cap: the file_path.exists() check of _create_file_fix and that of       *)
(* _update_quickstart are enough, even when the audit the fix loop reads   *)
(* is older than the repository and the developer has since created the  *)
(* file it asks for.                                                        *)
(***************************************************************************)
THEOREM FixNoOverwrite == Spec => FixNeverOverwrites
<1>1. Spec => []IInv
    BY InitIInv, NextIInv, PTL DEF Spec
<1>. QED  BY <1>1, NoOverwriteStep, PTL DEF Spec, FixNeverOverwrites
=============================================================================
