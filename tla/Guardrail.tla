------------------------------- MODULE Guardrail -------------------------------
(***************************************************************************)
(* Guardrail as a sequence of one-shot command runs (cli.py, core.py) over *)
(* the state they share: the repository being audited and the JSON files  *)
(* under .guardrail/.  Every command runs to completion in one process and *)
(* is one step here; the developer's edits to the repository between runs  *)
(* are the environment's steps.                                            *)
(***************************************************************************)
EXTENDS GuardrailTrend

CONSTANTS
    Weights,       \* the "scoring" weights of config.json
    LintMax,       \* the largest lint error count a repository reports
    MaxRuns,       \* bound on the number of command runs (each takes a timestamp)
    MaxEdits,      \* bound on the number of developer edits
    NoFile,        \* a .guardrail/ file that does not exist yet
    Partial,       \* a .guardrail/ file cut short by a failing json.dump
    InitRepos,     \* repositories Guardrail may first be run on
    EditableFiles, \* files the developer adds, truncates or deletes between runs
    EditableFlags, \* subprocess outcomes the developer's changes can flip
    ReqStates      \* PRD requirement counts a baseline scan may find

ASSUME WeightsAssumption == Weights \in [Dims -> Nat]
ASSUME LintMaxAssumption == LintMax \in Nat
ASSUME MaxRunsAssumption == MaxRuns \in Nat /\ MaxEdits \in Nat
ASSUME ReqStatesAssumption ==
    /\ ReqStates \subseteq PrdMapped
    /\ \A m \in ReqStates : m.implemented <= m.total
    \* the implementation rate is a whole number of score units
    /\ \A m \in ReqStates : m.total > 0 => (m.implemented * FullScore) % m.total = 0
ASSUME InitReposAssumption ==
    /\ InitRepos \subseteq RepoState(LintMax)
    /\ \A r \in InitRepos : r.reqs \in ReqStates
ASSUME EditableAssumption ==
    /\ EditableFiles \subseteq Files
    /\ EditableFlags \subseteq {"testsFailed", "coverageLow", "inlineDocsLow"}

VARIABLES
    repo,          \* the repository under audit
    memory,        \* memory.json: the cached PRD mapping (prd_mapping)
    latestAudit,   \* latest_audit.json
    history,       \* history.json
    latestTrend,   \* latest_trend.json
    latestFixes,   \* latest_fixes.json
    latestDocs,    \* latest_docs.json ("files_updated")
    latestReport,  \* latest_report.json / report_week_<N>.json
    clock,         \* datetime.now(), advanced by every command run
    edits,         \* number of developer edits so far
    log,           \* ghost: every entry ever appended to history, in order
    written        \* ghost: the files whose content Guardrail wrote

vars == <<repo, memory, latestAudit, history, latestTrend, latestFixes,
          latestDocs, latestReport, clock, edits, log, written>>

\* The prd_mapping of an empty memory.json: no status, no requirements.
EmptyMapping == [found |-> TRUE, total |-> 0, implemented |-> 0]

\* The files the fix loop knows how to create (_map_issue_to_fix).
FixableFiles == {"backend/.eslintrc.js", "frontend/.eslintrc.js", ".prettierrc",
                 ".env.example", "README.md"}

-----------------------------------------------------------------------------
(***************************************************************************)
(* The steps of a command, as functions of the state they read.            *)
(***************************************************************************)

\* Variant: the requirement counts stored the wrong way round.
PrdMapSwapped(r) == IF Absent(r, "docs/PRD.md") THEN PrdNotFound
                    ELSE [found |-> TRUE, total |-> r.reqs.implemented, implemented |-> r.reqs.total]

\* InterpreterAgent._map_prd_requirements
PrdMap(r) == IF Absent(r, "docs/PRD.md") THEN PrdNotFound
             ELSE [found |-> TRUE, total |-> r.reqs.total, implemented |-> r.reqs.implemented]

\* TrendAgent.update_trends: the new history and the report it returns.
\* Its timestamp and chart history are display data and are not kept.
TrendReport(h) == [trends |-> Trends(h), overall |-> OverallTrend(Trends(h))]
EmptyTrendReport == [trends |-> <<>>, overall |-> "stable"]

\* AgenticFixLoop._identify_fixable_issues on the audit it reads.
FixIssues(la, criticalOnly) ==
    IssuesAt(la, "red") \cup (IF criticalOnly THEN {} ELSE IssuesAt(la, "yellow"))
FixCreates(la, criticalOnly) ==
    {f \in FixableFiles : <<"missing", f>> \in FixIssues(la, criticalOnly)}
FixLints(la, criticalOnly) ==
    {s \in Sides : <<"lint", s>> \in FixIssues(la, criticalOnly)}

\* Variant: _create_file_fix without its file_path.exists() check.
FixMadeNoExistsCheck(la, r, criticalOnly) == FixCreates(la, criticalOnly)

\* The files _create_file_fix writes: those asked for that do not exist (yet).
FixMade(la, r, criticalOnly) == {f \in FixCreates(la, criticalOnly) : Absent(r, f)}

\* npm run lint -- --fix may remove any number of the errors of a side it runs on.
LintAfter(r, L) ==
    {n \in [Sides -> 0..LintMax] :
        \A s \in Sides : IF s \in L THEN n[s] <= r.lint[s] ELSE n[s] = r.lint[s]}

\* The {"status": ..., "fixes": []} results of an early return.
FixStatus(st) == [status |-> st, applied |-> {}, skipped |-> {}, failed |-> {}]

(***************************************************************************)
(* One complete fix run: every create fix writes its template (long       *)
(* enough to count as full) or is skipped because the file exists by now;  *)
(* the lint fixes in ok exit 0 ("applied"), the others fail, and lint is   *)
(* what the linter reports afterwards.                                      *)
(***************************************************************************)
FixDone(la, r, criticalOnly, ok, lint) ==
    LET C == FixCreates(la, criticalOnly)
        L == FixLints(la, criticalOnly)
        made == FixMade(la, r, criticalOnly)
    IN [repo |-> [r EXCEPT !.files = [f \in Files |-> IF f \in made THEN "full" ELSE r.files[f]],
                           !.lint = lint],
        made |-> made,
        result |-> [status |-> "complete",
                    applied |-> {<<"create", f>> : f \in made} \cup {<<"lint", s>> : s \in ok},
                    skipped |-> {<<"create", f>> : f \in C \ made},
                    failed |-> {<<"lint", s>> : s \in L \ ok}]]

(***************************************************************************)
(* AgenticFixLoop.apply_fixes on audit la and repository r: the outcomes   *)
(* as records [repo, made, result], made being the files it wrote.        *)
(* Without latest_audit.json it returns no_audit, without a fixable issue  *)
(* no_issues.                                                               *)
(***************************************************************************)
FixOutcomes(la, r, criticalOnly) ==
    IF la = NoFile THEN {[repo |-> r, made |-> {}, result |-> FixStatus("no_audit")]}
    ELSE IF FixCreates(la, criticalOnly) \cup FixLints(la, criticalOnly) = {}
    THEN {[repo |-> r, made |-> {}, result |-> FixStatus("no_issues")]}
    ELSE {FixDone(la, r, criticalOnly, ok, lint) :
             ok \in SUBSET FixLints(la, criticalOnly),
             lint \in LintAfter(r, FixLints(la, criticalOnly))}

(***************************************************************************)
(* DocumentationAgent.update_docs.  It creates QUICKSTART.md when it is    *)
(* missing; it reads .env.example, README.md, DEPLOYMENT.md (only when     *)
(* docker-compose.yml exists) and RUNBOOK.md when they exist, and lists    *)
(* each as updated when its content lacks a variable or a section, which   *)
(* the model leaves open.  Appending variables to .env.example keeps it a  *)
(* full file.  These reads are strict UTF-8 (read_text(encoding="utf-8")).  *)
(***************************************************************************)
DocsRepo(r) == IF Absent(r, QuickStart) THEN [r EXCEPT !.files[QuickStart] = "full"] ELSE r
DocsMade(r) == IF Absent(r, QuickStart) THEN {QuickStart} ELSE {}
DocsReads(r) ==
    {f \in {".env.example", "README.md", "RUNBOOK.md"} : ~Absent(r, f)}
      \cup (IF ~Absent(r, "DEPLOYMENT.md") /\ ~Absent(r, "docker-compose.yml")
            THEN {"DEPLOYMENT.md"} ELSE {})
DocsUpdated(r) ==
    {u \cup DocsMade(r) : u \in SUBSET DocsReads(r)}

\* Variant: a trend column whose dead zone is closed (change >= 5).
ReportLabelClosed(change) ==
    IF change >= Pt(5) THEN "improving" ELSE IF change <= -Pt(5) THEN "worsening" ELSE "stable"

\* The trend column of the markdown report (ReportingAgent, change > 5 / < -5).
ReportLabel(change) ==
    IF change > Pt(5) THEN "improving" ELSE IF change < -Pt(5) THEN "worsening" ELSE "stable"

(***************************************************************************)
(* ReportingAgent.generate_report: everything it shows comes from the      *)
(* latest_*.json files; a missing file reads as an empty result.           *)
(***************************************************************************)
Report(la, lt, lf, ld) ==
    LET trends == IF lt = NoFile THEN <<>> ELSE lt.trends
        auditDims == IF la = NoFile THEN {} ELSE Dims
    IN [improvements |-> WithDirection(trends, "improving"),
        regressions  |-> WithDirection(trends, "worsening"),
        labels       |-> [d \in auditDims \cap DOMAIN trends |-> ReportLabel(trends[d].change)],
        fixes        |-> IF lf = NoFile THEN {} ELSE lf.applied \cup lf.skipped \cup lf.failed,
        docs         |-> IF ld = NoFile THEN {} ELSE ld]

\* Appending the audit read from latest_audit.json, with the ghost log.
AppendAudit(la) ==
    /\ history' = AppendCapped(history, Entry(la))
    /\ log' = Append(log, Entry(la))

\* A command run takes the next timestamp.
Tick == clock < MaxRuns /\ clock' = clock + 1 /\ UNCHANGED edits

-----------------------------------------------------------------------------
Init ==
    /\ repo \in InitRepos
    /\ memory = EmptyMapping
    /\ latestAudit = NoFile
    /\ history = <<>>
    /\ latestTrend = NoFile
    /\ latestFixes = NoFile
    /\ latestDocs = NoFile
    /\ latestReport = NoFile
    /\ clock = 0
    /\ edits = 0
    /\ log = <<>>
    /\ written = {}

\* guardrail baseline [--update-memory]
BaselineCmd(updateMemory) ==
    /\ Tick
    /\ memory' = IF updateMemory THEN PrdMap(repo) ELSE memory
    /\ UNCHANGED <<repo, latestAudit, history, latestTrend, latestFixes, latestDocs, latestReport, log, written>>

\* guardrail audit: run_audit, then the CLI saves latest_audit.json.
AuditCmd ==
    /\ Tick
    /\ latestAudit' = Audit(clock', repo, memory)
    /\ UNCHANGED <<repo, memory, history, latestTrend, latestFixes, latestDocs, latestReport, log, written>>

\* guardrail trend: update_trends, then the CLI saves latest_trend.json.
TrendCmd ==
    /\ Tick
    /\ IF latestAudit = NoFile
       THEN /\ latestTrend' = EmptyTrendReport
            /\ UNCHANGED <<history, log>>
       ELSE /\ AppendAudit(latestAudit)
            /\ latestTrend' = TrendReport(history')
    /\ UNCHANGED <<repo, memory, latestAudit, latestFixes, latestDocs, latestReport, written>>

(***************************************************************************)
(* What the fix command's json.dump leaves in latest_fixes.json.  A        *)
(* complete result's "fixes" are FixResult dataclasses, which json cannot  *)
(* encode: the dump raises after the head of the document is written and  *)
(* the command exits 1.  The early-return results are saved whole.         *)
(***************************************************************************)
SavedFixes(res) == IF res.status = "complete" THEN Partial ELSE res

\* guardrail fix [--critical-only]: apply_fixes, then the CLI saves latest_fixes.json.
FixCmd(criticalOnly) ==
    /\ Tick
    /\ \E o \in FixOutcomes(latestAudit, repo, criticalOnly) :
          /\ repo' = o.repo
          /\ written' = written \cup o.made
          /\ latestFixes' = SavedFixes(o.result)
    /\ UNCHANGED <<memory, latestAudit, history, latestTrend, latestDocs, latestReport, log>>

\* guardrail docs: update_docs, then the CLI saves latest_docs.json.
DocsCmd ==
    /\ Tick
    /\ repo' = DocsRepo(repo)
    /\ written' = written \cup DocsMade(repo)
    /\ latestDocs' \in DocsUpdated(repo)
    /\ UNCHANGED <<memory, latestAudit, history, latestTrend, latestFixes, latestReport, log>>

(***************************************************************************)
(* generate_report saves report_week_<N>.json and latest_report.json, but  *)
(* it parses latest_fixes.json first (_get_recent_fixes): a cut-short file  *)
(* makes load_json raise and nothing is saved.                              *)
(***************************************************************************)
GenerateReport ==
    \/ /\ latestFixes # Partial
       /\ latestReport' = Report(latestAudit, latestTrend, latestFixes, latestDocs)
    \/ /\ latestFixes = Partial
       /\ UNCHANGED latestReport

\* guardrail report.
ReportCmd ==
    /\ Tick
    /\ GenerateReport
    /\ UNCHANGED <<repo, memory, latestAudit, history, latestTrend, latestFixes, latestDocs, log, written>>

(***************************************************************************)
(* The weekly routine, steps 1 to 3: baseline with memory update, audit    *)
(* (its result is returned, never saved to latest_audit.json), and         *)
(* update_trends on latest_audit.json (history saved, report not).  In     *)
(* run_weekly_maintenance apply_fixes follows on latest_audit.json, and    *)
(* latest_fixes.json is not saved.                                          *)
(***************************************************************************)
WeeklyFirstSteps ==
    /\ Tick
    /\ memory' = PrdMap(repo)
    /\ IF latestAudit = NoFile THEN UNCHANGED <<history, log>> ELSE AppendAudit(latestAudit)
    /\ UNCHANGED <<latestAudit, latestTrend, latestFixes, latestDocs>>

\* guardrail weekly: steps 4 (critical fixes), 5 (docs, not saved) and 6 (report) complete.
WeeklyCmd ==
    /\ WeeklyFirstSteps
    /\ \E o \in FixOutcomes(latestAudit, repo, TRUE) :
          /\ repo' = DocsRepo(o.repo)
          /\ written' = written \cup o.made \cup DocsMade(o.repo)
          /\ GenerateReport

(***************************************************************************)
(* guardrail weekly failing in step 5: update_docs reads the files of     *)
(* DocsReads as strict UTF-8 (read_text without errors="ignore"); a file   *)
(* with invalid bytes raises, run_weekly_maintenance re-raises, and what   *)
(* steps 1 to 4 saved stays saved.                                         *)
(***************************************************************************)
WeeklyAborted ==
    /\ WeeklyFirstSteps
    /\ \E o \in FixOutcomes(latestAudit, repo, TRUE) :
          /\ DocsReads(o.repo) # {}
          /\ repo' = o.repo
          /\ written' = written \cup o.made
          /\ UNCHANGED latestReport

(***************************************************************************)
(* guardrail-weekly.py --skip-fixes: baseline, audit, trends, docs and     *)
(* report called one by one, without the fix step; the docs step may fail  *)
(* as in WeeklyAborted, leaving no report.                                  *)
(***************************************************************************)
WeeklySkipFixes ==
    /\ WeeklyFirstSteps
    /\ \/ /\ repo' = DocsRepo(repo)
          /\ written' = written \cup DocsMade(repo)
          /\ GenerateReport
       \/ /\ DocsReads(repo) # {}
          /\ UNCHANGED <<repo, latestReport, written>>

-----------------------------------------------------------------------------
(***************************************************************************)
(* The developer changes the repository between runs.                      *)
(***************************************************************************)
EditFile(f, s) ==
    /\ s # repo.files[f]
    /\ s = "short" => f \in RequiredDocs
    /\ repo' = [repo EXCEPT !.files[f] = s]
    /\ written' = written \ {f}

SetLint(s, n) ==
    /\ n # repo.lint[s]
    /\ repo' = [repo EXCEPT !.lint[s] = n]

FlipFlag(g) == repo' = [repo EXCEPT ![g] = ~repo[g]]

SetReqs(m) ==
    /\ m # repo.reqs
    /\ repo' = [repo EXCEPT !.reqs = m]

DevEdit ==
    /\ edits < MaxEdits
    /\ edits' = edits + 1
    /\ \/ \E f \in EditableFiles, s \in FileStatus : EditFile(f, s)
       \/ /\ \/ \E s \in Sides, n \in 0..LintMax : SetLint(s, n)
             \/ \E g \in EditableFlags : FlipFlag(g)
             \/ \E m \in ReqStates : SetReqs(m)
          /\ UNCHANGED written
    /\ UNCHANGED <<memory, latestAudit, history, latestTrend, latestFixes, latestDocs,
                   latestReport, clock, log>>

Next ==
    \/ \E u \in BOOLEAN : BaselineCmd(u)
    \/ AuditCmd
    \/ TrendCmd
    \/ \E c \in BOOLEAN : FixCmd(c)
    \/ DocsCmd
    \/ ReportCmd
    \/ WeeklyCmd
    \/ WeeklyAborted
    \/ WeeklySkipFixes
    \/ DevEdit

Spec == Init /\ [][Next]_vars

-----------------------------------------------------------------------------
(***************************************************************************)
(* Types.                                                                  *)
(***************************************************************************)
IssueIds == ({"missing", "short"} \X Files) \cup ({"lint"} \X Sides)
              \cup {<<"tests_failed">>, <<"coverage_low">>, <<"inline_docs_low">>,
                   <<"prd_not_found">>, <<"prd_mapping_unavailable">>,
                   <<"prd_partial">>, <<"prd_critical">>}
Scores == [Dims -> 0..FullScore]
AuditType == [ts : Nat, score : Scores, issues : [Dims -> SUBSET IssueIds]]
EntryType == [ts : Nat, score : Scores]
TrendDatum == [current : Int, previous : Int, change : Int, direction : Directions]
TrendType == [trends : [Dims -> TrendDatum] \cup {<<>>}, overall : Directions]
FixTargets == ({"create"} \X FixableFiles) \cup ({"lint"} \X Sides)
FixResultType == [status : {"no_audit", "no_issues", "complete"}, applied : SUBSET FixTargets,
                  skipped : SUBSET FixTargets, failed : SUBSET FixTargets]
\* A cut-short file is neither absent nor a parseable fix result.
ASSUME FixesFileAssumption == NoFile # Partial /\ Partial \notin FixResultType

ReportType == [improvements : SUBSET Dims, regressions : SUBSET Dims,
               labels : UNION {[D -> Directions] : D \in SUBSET Dims},
               fixes : SUBSET FixTargets, docs : SUBSET Files]

TypeOK ==
    /\ repo \in RepoState(LintMax)
    /\ repo.reqs \in ReqStates
    /\ memory \in PrdMapping
    /\ latestAudit \in AuditType \cup {NoFile}
    /\ history \in Seq(EntryType)
    /\ latestTrend \in TrendType \cup {NoFile}
    /\ latestFixes \in FixResultType \cup {NoFile, Partial}
    /\ latestDocs \in (SUBSET Files) \cup {NoFile}
    /\ latestReport \in ReportType \cup {NoFile}
    /\ clock \in 0..MaxRuns
    /\ edits \in 0..MaxEdits
    /\ log \in Seq(EntryType)
    /\ written \subseteq Files

-----------------------------------------------------------------------------
(***************************************************************************)
(* Properties.                                                             *)
(***************************************************************************)

\* The last HistoryCap entries of a sequence.
Window(s) == IF Len(s) > HistoryCap THEN SubSeq(s, Len(s) - HistoryCap + 1, Len(s)) ELSE s

(***************************************************************************)
(* History is a FIFO window (trend.py, update_trends): history.json always *)
(* holds exactly the last HistoryCap snapshots ever appended, oldest first; *)
(* appending to a full history evicts the oldest entry and nothing else.   *)
(***************************************************************************)
HistoryWindow == history = Window(log)

(***************************************************************************)
(* The fix loop and the documentation agent never replace what the        *)
(* developer wrote (_create_file_fix checks file_path.exists(),            *)
(* _update_quickstart checks quickstart_path.exists(), .env.example is     *)
(* only appended to): across every command run, a file that exists and    *)
(* holds the developer's content keeps it, even when the fix loop works    *)
(* from an audit older than the file.  The ghost written tells a template  *)
(* Guardrail wrote from the developer's content, so an overwrite is seen   *)
(* even when it leaves the file's status unchanged.                         *)
(***************************************************************************)
FixNeverOverwrites ==
    [][clock' # clock =>
         \A f \in Files : ~Absent(repo, f) /\ f \notin written =>
              /\ repo'.files[f] = repo.files[f]
              /\ f \notin written']_vars

(***************************************************************************)
(* Spec (persisted state): latest_fixes.json holds the most recent result *)
(* of "guardrail fix", and the report lists the fixes applied.  A fix run  *)
(* that applies fixes must leave a file the report can read.               *)
(***************************************************************************)
FixesFileReadable == latestFixes # Partial

(***************************************************************************)
(* The report's trend column and its improvements/regressions sections     *)
(* agree: the +-5 dead zone of the markdown renderer (reporting.py) and    *)
(* that of _calculate_trends (trend.py) classify every change alike,       *)
(* including a change of exactly 5 points.                                 *)
(***************************************************************************)
ReportLabelsAgree ==
    latestReport # NoFile =>
        \A d \in DOMAIN latestReport.labels :
            /\ (latestReport.labels[d] = "improving") <=> (d \in latestReport.improvements)
            /\ (latestReport.labels[d] = "worsening") <=> (d \in latestReport.regressions)

(***************************************************************************)
(* The overall score of the saved audit lies between its lowest and its    *)
(* highest dimension score whatever the configured weights sum to          *)
(* (calculate_weighted_score normalises by the total weight of the         *)
(* dimensions it scores).                                                   *)
(***************************************************************************)
OverallBetweenDims ==
    latestAudit # NoFile /\ WeightTotal(Weights) > 0 =>
        LET num == WeightedNum(latestAudit.score, Weights)
            T == WeightTotal(Weights)
        IN /\ \E d \in Dims : latestAudit.score[d] * T <= num
           /\ \E d \in Dims : num <= latestAudit.score[d] * T

(***************************************************************************)
(* Spec 4.3/8: the weekly routine records the repository's current audit:  *)
(* after "guardrail weekly" the newest history entry has the scores of the *)
(* audit that run computed (step 2).                                        *)
(***************************************************************************)
WeeklyRecordsOwnAudit ==
    [][WeeklyCmd =>
         /\ history' # <<>>
         /\ history'[Len(history')].score = Audit(clock', repo, memory').score]_vars

(***************************************************************************)
(* Spec 8, end-to-end scenario: a dimension that the weekly routine's      *)
(* trend step finds improving is listed under "improvements" in the report *)
(* that same run derives (in the runs whose report step does not fail on  *)
(* a cut-short latest_fixes.json).                                         *)
(***************************************************************************)
WeeklyReportShowsItsTrend ==
    [][WeeklyCmd /\ latestFixes # Partial /\ history' # <<>> =>
         latestReport'.improvements = WithDirection(Trends(history'), "improving")]_vars

(***************************************************************************)
(* Spec 3/4.3: a trend is the change between two consecutive snapshots,   *)
(* so history.json never holds the same audit snapshot twice in a row.      *)
(***************************************************************************)
NoDuplicateSnapshot ==
    \A i \in 1..Len(history) - 1 : history[i].ts # history[i + 1].ts
=============================================================================
