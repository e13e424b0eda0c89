---------------------------- MODULE GuardrailScore ----------------------------
(***************************************************************************)
(* The Dimension Scorer and the Weighted Aggregator of Guardrail           *)
(* (agents/maintainability.py, models.py, utils.py): pure operators that   *)
(* turn the observable state of a repository, and the PRD mapping cached   *)
(* in memory.json, into the scores, levels and issues of one audit.        *)
(*                                                                         *)
(* Scores are kept exactly as integers in units of 1/SCALE of a point:     *)
(* the only fractions the code produces are the halved weight of a short  *)
(* document (weight / 2) and the PRD implementation rate, and SCALE is    *)
(* chosen so that both are whole units (ReqStatesAssumption, Guardrail). *)
(***************************************************************************)
EXTENDS Integers

CONSTANT SCALE

ASSUME ScaleAssumption == SCALE \in Nat \ {0} /\ SCALE % 2 = 0

\* One point of score, and the full score 100.0.
Pt(n) == n * SCALE
FullScore == Pt(100)

\* The five quality dimensions, in the order audit() evaluates them.
Dims == {"code_quality", "testing", "deployment", "documentation", "prd_compliance"}

Sides == {"backend", "frontend"}

(***************************************************************************)
(* What a check sees of a file: absent, present with fewer than 100       *)
(* non-blank characters (only the documentation checks look at this), or   *)
(* present.  Test suites, the deploy script (deploy.sh or deploy.ps1), the  *)
(* CI workflow directory and the API docs (docs/*api*.md) are artifacts     *)
(* found by existence or by a glob; each is one entry here.                 *)
(***************************************************************************)
FileStatus == {"absent", "short", "full"}

CodeQualityFiles == {"backend/.eslintrc.js", "frontend/.eslintrc.js",
                     "backend/tsconfig.json", "frontend/tsconfig.json", ".prettierrc"}
TestingFiles == {"backend/tests", "frontend/tests", "backend/jest.config.js"}
DeploymentFiles == {"docker-compose.yml", "docker-compose.dev.yml", "backend/Dockerfile",
                    "frontend/Dockerfile", ".env.example", "deploy.sh", ".github/workflows"}
RequiredDocs == {"README.md", "DEPLOYMENT.md", "RUNBOOK.md", "docs/architecture.md", "docs/PRD.md"}
DocumentationFiles == RequiredDocs \cup {"docs/api.md"}
\* Written by the documentation agent; no check scores it.
QuickStart == "QUICKSTART.md"
Files == CodeQualityFiles \cup TestingFiles \cup DeploymentFiles \cup DocumentationFiles
           \cup {QuickStart}

(***************************************************************************)
(* The repository as the audit observes it.  lint, testsFailed and          *)
(* coverageLow are what the npm subprocesses report (a backend without     *)
(* package.json reports no errors, no failure and coverage 0, i.e. low);   *)
(* inlineDocsLow is the JSDoc sample check; reqs is what a baseline scan    *)
(* of docs/PRD.md against the code would find now.                          *)
(***************************************************************************)
PrdMapped == [total : Nat, implemented : Nat]
\* prd_mapping as cached in memory.json; found is FALSE for {"status": "prd_not_found"}.
PrdMapping == [found : BOOLEAN, total : Nat, implemented : Nat]
PrdNotFound == [found |-> FALSE, total |-> 0, implemented |-> 0]

RepoState(LintMax) == [files : [Files -> FileStatus], lint : [Sides -> 0..LintMax],
                       testsFailed : BOOLEAN, coverageLow : BOOLEAN,
                       inlineDocsLow : BOOLEAN, reqs : PrdMapped]

Absent(r, f) == r.files[f] = "absent"

\* score -= pts when a file is missing.
Miss(r, f, pts) == IF Absent(r, f) THEN Pt(pts) ELSE 0

\* score -= min(20, errors * 2) when a side has lint errors.
LintPenalty(n) == IF n > 0 THEN (IF n * 2 < 20 THEN Pt(n * 2) ELSE Pt(20)) ELSE 0

\* A required document costs its weight when missing, half of it when short.
DocPenalty(r, f, w) == CASE r.files[f] = "absent" -> Pt(w)
                         [] r.files[f] = "short"  -> Pt(w) \div 2
                         [] OTHER                 -> 0

Flag(b, pts) == IF b THEN Pt(pts) ELSE 0

\* score = max(0, score)
Clamp(x) == IF x < 0 THEN 0 ELSE x

CodeQualityScore(r) ==
    Clamp(FullScore - (Miss(r, "backend/.eslintrc.js", 15) + Miss(r, "frontend/.eslintrc.js", 15)
                       + Miss(r, "backend/tsconfig.json", 10) + Miss(r, "frontend/tsconfig.json", 10)
                       + LintPenalty(r.lint["backend"]) + LintPenalty(r.lint["frontend"])
                       + Miss(r, ".prettierrc", 5)))

TestingScore(r) ==
    Clamp(FullScore - (Miss(r, "backend/tests", 30) + Miss(r, "frontend/tests", 20)
                       + Miss(r, "backend/jest.config.js", 10)
                       + Flag(r.testsFailed, 20) + Flag(r.coverageLow, 10)))

DeploymentScore(r) ==
    Clamp(FullScore - (Miss(r, "docker-compose.yml", 20) + Miss(r, "docker-compose.dev.yml", 10)
                       + Miss(r, "backend/Dockerfile", 15) + Miss(r, "frontend/Dockerfile", 15)
                       + Miss(r, ".env.example", 10) + Miss(r, "deploy.sh", 10)
                       + Miss(r, ".github/workflows", 10)))

DocumentationScore(r) ==
    Clamp(FullScore - (DocPenalty(r, "README.md", 20) + DocPenalty(r, "DEPLOYMENT.md", 15)
                       + DocPenalty(r, "RUNBOOK.md", 15) + DocPenalty(r, "docs/architecture.md", 10)
                       + DocPenalty(r, "docs/PRD.md", 10)
                       + Miss(r, "docs/api.md", 10) + Flag(r.inlineDocsLow, 10)))

\* implementation_rate = (implemented / total_reqs) * 100
Rate(m) == (m.implemented * FullScore) \div m.total

(***************************************************************************)
(* _evaluate_prd_compliance: 0 without docs/PRD.md; 50 off when the cached  *)
(* mapping says the PRD was not found; the implementation rate when the    *)
(* mapping counts requirements; 100 otherwise (total 0, which is also what *)
(* an empty, never-scanned memory yields).                                  *)
(***************************************************************************)
PrdScore(r, prd) ==
    CASE Absent(r, "docs/PRD.md")  -> 0
      [] ~prd.found               -> Clamp(FullScore - Pt(50))
      [] prd.total > 0            -> Clamp(Rate(prd))
      [] OTHER                    -> FullScore

DimScore(d, r, prd) ==
    CASE d = "code_quality"  -> CodeQualityScore(r)
      [] d = "testing"       -> TestingScore(r)
      [] d = "deployment"    -> DeploymentScore(r)
      [] d = "documentation" -> DocumentationScore(r)
      [] d = "prd_compliance" -> PrdScore(r, prd)

(***************************************************************************)
(* Issues, identified by what they are about rather than by their text:    *)
(* <<"missing", f>>, <<"short", f>>, <<"lint", side>> and single tags.     *)
(***************************************************************************)
Missing(r, S) == {<<"missing", f>> : f \in {g \in S : Absent(r, g)}}

DimIssues(d, r, prd) ==
    CASE d = "code_quality" ->
            Missing(r, CodeQualityFiles) \cup {<<"lint", s>> : s \in {t \in Sides : r.lint[t] > 0}}
      [] d = "testing" ->
            Missing(r, TestingFiles)
              \cup (IF r.testsFailed THEN {<<"tests_failed">>} ELSE {})
              \cup (IF r.coverageLow THEN {<<"coverage_low">>} ELSE {})
      [] d = "deployment" -> Missing(r, DeploymentFiles)
      [] d = "documentation" ->
            Missing(r, DocumentationFiles)
              \cup {<<"short", f>> : f \in {g \in RequiredDocs : r.files[g] = "short"}}
              \cup (IF r.inlineDocsLow THEN {<<"inline_docs_low">>} ELSE {})
      [] d = "prd_compliance" ->
            CASE Absent(r, "docs/PRD.md") -> {<<"prd_not_found">>}
              [] ~prd.found              -> {<<"prd_mapping_unavailable">>}
              [] prd.total > 0           ->
                    (IF Rate(prd) < Pt(75) THEN {<<"prd_partial">>} ELSE {})
                      \cup (IF Rate(prd) < Pt(50) THEN {<<"prd_critical">>} ELSE {})
              [] OTHER -> {}

\* DimensionScore.from_score
Level(s) == IF s >= Pt(75) THEN "green" ELSE IF s >= Pt(50) THEN "yellow" ELSE "red"

(***************************************************************************)
(* calculate_weighted_score: sum(score * weight) / sum(weight) over the    *)
(* dimensions that have a score, 0.0 when the weights sum to zero.  The    *)
(* quotient is kept as its numerator and denominator.                      *)
(***************************************************************************)
WeightedNum(sc, W) ==
    sc["code_quality"] * W["code_quality"] + sc["testing"] * W["testing"]
      + sc["deployment"] * W["deployment"] + sc["documentation"] * W["documentation"]
      + sc["prd_compliance"] * W["prd_compliance"]

\* Variant: dividing by 100, the sum of the default weights, whatever the config says.
WeightTotalHundred(W) == 100

WeightTotal(W) ==
    W["code_quality"] + W["testing"] + W["deployment"] + W["documentation"] + W["prd_compliance"]

\* overall_score >= t, for a threshold t in score units.
OverallAtLeast(sc, W, t) ==
    IF WeightTotal(W) = 0 THEN 0 >= t ELSE WeightedNum(sc, W) >= t * WeightTotal(W)

\* The overall level of audit().
OverallLevel(sc, W) ==
    IF OverallAtLeast(sc, W, Pt(75)) THEN "green"
    ELSE IF OverallAtLeast(sc, W, Pt(50)) THEN "yellow" ELSE "red"

\* The default "scoring" weights of _load_config.
DefaultWeights == [code_quality |-> 25, testing |-> 25, deployment |-> 20,
                   documentation |-> 15, prd_compliance |-> 15]

(***************************************************************************)
(* One audit: a timestamp, the score and issues of every dimension.  The   *)
(* levels, the overall score and the critical/warning lists are functions  *)
(* of these and are derived where they are used.                            *)
(***************************************************************************)
Audit(ts, r, prd) == [ts     |-> ts,
                      score  |-> [d \in Dims |-> DimScore(d, r, prd)],
                      issues |-> [d \in Dims |-> DimIssues(d, r, prd)]]

\* critical_issues and warnings of audit(): the issues of red, resp. yellow, dimensions.
IssuesAt(a, lvl) == UNION {a.issues[d] : d \in {e \in Dims : Level(a.score[e]) = lvl}}
=============================================================================
