# Guardrail: TLA+ models, model-checking runs and proofs

Guardrail (`src/guardrail/`, `src/guardrail-weekly.py`) is a one-shot Python
command-line tool. It audits a repository and keeps its state as JSON files
under `.guardrail/`. Each invocation loads those files and runs one command,
either `python -m guardrail.cli <cmd>` or `guardrail-weekly.py`. It writes
some of the files and exits. Nothing runs in the background and no two
invocations are meant to overlap; spec section 5 calls concurrent invocations
unsupported, and says an invocation may be killed at any time. The hard
behaviour is therefore mostly the **protocol between commands through the
files**: which command writes which file, which one reads it later, and what
it reads when the file is missing, stale or written twice. Two more things
are modelled on their own: what overlapping or killed invocations do to
`history.json` (`GuardrailRace`), and the Git pre-commit hook
(`GuardrailHook`).

## 1. Inventory of the system

| Part | Source | What it does | State it touches |
|---|---|---|---|
| Orchestrator | `core.py` `GuardrailSystem` | loads config/memory, dispatches to agents, `run_weekly_maintenance` (6 steps in a try/raise) | `config.json`, `memory.json` |
| CLI | `cli.py` `main` | commands baseline, audit, trend, fix, docs, report, weekly, git-hook, git-check; only `audit`/`trend`/`fix`/`docs` save `latest_*.json` | `latest_audit/trend/fixes/docs.json` |
| Weekly script | `guardrail-weekly.py` | `--skip-fixes` runs five steps by hand; otherwise `run_weekly_maintenance`; `--dry-run` does nothing | as above |
| Interpreter | `agents/interpreter.py` | baseline scan; PRD requirement mapping cached in memory | `memory.json` |
| Maintainability (dimension scorer) | `agents/maintainability.py`, `models.py` | five dimension scores by penalties, tiers, issues, weighted overall | reads repo, memory |
| Weighted aggregator | `utils.py` `calculate_weighted_score` | weighted mean normalised by the total weight | — |
| Trend agent (calculator and history store) | `agents/trend.py` | appends `latest_audit.json` to `history.json`, keeps the last 52, computes per-dimension change with a ±5 dead zone and an overall direction | `history.json` |
| Fix loop | `agents/fix_loop.py` | maps critical issues to "create file" or "run lint --fix", creates only missing files | repo files, `memory.json` |
| Documentation agent | `agents/documentation.py` | appends to `.env.example`, inspects README/DEPLOYMENT/RUNBOOK (strict UTF-8 reads), creates QUICKSTART.md | repo files |
| Reporting agent | `agents/reporting.py` | report from the `latest_*.json` files, markdown with its own trend column | `reports/` |
| Git hook | `core.py` `enable/disable_git_hook`, `cli.py` git-check | writes config then `.git/hooks/pre-commit`; git-check exits 1 below `min_score` | `config.json`, hook file |
| Utilities, setup | `utils.py`, `setup-guardrail.py` | subprocess/file I/O wrappers, packaging | — |

## 2. Modules and how they correspond to the code

* **`GuardrailScore`** (pure, no variables) holds the scoring functions of
  `maintainability.py` and `utils.py`.
  * A repository is a record `RepoState`. It has a status per file the
    checks look at (`absent`, `short`, `full`), the lint error count per side
    (capped by `LintMax`), the test, coverage and inline-doc flags, and the
    PRD requirement counts a scan would find.
  * `CodeQualityScore` … `PrdScore` are the `_evaluate_*` methods, penalty by
    penalty, with `Clamp` for `max(0, score)`. `Level` is
    `DimensionScore.from_score`. `DimIssues` identifies each issue by what it
    is about, not by its text.
  * `WeightedNum`/`WeightTotal` are `calculate_weighted_score`, kept as an
    exact numerator and denominator. `Audit` is `MaintainabilityAgent.audit`.
  * Scores are integers in units of 1/`SCALE` point, so half penalties
    (`weight / 2`) are exact at `SCALE = 2`. A PRD rate is floored, which
    preserves every integer tier threshold.
* **`GuardrailTrend`** (pure) holds the trend computation of `trend.py`.
  * `Entry` is a history entry.
  * `AppendCapped` is append plus `history[-52:]`, with `HistoryCap` in place
    of 52.
  * `Trends`/`Direction` are `_calculate_trends`, including the fewer-than-2
    case. `OverallTrend` is `_determine_overall_trend`.
* **`Guardrail`** is the system. Its variables are the repository (`repo`),
  `memory` (the cached PRD mapping), `latestAudit`, `history`,
  `latestTrend`, `latestFixes`, `latestDocs` and `latestReport`. `NoFile`
  means the file does not exist, and `Partial` a file a failing `json.dump`
  left cut short. It also has a ghost `log` of every appended snapshot, a
  ghost `written` of the files whose content Guardrail wrote, and
  `clock`/`edits`, which count invocations and developer edits.
  * Each invocation is one atomic action, covering the whole command:
    * `BaselineCmd` is `update_baseline`.
    * `AuditCmd`, `TrendCmd`, `FixCmd`, `DocsCmd` and `ReportCmd` are the CLI
      branches, including the save each one does.
    * `FixCmd` saves what `json.dump` makes of the result (`SavedFixes`). A
      "complete" result holds `FixResult` dataclasses, which `json` cannot
      serialise, so the dump raises after the file was opened with "w" and
      partly written: `latest_fixes.json` becomes `Partial` and the command
      exits 1, with its fixes applied.
    * `GenerateReport` is the report step shared by `ReportCmd`, the weekly
      routine and `--skip-fixes`. `_get_recent_fixes` calls `load_json` on
      `latest_fixes.json`, which raises on a `Partial` file, so no report is
      saved.
    * `WeeklyCmd` is `run_weekly_maintenance` completing.
    * `WeeklyAborted` is the same routine raising in step 5 on a strict
      UTF-8 read, after steps 1 to 4 have written their files.
    * `WeeklySkipFixes` is `guardrail-weekly.py --skip-fixes`, complete or
      aborted in its docs step.
    * A weekly run whose report step raises has still written everything
      before it.
  * Outside effects are nondeterministic:
    * lint `--fix` may succeed or fail and leave any error count up to the
      one before (`LintAfter`);
    * the documentation agent may report any subset of the files it could
      read as needing updates (`DocsUpdated`);
    * the environment action `DevEdit` (bounded by `MaxEdits`) lets the
      developer change files, lint counts, flags or requirements between
      runs.
* **`MCGuardrail`** instantiates the system for TLC. The initial repository
  fails three dimensions. Its ESLint, tsconfig and Prettier files are
  missing (code quality red). Its compose files, Dockerfiles and
  `.env.example` are missing (deployment red). README, DEPLOYMENT, RUNBOOK
  and the API docs are missing (documentation red). Coverage is low. PRD.md
  has 2 requirements, 1 implemented. The weights are 2/1/1/1/0 so that they
  do not sum to 100 and one is zero. The developer may edit README.md,
  `.prettierrc`, docs/PRD.md and the coverage flag, and the PRD may come to
  hold 4 requirements with 3 implemented.
* **`GuardrailHistory`** is the abstract history store of spec 3/4.4. Its
  one variable `history` changes only by `Record`: one snapshot appended at
  the end, the oldest dropped beyond `Cap`. `GuardrailRace` instantiates it
  with `history <- saved` (`HistoryImplemented`).
* **`GuardrailRace`** splits the file protocol of `update_trends` into the
  steps a separate OS process takes. Each invocation in `Procs` has a `pc`:
  * `LoadHistory` is `_load_history`, which raises on a half-written file.
  * `ReadLatestAudit` is `_get_latest_audit`: no file ends the run, and a
    half-written one raises.
  * `TruncateHistory`/`WriteHistory` are the two halves of `save_json`:
    `open(..., "w")` truncates, then `json.dump` writes.
  * `TruncateAudit`/`WriteAudit` are the same for the audit command's save
    of `latest_audit.json`.
  * `Kill` ends an invocation anywhere (spec 5).

  Audits are opaque values (`AuditOf`). `Partial` is a file that does not
  parse. The ghost `saved` is the last complete save. The refinement
  `AbstractHistory` maps `history <- saved`. `Serial` restricts trend
  invocations to not overlapping, which is the supported use.
* **`GuardrailHook`** is the Git hook:
  * Each hook command is two steps, because the code saves `config.json`
    before it touches `.git/hooks/pre-commit`. `pending` records a command
    between the two.
  * `EnableHook` saves `git_hook.enabled = true`. `WriteHook` then writes
    the hook over any pre-commit file. Without `.git/hooks`, the write
    raises and the command exits 1.
  * `DisableHook` saves `false`. `UnlinkHook` then deletes any pre-commit
    file.
  * `KillHookCommand` kills the command between its two steps (spec 5), with
    no exit code.
  * `GitCheck` is `git-check`, scoring the repository with the same
    `Audit` and `OverallAtLeast` as the system.
  * The environment can run `git init` (`GitInit`), install its own hook,
    edit the repository and `Commit`.
  * Git accepts a commit when the hook exits 0. The hook's exit code
    (`HookExit`) is git-check's only if `python -m guardrail` can run, which
    needs a `guardrail/__main__.py` (`PackageHasMain`). The source tree has
    none.

  `MCGuardrailHook` uses two repositories with the default weights and
  `min_score` 70: a complete one (overall 100) and one scoring 63.25.
* **`GuardrailProofs`**, **`GuardrailTrendLemmas`**, **`GuardrailRaceProofs`**
  and **`GuardrailHookProofs`** hold the TLAPS proofs.

PROJECT.json `map` gives the source lines of every definition.

## 3. Runs

All runs use `SCALE = 2`, `HistoryCap = 2` (the stand-in for 52) and
`LintMax = 1`. `CHECK_DEADLOCK FALSE` is set because the tool may legitimately
never be invoked again. When `clock` reaches `MaxRuns`, nothing is enabled,
and that is the end of the bounded run, not a deadlock of the code.

| Run | cfg | Result | Properties |
|---|---|---|---|
| mc_core | MCGuardrail.cfg (4 runs, 2 edits) | pass, ~251k states | TypeOK, OverallBetweenDims, FixNeverOverwrites |
| mc_history_report | MCGuardrailReport.cfg (5 runs, 1 edit) | pass, ~109k states | HistoryWindow, ReportLabelsAgree |
| mc_weekly_records_own_audit | MC_WeeklyRecordsOwnAudit.cfg | violation | WeeklyRecordsOwnAudit |
| mc_weekly_report_trend | MC_WeeklyReportShowsItsTrend.cfg | violation | WeeklyReportShowsItsTrend |
| mc_duplicate_snapshot | MC_NoDuplicateSnapshot.cfg | violation | NoDuplicateSnapshot |
| mc_fixes_file_readable | MC_FixesFileReadable.cfg | violation | FixesFileReadable |
| mc_race | MCGuardrailRace.cfg (3 trend, 2 audit invocations, Serial) | pass, ~13k states | TypeOK, HistoryImplemented |
| mc_race_killed_save | MC_RaceKilledSave.cfg | violation | HistoryReadable |
| mc_hook | MCGuardrailHook.cfg (6 steps) | pass, ~5k states | TypeOK |
| mc_hook_gate | MC_HookGate.cfg | violation | HookGate |

What the properties say:

* **OverallBetweenDims.** The saved overall score is a true weighted mean,
  for weights that do not sum to 100 and weights of 0.
* **FixNeverOverwrites** (an action property). No command changes a file
  that existed and was not written by Guardrail, and no command counts such
  a file among those it wrote. The ghost `written` makes an overwrite
  visible even when the file's status stays "full". The property holds even
  when the audit a fix run works from predates the developer's edits: the
  `exists()` checks are made at fix time.
* **HistoryWindow.** `history.json` is always the last `HistoryCap`
  snapshots ever appended, compared against the ghost `log`. Five runs are
  needed to evict with two distinct entries in the window, which is why this
  run has `MaxRuns = 5`.
* **HistoryImplemented** (refinement, `GuardrailRace`). With trend
  invocations not overlapping, every complete save of `history.json` is the
  previous complete save with one audit appended. This holds even when audit
  invocations overwrite `latest_audit.json` concurrently and any invocation
  is killed between any two steps. In the run, `mc_race` has three trend
  invocations, so a third save follows a killed one, and a load can hit a
  truncated file.
* **ReportLabelsAgree.** The report's trend column (`reporting.py` 306–311)
  and its improvements/regressions (the trend agent's dead zone) agree. The
  sub-point scale makes a change of exactly 5 reachable.

Why these bounds are enough: every command is enabled from every state; two
edits are enough to make an audit stale before a fix run and to revert a
file; a history of two entries with five runs exercises appending to an
empty, a partial and a full history; PRD counts 0–2 reach the rate case,
the total-0 case and the not-found case.

The violation runs are findings (PROJECT.json `findings`):

1. `run_weekly_maintenance` never saves the audit it computes. Its trend
   step appends the old `latest_audit.json` instead (core.py 215,
   trend.py 47).
2. The weekly report reads a `latest_trend.json` that the weekly routine
   never writes, so the report lacks that week's improvements (core.py 219,
   reporting.py 45).
3. Repeated trend runs append the same snapshot twice, so the next trend is
   flat (trend.py 53).
4. `guardrail fix` cannot save a result that applied fixes: `json.dump`
   raises on the `FixResult` objects after truncating `latest_fixes.json`
   (cli.py 112). The command exits 1, and every later report, weekly run
   and `--skip-fixes` run raises on the corrupt file (reporting.py 175)
   until a fix run with nothing to fix rewrites it (`FixesFileReadable`).
5. `save_json` truncates in place (utils.py 159). A kill between the
   truncation and `json.dump` leaves `history.json` unparseable. Every later
   trend and weekly run then raises (`HistoryReadable`).
6. The hook runs `python -m guardrail git-check`, but the package has no
   `__main__.py`. Python exits 1, so every commit is rejected, including a
   commit of a repository scoring 100 (`HookGate`; core.py 257).

Each passing-run property has a mutant in PROJECT.json, a plausible code
slip that TLC catches: the PRD counts swapped, division by 100 instead of the
total weight, the exists check dropped, `history[:52]` in place of
`history[-52:]`, and the dead zone closed (`>= 5`). The newer mutants are:
a lenient load that takes an unparseable `history.json` as `[]`; the audit
file read without checking that it parsed; and git-check returning -1.

## 4. Fairness and liveness

None. Guardrail has no scheduler, no retry loop and no background work.
Whether and when it is invoked is up to the user or cron. An invocation may
be killed, and an audit that is never made is never recorded. So no fairness
assumption is justified by the code, and no liveness property is stated.
This includes `GuardrailRace`, whose invocations may stop anywhere.

## 5. What is proved

`GuardrailProofs.tla`, theorem **TypeCorrect**, proves `Spec => []TypeOK`
for every value of the constants. The constant assumptions in `Guardrail` and
`GuardrailScore` include `SCALE > 0`, non-negative weights and bounds, and
requirement states with `implemented <= total`.

`TypeOK` allows `latest_fixes.json` to be `Partial`: the proof does not
assume that the fix command's save succeeds. `FixesFileAssumption` says the
sentinel is no fix result, which TLC's model values give.

`TypeOK` alone is not inductive. `PrdScore` divides by the cached `total`,
and the score stays within `0..FullScore` only if the cached mapping has
`implemented <= total`. The inductive invariant is therefore
`IInv == TypeOK /\ SaneMapping(memory)`. The proof shows:

* `Init => IInv`;
* one step per action of `IInv /\ [Next]_vars => IInv'`. `BaselineCmd` and
  the weekly actions re-establish `SaneMapping` through `PrdMap`.

It rests on lemmas about the operators:

* the range of `Clamp`, `Rate` and every dimension score;
* the type of `Audit`, `AppendCapped` (through SequenceTheorems' `SubSeq`
  facts), `Trends` and `FixOutcomes`;
* that the docs and report functions are typed.

What this buys beyond TLC: every score Guardrail writes is within `0..100`
for any history cap, any lint count and any requirement count, including
PRD rates computed from a stale cache.

Theorem **HistoryIsWindow** proves `Spec => []HistoryWindow`. The
inductive invariant is `IInv /\ HistoryWindow`; `IInv` supplies that `log`
is a sequence of entries. The argument has two lemmas:

* `HistoryStep`: every action either leaves `history` and `log` unchanged
  or appends the same typed audit entry to both (`AppendAudit`).
* `WindowAppend`: `Window(Append(s, e)) = AppendCapped(Window(s), e)`,
  proved by cases. Below the cap both sides are the plain append. At or
  above it, both sides are slices of length `HistoryCap` and agree element
  by element (`SeqEqual`, with a small slice lemma `SliceAt`).

So `history[-52:]` after each append keeps exactly the newest 52 entries
for every cap, not only for the cap of 2 that TLC explores.

The lemmas about `AppendCapped` (`AppendCappedType`, `SliceAt`,
`AppendCappedLast`) are in `GuardrailTrendLemmas`, shared with the race
proofs.

`GuardrailRaceProofs` proves two theorems:

* **RaceTypeCorrect** (`Spec => []TypeOK`) holds with or without `Serial`.
  Its inductive invariant adds `AuditRead`: a trend invocation that is
  saving holds an audit. Otherwise `WriteHistory` could append the
  `NoFile` answer.
* **SerialImplementsHistory** (`Serial => (Spec => HistoryImplemented)`)
  holds for any set of invocations and any cap. Its inductive invariant
  `RInv` adds `SerialInv`:
  * at most one trend invocation is active;
  * the active one loaded `saved`;
  * a parseable `history.json` equals `saved`;
  * no file means `saved = << >>`.

  Each step then either leaves `saved` alone or sets it to
  `AppendCapped(saved, audit)`, which is an abstract `Record`. The
  assumption `FileStateAssumption` (no sentinel is a sequence of audits) is
  what TLC's model values give.

Theorem **OverallIsWeightedMean** proves `Spec => []OverallBetweenDims`
from `TypeCorrect` alone, with no further invariant. It takes the dimension
with the least score and the one with the greatest (`ScoreExtremes`). The
lemma `WeightedSumBounds` then gives
`min * total <= sum of score * weight <= max * total`, since each
`(score - min) * weight` is non-negative. This holds for every weight vector
of naturals, not only the 2/1/1/1/0 and default weights TLC runs.

Theorem **ReportColumnAgrees** proves `Spec => []ReportLabelsAgree`.
The report is computed from `latest_trend.json`, so `ReportLabelsAgree`
alone is not inductive: a report step would need to know that the stored
trends were classified with the same dead zone. The inductive invariant is
`LInv == IInv /\ TrendInv /\ ReportLabelsAgree`. `TrendInv` says that
every trend in `latestTrend` has `direction = Direction(change)`. TLC
checked `LInv` on `MCGuardrailReport.cfg` before the proof. The lemmas:

* `LabelIsDirection`: the report's `change > 5` / `< -5` label equals
  `Direction`, the trend agent's `>= 5` / `<= -5` rule, at every scale. At
  exactly 5 points the two still agree, because `Direction` falls back to
  "stable" only inside the open dead zone.
* `TrendsConsistentLemma`: `_calculate_trends` on any non-empty history
  gives consistent trends.
* `ReportAgrees`: a report built from consistent trends has agreeing
  labels, whichever dimensions the audit and the trends cover.
* `GenerateReportTyped`: a report step either saves the report of the
  current files or, on a `Partial` fixes file, raises and leaves the old
  one.

Theorem **FixNoOverwrite** proves the action property
`Spec => FixNeverOverwrites`. Its only invariant is `IInv`, for the repository
type. The step lemma `NoOverwriteStep` has one case per action and rests on
three lemmas about `Keeps(r, s, M)`, which says that every file existing
in `r` is unchanged in `s` and outside the set `M` of files written:

* `FixKeeps`: every outcome of `apply_fixes` changes only files in
  `FixMade`, those the `exists()` check found missing, and adds only those
  to `written`.
* `DocsKeeps`: `update_docs` writes QUICKSTART.md only when it is missing.
* `KeepsTrans`: keeping the existing files composes, for the weekly
  routine's fix-then-docs step.

`DevEdit` does not advance the clock, so the property does not constrain it.

`GuardrailHookProofs` also proves **HookTypeCorrect** (`Spec => []TypeOK`
of the hook model). The lemmas say that each appended exit code is 0 or 1
(`ExitsAppend`, `GitCheckExitBit`) and that every commit outcome is
accepted or rejected (`CommitOutcomeType`). It covers the two-step hook
commands and a kill between their steps.

Every invariant and action property of the passing runs is now proved.
The project has no liveness property and no recursive operator, so nothing
falls outside the prover's reach for those reasons. What stays with TLC
alone is the violation runs: each one is a counterexample, not a theorem.
The prover also has no part in how faithful the model is to the code; the
map of PROJECT.json and the runs' coverage of every action are what support
that.

## 6. Not modelled, and the plan for later work

* **Concurrency beyond `history.json`.** `GuardrailRace` keeps only the
  trend and audit saves. Other commands overlapping (two fix runs creating
  the same file, `memory.json` written by two baselines) are
  last-writer-wins on whole files, with nothing to check beyond that.
* **Config flag and hook file agreeing.** A failed hook write or a kill
  between the config save and the file write or unlink leaves
  `git_hook.enabled` and `.git/hooks/pre-commit` disagreeing in either
  direction. The model reaches both states. No property forbids them,
  because nothing in the code reads `git_hook.enabled` (git-check reads
  only `min_score`) and the spec relates the flag to no file.
* **Overlapping trend invocations.** Two overlapping trend runs can lose
  one appended snapshot. `GuardrailRace` models that interleaving when
  `Serial` is dropped. Spec 5 puts concurrent invocations out of scope, so
  no run holds the unsupported use to the append-only promise.
* **What should happen to a user's own pre-commit hook.** Enable overwrites
  it and disable deletes it. No document states the intent.
* **Proofs.** Every invariant and action property of the passing runs has
  a theorem. What remains is strengthening:
  * a race theorem without `Serial`, for what survives overlapping
    invocations;
  * a proof that `PassesCheck` is monotone in the repository's file
    states.
* **Left out for good:**
  * text, wording, markdown layout and recommendations;
  * the trend chart;
  * the interpreter's structure scan, which is stored but never read by a
    decision;
  * `memory.json` fields that nothing reads (`last_fix_run`,
    `fixes_applied`), and `git_hook.block_on_fail`;
  * subprocess and file utilities, which enter the model as
    nondeterministic results;
  * packaging (`setup-guardrail.py`).
