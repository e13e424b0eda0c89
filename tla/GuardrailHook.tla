----------------------------- MODULE GuardrailHook -----------------------------
(***************************************************************************)
(* The Git hook of Guardrail: "guardrail git-hook --enable/--disable"      *)
(* (core.py enable_git_hook/disable_git_hook), the "git-check" command     *)
(* (cli.py) and the commits Git makes with whatever .git/hooks/pre-commit  *)
(* holds.  The state is the git_hook.enabled flag of config.json, the      *)
(* pre-commit file (absent, the one Guardrail writes, or one of the        *)
(* user's own), whether .git/hooks exists, and the repository the quick    *)
(* audit of git-check scores.                                               *)
(*                                                                         *)
(* The hook Guardrail writes runs "python -m guardrail git-check".  Running *)
(* a package with -m executes its __main__ submodule; PackageHasMain says  *)
(* whether src/guardrail has one (it has not: only cli.py has a __main__   *)
(* guard).  Without it Python exits 1 before any Guardrail code runs.      *)
(***************************************************************************)
EXTENDS GuardrailScore, Sequences

CONSTANTS
    Repos,          \* the repositories the developer's edits move between
    Mem,            \* the prd_mapping cached in memory.json
    Weights,        \* the "scoring" weights of config.json
    MinScore,       \* git_hook.min_score of config.json (70 by default)
    PackageHasMain, \* whether "python -m guardrail" finds guardrail/__main__.py
    MaxSteps        \* bound on the number of commands and commits

ASSUME HookAssumption ==
    /\ Mem \in PrdMapping /\ Mem.implemented <= Mem.total
    /\ Weights \in [Dims -> Nat]
    /\ MinScore \in Nat /\ PackageHasMain \in BOOLEAN /\ MaxSteps \in Nat

VARIABLES
    enabled,     \* config.json git_hook.enabled
    hookFile,    \* .git/hooks/pre-commit: "absent", "guardrail" or "user"
    hooksDir,    \* whether .git/hooks exists
    repo,        \* the repository the quick audit sees
    exits,       \* exit codes of the guardrail commands run so far, in order
    lastCommit,  \* outcome of the last commit: "none", "accepted" or "rejected"
    steps,       \* commands and commits so far
    pending      \* the git-hook command between its config save and its hook write

vars == <<enabled, hookFile, hooksDir, repo, exits, lastCommit, steps, pending>>

\* git-check: the quick audit's overall score is at least min_score.
PassesCheck(r) == OverallAtLeast(Audit(0, r, Mem).score, Weights, Pt(MinScore))

\* Variant: main returns -1 on a failed check.
GitCheckExitNeg(r) == IF PassesCheck(r) THEN 0 ELSE -1

\* The exit code of "guardrail git-check": 1 below min_score, 0 otherwise.
GitCheckExit(r) == IF PassesCheck(r) THEN 0 ELSE 1

\* The exit code of the hook script Guardrail writes.
HookExit(r) == IF PackageHasMain THEN GitCheckExit(r) ELSE 1

Init ==
    /\ enabled = FALSE
    /\ hookFile = "absent"
    /\ hooksDir \in BOOLEAN
    /\ repo \in Repos
    /\ exits = << >>
    /\ lastCommit = "none"
    /\ steps = 0
    /\ pending = "none"

\* One command or commit more, within the bound; the developer waits for a
\* running git-hook command before doing anything else.
Step == pending = "none" /\ steps < MaxSteps /\ steps' = steps + 1

(***************************************************************************)
(* enable_git_hook and disable_git_hook both save config.json first and   *)
(* only then touch .git/hooks/pre-commit; the process may be killed in     *)
(* between (spec 5), which leaves the config saved and the file as it was. *)
(***************************************************************************)

\* enable_git_hook, first half: git_hook.enabled = true is saved.
EnableHook ==
    /\ Step
    /\ enabled' = TRUE
    /\ pending' = "enable"
    /\ UNCHANGED <<hookFile, hooksDir, repo, exits, lastCommit>>

\* enable_git_hook, second half: the hook file is written over whatever
\* pre-commit held; without .git/hooks write_text raises and main returns 1.
WriteHook ==
    /\ pending = "enable"
    /\ hookFile' = IF hooksDir THEN "guardrail" ELSE hookFile
    /\ exits' = Append(exits, IF hooksDir THEN 0 ELSE 1)
    /\ pending' = "none"
    /\ UNCHANGED <<enabled, hooksDir, repo, lastCommit, steps>>

\* disable_git_hook, first half: git_hook.enabled = false is saved.
DisableHook ==
    /\ Step
    /\ enabled' = FALSE
    /\ pending' = "disable"
    /\ UNCHANGED <<hookFile, hooksDir, repo, exits, lastCommit>>

\* disable_git_hook, second half: any pre-commit file is deleted, Guardrail's
\* or not.
UnlinkHook ==
    /\ pending = "disable"
    /\ hookFile' = "absent"
    /\ exits' = Append(exits, 0)
    /\ pending' = "none"
    /\ UNCHANGED <<enabled, hooksDir, repo, lastCommit, steps>>

\* The git-hook command is killed after its config save: no exit code.
KillHookCommand ==
    /\ pending # "none"
    /\ pending' = "none"
    /\ UNCHANGED <<enabled, hookFile, hooksDir, repo, exits, lastCommit, steps>>

\* git-check: run_audit(full=False) against config min_score.
GitCheck ==
    /\ Step
    /\ exits' = Append(exits, GitCheckExit(repo))
    /\ UNCHANGED <<enabled, hookFile, hooksDir, repo, lastCommit, pending>>

(***************************************************************************)
(* The environment: git init creates .git/hooks, the user installs a       *)
(* pre-commit hook of their own, edits the repository, and commits.  Git   *)
(* rejects a commit when pre-commit exits non-zero; a user's hook may do   *)
(* either.                                                                  *)
(***************************************************************************)
GitInit ==
    /\ Step /\ ~hooksDir
    /\ hooksDir' = TRUE
    /\ UNCHANGED <<enabled, hookFile, repo, exits, lastCommit, pending>>

InstallUserHook ==
    /\ Step /\ hooksDir
    /\ hookFile' = "user"
    /\ UNCHANGED <<enabled, hooksDir, repo, exits, lastCommit, pending>>

Edit ==
    /\ Step
    /\ repo' \in Repos \ {repo}
    /\ UNCHANGED <<enabled, hookFile, hooksDir, exits, lastCommit, pending>>

\* The outcomes Git may give a commit with pre-commit as it is.
CommitOutcomes(h, r) ==
    IF h = "guardrail" THEN {IF HookExit(r) = 0 THEN "accepted" ELSE "rejected"}
    ELSE IF h = "user" THEN {"accepted", "rejected"}
    ELSE {"accepted"}

Commit ==
    /\ Step /\ hooksDir
    /\ lastCommit' \in CommitOutcomes(hookFile, repo)
    /\ UNCHANGED <<enabled, hookFile, hooksDir, repo, exits, pending>>

Next ==
    \/ EnableHook \/ WriteHook \/ DisableHook \/ UnlinkHook \/ KillHookCommand
    \/ GitCheck
    \/ GitInit \/ InstallUserHook \/ Edit \/ Commit

Spec == Init /\ [][Next]_vars

-----------------------------------------------------------------------------
TypeOK ==
    /\ enabled \in BOOLEAN
    /\ hookFile \in {"absent", "guardrail", "user"}
    /\ hooksDir \in BOOLEAN
    /\ repo \in Repos
    /\ exits \in Seq({0, 1})
    /\ lastCommit \in {"none", "accepted", "rejected"}
    /\ steps \in 0..MaxSteps
    /\ pending \in {"none", "enable", "disable"}

(***************************************************************************)
(* Spec (CLI surface): git-check exits non-zero when the overall score     *)
(* falls below the configured minimum, "the hook gate used to block        *)
(* commits".  With Guardrail's pre-commit hook installed, Git should       *)
(* accept a commit exactly when the quick audit passes min_score.          *)
(***************************************************************************)
HookGate ==
    [][Commit /\ hookFile = "guardrail" => (lastCommit' = "accepted" <=> PassesCheck(repo))]_vars
=============================================================================
