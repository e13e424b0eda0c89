----------------------------- MODULE MCGuardrail -----------------------------
(***************************************************************************)
(* Guardrail on a small repository for TLC.                                *)
(***************************************************************************)
EXTENDS Guardrail

(***************************************************************************)
(* A repository that fails three dimensions at once: the ESLint, tsconfig *)
(* and Prettier files (code quality 45, red), the compose files, the      *)
(* Dockerfiles and .env.example (deployment 30, red), README, DEPLOYMENT,  *)
(* RUNBOOK and the API docs (documentation 40, red) are missing; the tests *)
(* exist but coverage is low (testing 90); docs/PRD.md has two            *)
(* requirements, one implemented.                                          *)
(***************************************************************************)
MCMissing == {"backend/.eslintrc.js", "frontend/.eslintrc.js", "backend/tsconfig.json",
              "frontend/tsconfig.json", ".prettierrc",
              "docker-compose.yml", "docker-compose.dev.yml", "backend/Dockerfile",
              "frontend/Dockerfile", ".env.example",
              "README.md", "DEPLOYMENT.md", "RUNBOOK.md", "docs/api.md", QuickStart}

MCRepo0 == [files |-> [f \in Files |-> IF f \in MCMissing THEN "absent" ELSE "full"],
            lint |-> [s \in Sides |-> 0],
            testsFailed |-> FALSE, coverageLow |-> TRUE, inlineDocsLow |-> FALSE,
            reqs |-> [total |-> 2, implemented |-> 1]]

MCInitRepos == {MCRepo0}

\* A user-edited config: weights that do not sum to 100, one of them zero.
MCWeights == [code_quality |-> 2, testing |-> 1, deployment |-> 1,
              documentation |-> 1, prd_compliance |-> 0]

MCEditableFiles == {"README.md", ".prettierrc", "docs/PRD.md"}

MCReqStates == {[total |-> 2, implemented |-> 1], [total |-> 4, implemented |-> 3]}
=============================================================================
