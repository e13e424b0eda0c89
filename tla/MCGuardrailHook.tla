---------------------------- MODULE MCGuardrailHook ----------------------------
(***************************************************************************)
(* The Git hook on two repositories: one complete (every dimension 100)   *)
(* and one missing its configs, deployment files and most documentation,   *)
(* whose overall score under the default weights is below 70.             *)
(***************************************************************************)
EXTENDS GuardrailHook

MCMissing == {"backend/.eslintrc.js", "frontend/.eslintrc.js", "backend/tsconfig.json",
              "frontend/tsconfig.json", ".prettierrc",
              "docker-compose.yml", "docker-compose.dev.yml", "backend/Dockerfile",
              "frontend/Dockerfile", ".env.example",
              "README.md", "DEPLOYMENT.md", "RUNBOOK.md", "docs/api.md", QuickStart}

MCRepo(missing) == [files |-> [f \in Files |-> IF f \in missing THEN "absent" ELSE "full"],
                    lint |-> [s \in Sides |-> 0],
                    testsFailed |-> FALSE, coverageLow |-> FALSE, inlineDocsLow |-> FALSE,
                    reqs |-> [total |-> 2, implemented |-> 2]]

MCRepos == {MCRepo({}), MCRepo(MCMissing)}

MCMem == [found |-> TRUE, total |-> 2, implemented |-> 2]
=============================================================================
