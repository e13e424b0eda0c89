-------------------------- MODULE GuardrailHookProofs --------------------------
(***************************************************************************)
(* Proofs about the Git hook model (GuardrailHook).                        *)
(***************************************************************************)
EXTENDS GuardrailHook, SequenceTheorems, TLAPS

\* Each exit code a command appends is 0 or 1.
LEMMA ExitsAppend ==
    ASSUME NEW s \in Seq({0, 1}), NEW e \in {0, 1}
    PROVE  Append(s, e) \in Seq({0, 1})
BY AppendProperties

\* git-check exits 0 or 1 on every repository.
LEMMA GitCheckExitBit ==
    ASSUME NEW r
    PROVE  GitCheckExit(r) \in {0, 1}
BY DEF GitCheckExit

\* Git gives a commit one of its outcomes whatever pre-commit holds.
LEMMA CommitOutcomeType ==
    ASSUME NEW h \in {"absent", "guardrail", "user"}, NEW r
    PROVE  CommitOutcomes(h, r) \subseteq {"accepted", "rejected"}
BY DEF CommitOutcomes

(***************************************************************************)
(* Every command the hook model runs keeps the state well formed for every *)
(* set of repositories and every bound: git-check and the hook commands    *)
(* (enable, disable) only ever exit 0 or 1, the repository the quick audit *)
(* sees is one of the repositories the developer's edits move between, a   *)
(* commit ends accepted or rejected, and a hook command killed between its *)
(* config save and its file write leaves nothing pending.                  *)
(***************************************************************************)
THEOREM HookTypeCorrect == Spec => []TypeOK
<1>1. Init => TypeOK
    <2> SUFFICES ASSUME Init PROVE TypeOK
        OBVIOUS
    <2>1. << >> \in Seq({0, 1})
        BY EmptySeq
    <2>2. 0 \in 0..MaxSteps
        BY HookAssumption
    <2>. QED  BY <2>1, <2>2 DEF Init, TypeOK
<1>2. TypeOK /\ [Next]_vars => TypeOK'
    <2> SUFFICES ASSUME TypeOK, [Next]_vars PROVE TypeOK'
        OBVIOUS
    <2>0. Step => steps' \in 0..MaxSteps
        BY HookAssumption DEF Step, TypeOK
    <2>1. CASE EnableHook
        BY <2>0, <2>1 DEF EnableHook, TypeOK
    <2>2. CASE DisableHook
        BY <2>0, <2>2 DEF DisableHook, TypeOK
    <2>9. CASE WriteHook
        <3>1. exits' \in Seq({0, 1})
            BY <2>9, ExitsAppend DEF WriteHook, TypeOK
        <3>. QED  BY <2>9, <3>1 DEF WriteHook, TypeOK
    <2>10. CASE UnlinkHook
        <3>1. exits' \in Seq({0, 1})
            BY <2>10, ExitsAppend DEF UnlinkHook, TypeOK
        <3>. QED  BY <2>10, <3>1 DEF UnlinkHook, TypeOK
    <2>11. CASE KillHookCommand
        BY <2>11 DEF KillHookCommand, TypeOK
    <2>3. CASE GitCheck
        <3>1. exits' \in Seq({0, 1})
            BY <2>3, ExitsAppend, GitCheckExitBit DEF GitCheck, TypeOK
        <3>. QED  BY <2>0, <2>3, <3>1 DEF GitCheck, TypeOK
    <2>4. CASE Commit
        <3>1. lastCommit' \in {"accepted", "rejected"}
            BY <2>4, CommitOutcomeType DEF Commit, TypeOK
        <3>. QED  BY <2>0, <2>4, <3>1 DEF Commit, TypeOK
    <2>5. CASE GitInit
        BY <2>0, <2>5 DEF GitInit, TypeOK
    <2>7. CASE InstallUserHook
        BY <2>0, <2>7 DEF InstallUserHook, TypeOK
    <2>8. CASE Edit
        BY <2>0, <2>8 DEF Edit, TypeOK
    <2>6. CASE UNCHANGED vars
        BY <2>6 DEF vars, TypeOK
    <2>. QED  BY <2>1, <2>2, <2>3, <2>4, <2>5, <2>6, <2>7, <2>8, <2>9, <2>10, <2>11
              DEF Next
<1>. QED  BY <1>1, <1>2, PTL DEF Spec
=============================================================================
