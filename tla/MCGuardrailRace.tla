--------------------------- MODULE MCGuardrailRace ---------------------------
(***************************************************************************)
(* Three trend invocations and two audit invocations on one repository.   *)
(***************************************************************************)
EXTENDS GuardrailRace

CONSTANTS t1, t2, t3, a1, a2

MCProcs == {t1, t2, t3, a1, a2}

MCKind == [p \in MCProcs |-> IF p \in {a1, a2} THEN "audit" ELSE "trend"]

\* Each audit invocation computes an audit of its own.
MCAuditOf == [p \in MCProcs |-> IF p = a1 THEN "A1" ELSE "A2"]
=============================================================================
