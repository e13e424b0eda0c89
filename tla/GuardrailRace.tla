---------------------------- MODULE GuardrailRace ----------------------------
(***************************************************************************)
(* Several Guardrail invocations against one .guardrail/ directory, each   *)
(* an OS process of its own (a cron weekly run, a manual "guardrail trend", *)
(* a "guardrail audit" from another shell), and each possibly killed by    *)
(* its caller at any point (spec 5).  Only the file protocol of            *)
(* history.json and latest_audit.json is kept:                              *)
(*   - TrendAgent.update_trends loads history.json (trend.py 44), reads    *)
(*     latest_audit.json (47), appends and caps in memory, and saves       *)
(*     history.json (67);                                                   *)
(*   - the audit command saves latest_audit.json (cli.py 94-96);           *)
(*   - save_json (utils.py 157-160) opens the file with "w", which         *)
(*     truncates it, and then writes the JSON text: between the two, and   *)
(*     forever if the process dies there, the file does not parse, and     *)
(*     load_json raises on it (the CLI then exits with 1).                 *)
(* An audit's scores are left out: an audit is identified by a value.      *)
(***************************************************************************)
EXTENDS GuardrailTrend

CONSTANTS
    Procs,      \* the invocations
    Kind,       \* Kind[p] \in {"trend", "audit"}: the command p runs
    AuditOf,    \* AuditOf[p]: the audit the audit invocation p computes
    Serial,     \* TRUE when history writers never overlap (single-writer use)
    NoFile,     \* the file does not exist
    Partial     \* the file is truncated or half written

ASSUME RaceAssumption ==
    /\ Kind \in [Procs -> {"trend", "audit"}]
    /\ Serial \in BOOLEAN
    /\ NoFile # Partial

\* The audits the audit invocations may save.
Audits == {AuditOf[p] : p \in {q \in Procs : Kind[q] = "audit"}}

\* A missing or unparseable file is never a saved history.
ASSUME FileStateAssumption == NoFile \notin Seq(Audits) /\ Partial \notin Seq(Audits)

VARIABLES
    historyFile,  \* history.json on disk
    auditFile,    \* latest_audit.json on disk
    pc,           \* where each invocation is
    localHist,    \* the history list update_trends loaded
    localAudit,   \* the audit update_trends read
    saved         \* ghost: the content of the last complete save of history.json

vars == <<historyFile, auditFile, pc, localHist, localAudit, saved>>

\* A trend invocation between loading history.json and finishing its save.
Active == {"loaded", "save", "writing"}

Init ==
    /\ historyFile = NoFile
    /\ auditFile = NoFile
    /\ pc = [p \in Procs |-> "start"]
    /\ localHist = [p \in Procs |-> << >>]
    /\ localAudit = [p \in Procs |-> NoFile]
    /\ saved = << >>

-----------------------------------------------------------------------------
(***************************************************************************)
(* update_trends.                                                           *)
(***************************************************************************)

\* Variant: a history.json that does not parse is taken as [] (a bare except).
LoadHistoryLenient(p) ==
    /\ Kind[p] = "trend" /\ pc[p] = "start"
    /\ Serial => \A q \in Procs \ {p} : Kind[q] = "trend" => pc[q] \notin Active
    /\ localHist' = [localHist EXCEPT ![p] = IF historyFile \in {NoFile, Partial} THEN << >>
                                                                               ELSE historyFile]
    /\ pc' = [pc EXCEPT ![p] = "loaded"]
    /\ UNCHANGED <<historyFile, auditFile, localAudit, saved>>

\* _load_history: [] without the file, load_json otherwise; a file that does
\* not parse raises and the invocation fails.  Under Serial the invocation
\* only starts when no other history writer is active.
LoadHistory(p) ==
    /\ Kind[p] = "trend" /\ pc[p] = "start"
    /\ Serial => \A q \in Procs \ {p} : Kind[q] = "trend" => pc[q] \notin Active
    /\ IF historyFile = Partial
       THEN /\ pc' = [pc EXCEPT ![p] = "failed"]
            /\ UNCHANGED localHist
       ELSE /\ localHist' = [localHist EXCEPT ![p] = IF historyFile = NoFile THEN << >>
                                                                           ELSE historyFile]
            /\ pc' = [pc EXCEPT ![p] = "loaded"]
    /\ UNCHANGED <<historyFile, auditFile, localAudit, saved>>

\* Variant: the file is read without checking that it parsed.
ReadLatestAuditUnchecked(p) ==
    /\ pc[p] = "loaded"
    /\ IF auditFile = NoFile
       THEN pc' = [pc EXCEPT ![p] = "done"] /\ UNCHANGED localAudit
       ELSE /\ localAudit' = [localAudit EXCEPT ![p] = auditFile]
            /\ pc' = [pc EXCEPT ![p] = "save"]
    /\ UNCHANGED <<historyFile, auditFile, localHist, saved>>

\* _get_latest_audit: no file ends the call with an empty report (nothing
\* saved); a file that does not parse raises.
ReadLatestAudit(p) ==
    /\ pc[p] = "loaded"
    /\ \/ auditFile = NoFile /\ pc' = [pc EXCEPT ![p] = "done"] /\ UNCHANGED localAudit
       \/ auditFile = Partial /\ pc' = [pc EXCEPT ![p] = "failed"] /\ UNCHANGED localAudit
       \/ /\ auditFile \notin {NoFile, Partial}
          /\ localAudit' = [localAudit EXCEPT ![p] = auditFile]
          /\ pc' = [pc EXCEPT ![p] = "save"]
    /\ UNCHANGED <<historyFile, auditFile, localHist, saved>>

\* save_json, first half: open(file_path, "w") truncates history.json.
TruncateHistory(p) ==
    /\ pc[p] = "save"
    /\ historyFile' = Partial
    /\ pc' = [pc EXCEPT ![p] = "writing"]
    /\ UNCHANGED <<auditFile, localHist, localAudit, saved>>

\* save_json, second half: json.dump of the list appended and capped in
\* memory (history.append, history[-52:]).
WriteHistory(p) ==
    /\ Kind[p] = "trend" /\ pc[p] = "writing"
    /\ historyFile' = AppendCapped(localHist[p], localAudit[p])
    /\ saved' = historyFile'
    /\ pc' = [pc EXCEPT ![p] = "done"]
    /\ UNCHANGED <<auditFile, localHist, localAudit>>

(***************************************************************************)
(* guardrail audit: run_audit, then save_json of latest_audit.json.         *)
(***************************************************************************)
TruncateAudit(p) ==
    /\ Kind[p] = "audit" /\ pc[p] = "start"
    /\ auditFile' = Partial
    /\ pc' = [pc EXCEPT ![p] = "writing"]
    /\ UNCHANGED <<historyFile, localHist, localAudit, saved>>

WriteAudit(p) ==
    /\ Kind[p] = "audit" /\ pc[p] = "writing"
    /\ auditFile' = AuditOf[p]
    /\ pc' = [pc EXCEPT ![p] = "done"]
    /\ UNCHANGED <<historyFile, localHist, localAudit, saved>>

\* The caller kills an invocation that has started (spec 5: no cancellation,
\* the process is killed); whatever it left on disk stays.
Kill(p) ==
    /\ pc[p] \in Active
    /\ pc' = [pc EXCEPT ![p] = "killed"]
    /\ UNCHANGED <<historyFile, auditFile, localHist, localAudit, saved>>

Next ==
    \E p \in Procs :
        \/ LoadHistory(p)
        \/ ReadLatestAudit(p)
        \/ TruncateHistory(p)
        \/ WriteHistory(p)
        \/ TruncateAudit(p)
        \/ WriteAudit(p)
        \/ Kill(p)

Spec == Init /\ [][Next]_vars

-----------------------------------------------------------------------------
TypeOK ==
    /\ historyFile \in Seq(Audits) \cup {NoFile, Partial}
    /\ auditFile \in Audits \cup {NoFile, Partial}
    /\ pc \in [Procs -> {"start", "failed", "done", "killed"} \cup Active]
    /\ localHist \in [Procs -> Seq(Audits)]
    /\ localAudit \in [Procs -> Audits \cup {NoFile}]
    /\ saved \in Seq(Audits)

\* The history store's promise, with the last completely saved history.json.
AbstractHistory == INSTANCE GuardrailHistory WITH Cap <- HistoryCap, history <- saved

(***************************************************************************)
(* The split load/append/save of update_trends implements the atomic      *)
(* history store (spec 4.4): every complete save of history.json appends   *)
(* one snapshot to the previous complete save, even with audits saved and  *)
(* invocations killed in between; with concurrent trend runs (Serial      *)
(* FALSE) one of two appends is lost.                                      *)
(***************************************************************************)
HistoryImplemented == AbstractHistory!Spec

(***************************************************************************)
(* Spec 5 lets the caller kill an invocation at any time: history.json     *)
(* should parse whenever no invocation is in the middle of saving it.      *)
(* save_json truncates in place, so a kill during json.dump leaves it      *)
(* unparseable and every later trend run fails on it.                       *)
(***************************************************************************)
HistoryReadable ==
    (\A p \in Procs : Kind[p] = "trend" => pc[p] # "writing") => historyFile # Partial
=============================================================================
