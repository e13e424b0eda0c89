--------------------------- MODULE GuardrailHistory ---------------------------
(***************************************************************************)
(* What the history store promises (spec 3 and 4.4), independently of how  *)
(* trend.py loads and saves history.json: the stored history only ever     *)
(* changes by one snapshot being appended at its end, and when it then     *)
(* holds more than Cap snapshots the oldest one is dropped (FIFO).  Which  *)
(* snapshot is appended is left open; no entry is ever rewritten, lost or  *)
(* reordered.                                                               *)
(***************************************************************************)
EXTENDS Naturals, Sequences

CONSTANT Cap

VARIABLE history

\* The newest Cap elements of a sequence.
Newest(s) == IF Len(s) > Cap THEN SubSeq(s, Len(s) - Cap + 1, Len(s)) ELSE s

Init == history = << >>

\* One snapshot e, the new last element, is appended; the oldest may go.
Record ==
    /\ history' # << >>
    /\ history' = Newest(Append(history, history'[Len(history')]))

Spec == Init /\ [][Record]_history
=============================================================================
