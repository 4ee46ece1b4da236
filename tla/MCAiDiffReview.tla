--------------------------- MODULE MCAiDiffReview ---------------------------
(***************************************************************************)
(* The review of proposals with a record of whether the audit files were   *)
(* disturbed: two appends at the same time, or one that was cut off.       *)
(* Rejections run under the read lock, so both can happen.                 *)
(***************************************************************************)
EXTENDS AiDiffReview

VARIABLE disturbed

Appending(t) == call[t].at \in {"line", "newline", "record"}
Overlapping == \E t, u \in Thread : t # u /\ Appending(t) /\ Appending(u)

\* The call of t dies with the program, or gives up before its record is written.
CutOff(t) == Appending(t) /\ call'[t] = Idle /\ answer' = answer

MCInit == Init /\ disturbed = FALSE
MCNext ==
    /\ Next
    /\ disturbed' = (disturbed \/ Overlapping' \/ \E t \in Thread : CutOff(t))
MCSpec == MCInit /\ [][MCNext]_<<vars, disturbed>>

(* As long as every append had the files to itself and was finished, the   *)
(* audit log can be opened, hence appended to, and the companion file      *)
(* tells the same events in the same order (aec_ai/src/audit.rs, "One full *)
(* AiAuditRecord per event").                                              *)
UndisturbedLogIsWhole == ~disturbed => LogOpens /\ RecordsMatchChain
=============================================================================
