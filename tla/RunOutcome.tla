----------------------------- MODULE RunOutcome -----------------------------
(***************************************************************************)
(* What a scan of one scope may return, and what it may leave in its run   *)
(* row: the summary of scanOneScope that its callers rely on.  Scan is     *)
(* checked and proved to keep to it, ScanMany builds on it.                *)
(***************************************************************************)

\* result is what the caller sees of the error: "canceled" when it wraps
\* context.Canceled.  status is that of the run row, "none" without a row.
Outcome(result, status) == [result |-> result, status |-> status]

\* The outcomes of a scan whose context is cancelled or not by the time it
\* returns, and whose database refuses writes or not.
Outcomes(cancelled, faulty) ==
  {Outcome("ok", "ok"), Outcome("error", "failed")}
    \cup (IF cancelled
          THEN {Outcome("canceled", "none"), Outcome("canceled", "running")}
          ELSE {})
    \cup (IF cancelled \/ faulty
          THEN {Outcome("error", "none"), Outcome("error", "running")}
          ELSE {})
=============================================================================
