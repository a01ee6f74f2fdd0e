----------------------------- MODULE RunLedger ------------------------------
(***************************************************************************)
(* What the database promises about one run, whoever reads it and however  *)
(* the scan ended: a run is opened once and gets at most one final status; *)
(* its rows appear while it is running, only ever gain detail, and are     *)
(* sealed with the status.                                                 *)
(***************************************************************************)
CONSTANT Ref

VARIABLES
  status,      \* "none", "running", "ok" or "failed"
  rows         \* the detail stored of each resource

AtLeast(have, want) ==
  have = "full" \/ want = "none" \/ have = want

LInit ==
  /\ status = "none"
  /\ rows = [r \in Ref |-> "none"]

Open ==
  /\ status = "none"
  /\ status' = "running"
  /\ UNCHANGED rows

Write ==
  /\ status = "running"
  /\ rows' \in [Ref -> {"none", "stub", "full"}]
  /\ \A r \in Ref : AtLeast(rows'[r], rows[r])
  /\ UNCHANGED status

Finish ==
  /\ status = "running"
  /\ status' \in {"ok", "failed"}
  /\ UNCHANGED rows

LNext == Open \/ Write \/ Finish

LSpec == LInit /\ [][LNext]_<<status, rows>>
=============================================================================
