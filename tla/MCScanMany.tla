----------------------------- MODULE MCScanMany -----------------------------
(***************************************************************************)
(* Small instances of ScanMany: two or three scopes, a view that lists two *)
(* completions.                                                            *)
(***************************************************************************)
EXTENDS ScanMany
=============================================================================
