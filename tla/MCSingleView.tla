---------------------------- MODULE MCSingleView ----------------------------
(***************************************************************************)
(* Instances of SingleView: two scopes, each with its latest run.  There  *)
(* is a resource of kind v in each, and one of kind d in r1 only.           *)
(***************************************************************************)
EXTENDS SingleView

CONSTANTS r1, r2, v, d

MCSize == [r \in Run |-> [k \in Kind |-> IF k = d /\ r = r2 THEN 0 ELSE 1]]
=============================================================================
