----------------------------- MODULE MCDatabase -----------------------------
(* Two processes at a time, which are alike, and the tables of               *)
(* 0001_initial.sql.                                                         *)
EXTENDS Bundle, TLC
MCScript == <<"runs", "scopes", "resources", "edges", "schema_meta">>
MCAlike == Permutations(Proc)
=============================================================================
