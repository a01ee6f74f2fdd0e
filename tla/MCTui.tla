------------------------------- MODULE MCTui --------------------------------
(***************************************************************************)
(* Instances of Tui: a project with two runs (r1 older than r2) and one    *)
(* with a single run.  Kind v has one resource in r1 and two in r2, kind d *)
(* one in r2, so a row may be in one run and not in another and a kind be  *)
(* missing from the overview.                                              *)
(***************************************************************************)
EXTENDS Tui

CONSTANTS r1, r2, r3, v, d, p1, p2

MCScopeOf == [r \in Run |-> IF r = r3 THEN p2 ELSE p1]
MCLatest == Run \ {r1}
MCSize ==
  [r \in Run |-> [k \in Kind |-> CASE k = v /\ r = r2 -> 2
                                   [] k = d /\ r # r2 -> 0
                                   [] OTHER -> 1]]

\* The smallest lists: one resource of each kind in each run.
MCOneRow == [r \in Run |-> [k \in Kind |-> 1]]
=============================================================================
