------------------------------ MODULE MCExport ------------------------------
(***************************************************************************)
(* Two scopes, a VM and a subnetwork with an edge between them, and three  *)
(* starts, two of them in one second of which one's digits begin the       *)
(* other's.                                                                *)
(***************************************************************************)
EXTENDS Export, TLC

CONSTANTS p1, p2

MCResource  == {"vm", "subnet"}
MCKindOf    == [r \in MCResource |-> IF r = "vm" THEN "VM" ELSE "Subnet"]
MCKindOrder == <<"VM", "Subnet">>
MCLink      == {<<"vm", "subnet">>}
MCSymmetry  == Permutations({p1, p2})

MCInstant   == {110, 112, 200}

\* Nothing is asked of what happens once the export has ended.  Which runs are
\* picked is asked of three runs without rows; of runs that are read there are
\* two at most.
MCExporting ==
  /\ pc \notin {"saved", "failed"}
  /\ Len(runs) = 3 => pc # "read" /\ \A i \in DOMAIN runs : runs[i].rows = {}
=============================================================================
