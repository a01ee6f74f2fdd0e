------------------------------- MODULE MCScan -------------------------------
(***************************************************************************)
(* Small instances of Scan.  A VM is listed by Asset Inventory and by its  *)
(* enricher, a topic by Asset Inventory only, a function by the second     *)
(* listing of its enricher only.                                           *)
(***************************************************************************)
EXTENDS Scan

CONSTANTS vm, fn, topic, strict, pubsub, vms, run, functions

MCRef == {vm, fn, topic}
MCParts == << <<vms>>, <<run, functions>> >>
MCListing ==
  [c \in Call |-> CASE c = strict    -> {vm}
                    [] c = pubsub    -> {topic}
                    [] c = vms       -> {vm}
                    [] c = functions -> {fn}
                    [] OTHER         -> {}]
=============================================================================
