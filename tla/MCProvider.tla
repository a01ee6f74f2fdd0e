----------------------------- MODULE MCProvider -----------------------------
(***************************************************************************)
(* Small instance of Provider: two enrichers and one slot.  A VM, and a    *)
(* load balancer in the regional listing of an enricher that lists twice   *)
(* and stops at the first error (enrichLoadBalancers); a topic known to    *)
(* Asset Inventory only.                                                   *)
(***************************************************************************)
EXTENDS Provider

CONSTANTS vm, lb, topic, strict, pubsub, vms, global, regional

MCRef == {vm, lb, topic}
MCParts == << <<vms>>, <<global, regional>> >>
MCListing ==
  [c \in Call |-> CASE c = strict    -> {vm}
                    [] c = pubsub    -> {topic}
                    [] c = vms       -> {vm}
                    [] c = regional  -> {lb}
                    [] OTHER         -> {}]
=============================================================================
