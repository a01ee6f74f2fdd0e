---------------------------- MODULE MCInventory -----------------------------
(***************************************************************************)
(* A small project: a VM with a nic in its own network and one in a host   *)
(* project's, a disk, a network with a subnetwork, three functions of one  *)
(* name on two platforms and in two regions, a cluster, and a table.       *)
(***************************************************************************)
EXTENDS Inventory

MCTable ==
  [web_a  |-> [type |-> "Instance",      name |-> "web",     at |-> "a", uses |-> {"sub_a", "shared"}],
   disk_a |-> [type |-> "Disk",          name |-> "web",     at |-> "a", uses |-> {"web_a"}],
   net    |-> [type |-> "Network",       name |-> "default", at |-> "",  uses |-> {}],
   sub_a  |-> [type |-> "Subnetwork",    name |-> "default", at |-> "a", uses |-> {"net"}],
   shared |-> [type |-> "Subnetwork",    name |-> "shared",  at |-> "b", uses |-> {}],
   gke    |-> [type |-> "Cluster",       name |-> "web",     at |-> "a", uses |-> {}],
   run_a  |-> [type |-> "RunService",    name |-> "hello",   at |-> "a", uses |-> {}],
   run_b  |-> [type |-> "RunService",    name |-> "hello",   at |-> "b", uses |-> {}],
   fun_a  |-> [type |-> "CloudFunction", name |-> "hello",   at |-> "a", uses |-> {}],
   table  |-> [type |-> "Table",         name |-> "logs",    at |-> "",  uses |-> {}]]

MCObject   == DOMAIN MCTable
MCListed   == MCObject \ {"shared"}
MCType     == [o \in MCObject |-> MCTable[o].type]
MCName     == [o \in MCObject |-> MCTable[o].name]
MCLocation == [o \in MCObject |-> MCTable[o].at]
MCUses     == [o \in MCObject |-> MCTable[o].uses]

\* A project's id, and one of a project that belongs to a domain.
MCScope    == <<<<"project">>>>
MCDomain   == <<<<"example.com">>, <<"project">>>>
=============================================================================
