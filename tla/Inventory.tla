----------------------------- MODULE Inventory ------------------------------
(***************************************************************************)
(* Which resource of the cloud a row of the database stands for.  A scan   *)
(* meets most resources twice: Cloud Asset Inventory lists them as stubs   *)
(* (translateResult of internal/providers/gcp/asset.go), then the API of   *)
(* their kind with their details (the build...Resource functions).  Each   *)
(* time the code makes up an id; rows are keyed by project, kind and id    *)
(* (store.go, INSERT OR REPLACE), and edges join two such keys.            *)
(*                                                                         *)
(* An insert is a step of its own here: Scan says in which portions they   *)
(* are committed, and Provider in which order they may come.               *)
(***************************************************************************)
EXTENDS Naturals, FiniteSets, Sequences

CONSTANTS
  Object,       \* resources of the cloud a scan of one project can meet
  Listed,       \* those of the project; the others belong to a host project
  Type,         \* the asset type of each
  Name,         \* its name, the last segment of its full resource name
  Location,     \* its zone or region, "" when the API gives none
  Uses,         \* a VM's subnetworks, a disk's VMs, a subnetwork's network
  ScopePieces   \* the project's id, split at its colons

-----------------------------------------------------------------------------
(***************************************************************************)
(* Asset types and kinds: one type of each kind that has an enricher (two  *)
(* of Function), and two of the many a stub-only kind has.                 *)
(***************************************************************************)
assetTypeToKind ==
  [Instance |-> "VM", Disk |-> "Disk", Network |-> "Network", Subnetwork |-> "Subnet",
   Firewall |-> "Firewall", ForwardingRule |-> "LoadBalancer", SqlInstance |-> "Database",
   Bucket |-> "Bucket", Cluster |-> "Cluster", RunService |-> "Function",
   CloudFunction |-> "Function", Dataset |-> "BigQuery", Table |-> "BigQuery"]

AssetType == DOMAIN assetTypeToKind
StubOnlyType == {"Dataset", "Table"}
Kind(o) == assetTypeToKind[Type[o]]

\* Objects are told apart by name and location, some types by name alone.
NamedInProject == {"Network", "Firewall", "SqlInstance", "Bucket"}
NamedInLocation ==
  {"Instance", "Disk", "Subnetwork", "ForwardingRule", "Cluster", "RunService", "CloudFunction"}

ASSUME InventoryAssumption ==
  /\ Listed \subseteq Object
  /\ Type \in [Object -> AssetType]
  /\ Uses \in [Object -> SUBSET Object]
  /\ Name \in [Object -> STRING] /\ Location \in [Object -> STRING]
  /\ ScopePieces \in Seq(Seq(STRING))
  /\ \A o \in Object : Location[o] # "" \/ Type[o] \notin NamedInLocation
  /\ \A o \in Object : \A u \in Uses[o] :
       <<Type[o], Type[u]>> \in {<<"Instance", "Subnetwork">>, <<"Disk", "Instance">>,
                                <<"Subnetwork", "Network">>}
  /\ \A o, p \in Listed :
       (/\ Type[o] = Type[p] /\ Type[o] \in NamedInProject \cup NamedInLocation
        /\ Name[o] = Name[p] /\ (Type[o] \in NamedInLocation => Location[o] = Location[p]))
       => o = p

-----------------------------------------------------------------------------
(***************************************************************************)
(* Ids are paths of segments; a reference is written provider:scope:kind:id *)
(* and is here the sequence of its pieces between colons.                  *)
(***************************************************************************)
\* Mutant of locationQualifiedID: the location is left out.
UnqualifiedID(location, name) == <<name>>

locationQualifiedID(location, name) ==
  IF location = "" THEN <<name>> ELSE <<location, name>>

platformLocationQualifiedID(platform, location, name) ==
  <<platform>> \o locationQualifiedID(location, name)

\* ResourceRef.String; id is a sequence of pieces, of one when no colon is in it.
RefString(kind, id) == <<<<"gcp">>>> \o ScopePieces \o <<<<kind>>>> \o id

\* parseRef and idFromRef: SplitN(ref, ":", 4), of which the last is the id.
parseRef(text) == SubSeq(text, 4, Len(text))

\* Mutant of assetResourceID: a Cloud Run service goes by its bare name.
assetResourceIDBare(o) ==
  IF Type[o] = "CloudFunction"
  THEN platformLocationQualifiedID("cloudfunctions", Location[o], Name[o])
  ELSE <<Name[o]>>

assetResourceID(o) ==
  CASE Type[o] = "RunService"    -> platformLocationQualifiedID("cloudrun", Location[o], Name[o])
    [] Type[o] = "CloudFunction" -> platformLocationQualifiedID("cloudfunctions", Location[o], Name[o])
    [] OTHER                     -> <<Name[o]>>

-----------------------------------------------------------------------------
(***************************************************************************)
(* Resources, as they are sent: the row's key and kind, the object and the *)
(* level of detail its other columns come from, and its references.        *)
(***************************************************************************)
Edge(kind, to) == [kind |-> kind, to |-> to]

Resource(o, id, level, refs) ==
  [ref |-> RefString(Kind(o), <<id>>), kind |-> Kind(o), of |-> o, level |-> level, refs |-> refs]

Detailed(o, id, refs) == Resource(o, id, "full", refs)

translateResult(o) == Resource(o, assetResourceID(o), "stub", {})

vmSubnetRef(s) == RefString("Subnet", <<<<Name[s]>>>>)

buildVMResource(o) ==
  Detailed(o, <<Name[o]>>, {Edge("RoutesFrom", vmSubnetRef(s)) : s \in Uses[o]})

\* Mutant of buildDiskResource: users are taken for disks.
buildDiskAttachedToDisk(o) ==
  Detailed(o, <<Name[o]>>,
           {Edge("AttachedTo", RefString("Disk", <<<<Name[u]>>>>)) : u \in Uses[o]})

buildDiskResource(o) ==
  Detailed(o, <<Name[o]>>,
           {Edge("AttachedTo", RefString("VM", <<<<Name[u]>>>>)) : u \in Uses[o]})

buildSubnetResource(o) ==
  Detailed(o, <<Name[o]>>,
           {Edge("RoutesFrom", RefString("Network", <<<<Name[n]>>>>)) : n \in Uses[o]})

buildNetworkResource(o)  == Detailed(o, <<Name[o]>>, {})
buildFirewallResource(o) == Detailed(o, <<Name[o]>>, {})
buildLBResource(o)       == Detailed(o, <<Name[o]>>, {})
buildDatabaseResource(o) == Detailed(o, <<Name[o]>>, {})
buildBucketResource(o)   == Detailed(o, <<Name[o]>>, {})

buildClusterResource(o) == Detailed(o, locationQualifiedID(Location[o], Name[o]), {})

buildRunServiceResource(o) ==
  Detailed(o, platformLocationQualifiedID("cloudrun", Location[o], Name[o]), {})

buildCloudFunctionResource(o) ==
  Detailed(o, platformLocationQualifiedID("cloudfunctions", Location[o], Name[o]), {})

\* allEnrichers: what the enricher of o's kind sends for it.
Enriched(o) ==
  CASE Type[o] = "Instance"       -> buildVMResource(o)
    [] Type[o] = "Disk"           -> buildDiskResource(o)
    [] Type[o] = "Network"        -> buildNetworkResource(o)
    [] Type[o] = "Subnetwork"     -> buildSubnetResource(o)
    [] Type[o] = "Firewall"       -> buildFirewallResource(o)
    [] Type[o] = "ForwardingRule" -> buildLBResource(o)
    [] Type[o] = "SqlInstance"    -> buildDatabaseResource(o)
    [] Type[o] = "Cluster"        -> buildClusterResource(o)
    [] Type[o] = "Bucket"         -> buildBucketResource(o)
    [] Type[o] = "RunService"     -> buildRunServiceResource(o)
    [] Type[o] = "CloudFunction"  -> buildCloudFunctionResource(o)

-----------------------------------------------------------------------------
VARIABLES
  rows,      \* the table resources of the run: a resource for each key
  edges,     \* the table edges
  stubs,     \* objects phase 1 has still to list
  details,   \* objects phase 2 has still to list
  failed     \* a listing ended with an error

vars == <<rows, edges, stubs, details, failed>>

EnrichedObject == {o \in Listed : Type[o] \notin StubOnlyType}

Init ==
  /\ rows = [x \in {} |-> {}]
  /\ edges = {}
  /\ stubs = Listed
  /\ details = EnrichedObject
  /\ failed = FALSE

\* INSERT OR REPLACE of the row, INSERT OR IGNORE of its edges.
Insert(r) ==
  /\ rows' = [x \in DOMAIN rows \cup {r.ref} |-> IF x = r.ref THEN r ELSE rows[x]]
  /\ edges' = edges \cup {[from |-> r.ref, kind |-> e.kind, to |-> e.to] : e \in r.refs}

Stub(o) ==
  /\ o \in stubs
  /\ Insert(translateResult(o))
  /\ stubs' = stubs \ {o}
  /\ UNCHANGED <<details, failed>>

\* One strict search lists all types that have an enricher.
StrictSearchFails ==
  /\ stubs \cap EnrichedObject # {}
  /\ stubs' = stubs \ EnrichedObject
  /\ failed' = TRUE
  /\ UNCHANGED <<rows, edges, details>>

\* A stub-only type has a search of its own; InvalidArgument is no error there.
GracefulSearchFails(t) ==
  /\ \E o \in stubs : Type[o] = t
  /\ stubs' = {o \in stubs : Type[o] # t}
  /\ failed' \in {failed, TRUE}
  /\ UNCHANGED <<rows, edges, details>>

Detail(o) ==
  /\ stubs = {}
  /\ o \in details
  /\ Insert(Enriched(o))
  /\ details' = details \ {o}
  /\ UNCHANGED <<stubs, failed>>

EnricherFails(t) ==
  /\ stubs = {}
  /\ \E o \in details : Type[o] = t
  /\ details' = {o \in details : Type[o] # t}
  /\ failed' = TRUE
  /\ UNCHANGED <<rows, edges, stubs>>

Next ==
  \/ \E o \in Listed : Stub(o) \/ Detail(o)
  \/ StrictSearchFails
  \/ \E t \in StubOnlyType : GracefulSearchFails(t)
  \/ \E t \in AssetType \ StubOnlyType : EnricherFails(t)

Spec == Init /\ [][Next]_vars

-----------------------------------------------------------------------------
InvTypeOK ==
  /\ \A x \in DOMAIN rows :
       /\ rows[x].ref = x
       /\ rows[x].of \in Listed
       /\ rows[x].kind = Kind(rows[x].of)
       /\ rows[x].level \in {"stub", "full"}
  /\ \A e \in edges : e.from \in DOMAIN rows
  /\ stubs \subseteq Listed /\ details \subseteq EnrichedObject
  /\ failed \in BOOLEAN

Complete == stubs = {} /\ details = {} /\ ~failed

\* After a scan without errors no resource of an enriched kind is left a stub:
\* both ids of a resource are the same.  Clusters are the exception.
StubsAreReplaced ==
  Complete =>
    \A x \in DOMAIN rows :
      Type[rows[x].of] \notin StubOnlyType \cup {"Cluster"} => rows[x].level = "full"

\* Where the ids of a type tell its objects apart - of those named within the
\* project, clusters and functions - no other object ever has the row of an
\* object's details, and without errors it stays detailed once it is.  The
\* other types have bare names for ids that are unique in a zone only.
ToldApart(o) == Type[o] \in NamedInProject \cup {"Cluster", "RunService", "CloudFunction"}

RowsTellApart ==
  \A o \in EnrichedObject :
    LET x == Enriched(o).ref
    IN  ToldApart(o) =>
          /\ x \in DOMAIN rows => rows[x].of = o
          /\ o \notin details /\ ~failed => x \in DOMAIN rows /\ rows[x].level = "full"

\* After a scan without errors every reference to a resource of the project
\* is an edge that ends at a row of the right kind and name.  A VM's subnetwork
\* may be a host project's, and then the edge may end nowhere.
EdgesEndAtRows ==
  Complete =>
    \A o \in EnrichedObject : \A u \in Uses[o] \cap Listed :
      \E e \in edges :
        /\ e.from = Enriched(o).ref
        /\ e.to \in DOMAIN rows
        /\ rows[e.to].kind = Kind(u) /\ Name[rows[e.to].of] = Name[u]

\* What a reader makes of a stored key is that key again, so the Detail of a
\* row finds the row's edges (filterEdges of internal/tui/screens/detail.go).
RefRoundTrips ==
  \A x \in DOMAIN rows : RefString(rows[x].kind, parseRef(x)) = x

\* No kind is counted twice: it has at most as many rows as the project has
\* resources of it.
CountedOnce ==
  \A o \in Listed :
    Cardinality({x \in DOMAIN rows : rows[x].kind = Kind(o)})
      <= Cardinality({p \in Listed : Kind(p) = Kind(o)})
=============================================================================
