---------------------------- MODULE StoreProofs -----------------------------
(***************************************************************************)
(* Proofs about what is stored.  First Inventory, for every project: what  *)
(* a row stands for, and when a stub is replaced.  Then Database and       *)
(* Bundle, for every number of processes, runs and tables: the schema      *)
(* behind a recorded version, the one writer of a run, the lock, the       *)
(* ledger of each run, and the bundle nobody disturbs.                     *)
(*                                                                         *)
(* The invariant of the second part has to say what the transaction under  *)
(* way will commit (DraftInv), who may be in one (LockInv) and which run   *)
(* each process is about (OwnInv).                                         *)
(***************************************************************************)
EXTENDS Inventory, Bundle, SequenceTheorems, TLAPS

-----------------------------------------------------------------------------
(***************************************************************************)
(* Inventory.                                                              *)
(***************************************************************************)
\* The id an enricher makes up.
IDOf(o) ==
  CASE Type[o] = "RunService"    -> <<"cloudrun", Location[o], Name[o]>>
    [] Type[o] = "CloudFunction" -> <<"cloudfunctions", Location[o], Name[o]>>
    [] Type[o] = "Cluster"       -> <<Location[o], Name[o]>>
    [] OTHER                     -> <<Name[o]>>

RefOf(o) == RefString(Kind(o), <<IDOf(o)>>)

EnrichedType == AssetType \ StubOnlyType

\* Segments and kinds.
Text == STRING \cup {"gcp", "cloudrun", "cloudfunctions"} \cup {assetTypeToKind[t] : t \in AssetType}

LEMMA Types ==
  /\ AssetType = {"Instance", "Disk", "Network", "Subnetwork", "Firewall", "ForwardingRule",
                  "SqlInstance", "Bucket", "Cluster", "RunService", "CloudFunction",
                  "Dataset", "Table"}
  /\ EnrichedType = {"Instance", "Disk", "Network", "Subnetwork", "Firewall", "ForwardingRule",
                     "SqlInstance", "Bucket", "Cluster", "RunService", "CloudFunction"}
BY DEF AssetType, EnrichedType, StubOnlyType, assetTypeToKind

LEMMA Tuples ==
  ASSUME NEW S, NEW a \in S, NEW b \in S, NEW c \in S
  PROVE  /\ <<a>> \in Seq(S) /\ Len(<<a>>) = 1 /\ <<a>>[1] = a
         /\ <<a, b>> \in Seq(S) /\ Len(<<a, b>>) = 2
         /\ <<a, b, c>> \in Seq(S) /\ Len(<<a, b, c>>) = 3
OBVIOUS

LEMMA ThreeSegments ==
  ASSUME NEW S, NEW a \in S, NEW b \in S, NEW c \in S
  PROVE  <<a>> \o <<b, c>> = <<a, b, c>>
<1> DEFINE r == <<a>> \o <<b, c>>
<1>1. /\ <<a>> \in Seq(S) /\ Len(<<a>>) = 1 /\ <<a>>[1] = a
      /\ <<b, c>> \in Seq(S) /\ Len(<<b, c>>) = 2
      /\ <<a, b, c>> \in Seq(S) /\ Len(<<a, b, c>>) = 3
  BY Tuples
<1>2. r \in Seq(S) /\ Len(r) = 3 /\ r[1] = a /\ r[2] = b /\ r[3] = c
  BY <1>1, ConcatProperties
<1>3. \A i \in 1 .. Len(r) : r[i] = <<a, b, c>>[i]
  BY <1>2
<1> QED
  BY <1>1, <1>2, <1>3, SeqEqual

\* Kind and id can be read off a reference.
LEMMA Pieces ==
  ASSUME NEW S, NEW s \in Seq(S), NEW a \in S, NEW b \in S, NEW c \in S
  PROVE  /\ (<<a>> \o s \o <<b>> \o <<c>>)[Len(s) + 2] = b
         /\ (<<a>> \o s \o <<b>> \o <<c>>)[Len(s) + 3] = c
<1> DEFINE p == <<a>> \o s   q == p \o <<b>>   t == q \o <<c>>
<1>1. /\ <<a>> \in Seq(S) /\ Len(<<a>>) = 1
      /\ <<b>> \in Seq(S) /\ Len(<<b>>) = 1 /\ <<b>>[1] = b
      /\ <<c>> \in Seq(S) /\ Len(<<c>>) = 1 /\ <<c>>[1] = c
  BY Tuples
<1>2. Len(s) \in Nat
  OBVIOUS
<1>3. p \in Seq(S) /\ Len(p) = Len(s) + 1
  BY <1>1, <1>2, ConcatProperties
<1> HIDE DEF p
<1>4. q \in Seq(S) /\ Len(q) = Len(s) + 2 /\ q[Len(s) + 2] = b
  BY <1>1, <1>2, <1>3, ConcatProperties
<1> HIDE DEF q
<1>5. t[Len(s) + 3] = c /\ t[Len(s) + 2] = q[Len(s) + 2]
  BY <1>1, <1>2, <1>4, ConcatProperties
<1> QED
  BY <1>4, <1>5 DEF p, q

\* A reference determines kind and id.
LEMMA RefIsUnique ==
  ASSUME NEW k \in Text, NEW m \in Text, NEW i \in Seq(Text), NEW j \in Seq(Text),
         RefString(k, <<i>>) = RefString(m, <<j>>)
  PROVE  k = m /\ i = j
<1>1. ScopePieces \in Seq(Seq(Text))
  <2>1. Seq(STRING) \subseteq Seq(Text)
    BY SeqMonotonic DEF Text
  <2>2. ScopePieces \in Seq(Seq(STRING))
    BY InventoryAssumption
  <2> QED
    BY <2>1, <2>2, SeqMonotonic
<1>2. <<k>> \in Seq(Text) /\ <<m>> \in Seq(Text) /\ <<"gcp">> \in Seq(Text)
  <2>1. "gcp" \in Text
    BY DEF Text
  <2> QED
    BY <2>1, Tuples
<1>3. /\ RefString(k, <<i>>)[Len(ScopePieces) + 2] = <<k>>
      /\ RefString(k, <<i>>)[Len(ScopePieces) + 3] = i
  <2>1. RefString(k, <<i>>) = <<<<"gcp">>>> \o ScopePieces \o <<<<k>>>> \o <<i>>
    BY DEF RefString
  <2>2. /\ (<<<<"gcp">>>> \o ScopePieces \o <<<<k>>>> \o <<i>>)[Len(ScopePieces) + 2] = <<k>>
        /\ (<<<<"gcp">>>> \o ScopePieces \o <<<<k>>>> \o <<i>>)[Len(ScopePieces) + 3] = i
    BY <1>1, <1>2, Pieces
  <2> QED
    BY <2>1, <2>2
<1>4. /\ RefString(m, <<j>>)[Len(ScopePieces) + 2] = <<m>>
      /\ RefString(m, <<j>>)[Len(ScopePieces) + 3] = j
  <2>1. RefString(m, <<j>>) = <<<<"gcp">>>> \o ScopePieces \o <<<<m>>>> \o <<j>>
    BY DEF RefString
  <2>2. /\ (<<<<"gcp">>>> \o ScopePieces \o <<<<m>>>> \o <<j>>)[Len(ScopePieces) + 2] = <<m>>
        /\ (<<<<"gcp">>>> \o ScopePieces \o <<<<m>>>> \o <<j>>)[Len(ScopePieces) + 3] = j
    BY <1>1, <1>2, Pieces
  <2> QED
    BY <2>1, <2>2
<1>5. i = j /\ <<k>>[1] = <<m>>[1]
  BY <1>3, <1>4
<1> QED
  BY <1>5, Tuples

LEMMA Ids ==
  ASSUME NEW o \in Listed
  PROVE  /\ Kind(o) \in Text /\ Name[o] \in Text /\ Location[o] \in Text
         /\ IDOf(o) \in Seq(Text) /\ assetResourceID(o) \in Seq(Text)
         /\ Type[o] \notin StubOnlyType \cup {"Cluster"} => assetResourceID(o) = IDOf(o)
<1>1. Type[o] \in AssetType /\ Name[o] \in Text /\ Location[o] \in Text
  BY InventoryAssumption DEF Text
<1>2. Kind(o) \in Text
  BY <1>1 DEF Kind, Text
<1>3. CASE Type[o] \in {"RunService", "CloudFunction"}
  <2>1. Location[o] # ""
    BY <1>3, InventoryAssumption DEF NamedInLocation
  <2>2. ASSUME NEW p \in Text
        PROVE  platformLocationQualifiedID(p, Location[o], Name[o]) = <<p, Location[o], Name[o]>>
    <3>1. locationQualifiedID(Location[o], Name[o]) = <<Location[o], Name[o]>>
      BY <2>1 DEF locationQualifiedID
    <3>2. <<p>> \o <<Location[o], Name[o]>> = <<p, Location[o], Name[o]>>
      BY <1>1, <2>2, ThreeSegments
    <3> QED
      BY <3>1, <3>2 DEF platformLocationQualifiedID
  <2>3. assetResourceID(o) = IDOf(o)
    <3>1. "cloudrun" \in Text /\ "cloudfunctions" \in Text
      BY DEF Text
    <3>2. CASE Type[o] = "RunService"
      BY <2>2, <3>1, <3>2 DEF IDOf, assetResourceID
    <3>3. CASE Type[o] = "CloudFunction"
      BY <2>2, <3>1, <3>3 DEF IDOf, assetResourceID
    <3> QED
      BY <1>3, <3>2, <3>3
  <2>4. IDOf(o) \in Seq(Text)
    <3>1. "cloudrun" \in Text /\ "cloudfunctions" \in Text
      BY DEF Text
    <3>2. /\ <<"cloudrun", Location[o], Name[o]>> \in Seq(Text)
          /\ <<"cloudfunctions", Location[o], Name[o]>> \in Seq(Text)
      BY <1>1, <3>1, Tuples
    <3> QED
      BY <1>3, <3>2 DEF IDOf
  <2> QED
    BY <1>1, <1>2, <2>3, <2>4
<1>4. CASE Type[o] \notin {"RunService", "CloudFunction"}
  <2>1. assetResourceID(o) = <<Name[o]>>
    BY <1>4 DEF assetResourceID
  <2>2. <<Name[o]>> \in Seq(Text) /\ <<Location[o], Name[o]>> \in Seq(Text)
    BY <1>1, Tuples
  <2>3. IDOf(o) = IF Type[o] = "Cluster" THEN <<Location[o], Name[o]>> ELSE <<Name[o]>>
    BY <1>4 DEF IDOf
  <2> QED
    BY <1>1, <1>2, <2>1, <2>2, <2>3
<1> QED
  BY <1>3, <1>4

LEMMA DetailedIs ==
  ASSUME NEW o, NEW id, NEW refs
  PROVE  /\ Detailed(o, id, refs).ref = RefString(Kind(o), <<id>>)
         /\ Detailed(o, id, refs).kind = Kind(o)
         /\ Detailed(o, id, refs).of = o
         /\ Detailed(o, id, refs).level = "full"
         /\ Detailed(o, id, refs).refs = refs
BY DEF Detailed, Resource

\* The references of o, made from names.
RefsTo(o, k, kind) == {Edge(k, RefString(kind, <<<<Name[v]>>>>)) : v \in Uses[o]}

LEMMA EnrichedFields ==
  ASSUME NEW o, NEW refs, Enriched(o) = Detailed(o, IDOf(o), refs)
  PROVE  /\ Enriched(o).ref = RefOf(o) /\ Enriched(o).kind = Kind(o)
         /\ Enriched(o).of = o /\ Enriched(o).level = "full"
         /\ Enriched(o).refs = refs
BY DetailedIs DEF RefOf

LEMMA RefsReach ==
  ASSUME NEW o, NEW k, NEW kind
  PROVE  \A u \in Uses[o] : \E e \in RefsTo(o, k, kind) : e.to = RefString(kind, <<<<Name[u]>>>>)
<1> SUFFICES ASSUME NEW u \in Uses[o]
             PROVE  \E e \in RefsTo(o, k, kind) : e.to = RefString(kind, <<<<Name[u]>>>>)
  OBVIOUS
<1> DEFINE to == RefString(kind, <<<<Name[u]>>>>)
<1>1. Edge(k, to) \in RefsTo(o, k, kind)
  BY DEF RefsTo
<1>2. Edge(k, to).to = to
  BY DEF Edge
<1> QED
  BY <1>1, <1>2

\* What an enricher sends, whatever the kind.
LEMMA EnrichedIs ==
  ASSUME NEW o \in EnrichedObject
  PROVE  /\ Enriched(o).ref = RefOf(o) /\ Enriched(o).kind = Kind(o)
         /\ Enriched(o).of = o /\ Enriched(o).level = "full"
         /\ \A u \in Uses[o] :
              \E e \in Enriched(o).refs : e.to = RefString(Kind(u), <<<<Name[u]>>>>)
<1>0. Type[o] \in EnrichedType /\ o \in Listed /\ o \in Object
  BY InventoryAssumption DEF EnrichedObject, EnrichedType
<1>1. \A u \in Uses[o] :
        <<Type[o], Type[u]>> \in {<<"Instance", "Subnetwork">>, <<"Disk", "Instance">>,
                                 <<"Subnetwork", "Network">>}
  BY <1>0, InventoryAssumption
<1>2. CASE Type[o] = "Instance"
  <2>1. Enriched(o) = buildVMResource(o)
    BY <1>2 DEF Enriched
  <2>2. IDOf(o) = <<Name[o]>>
    BY <1>2 DEF IDOf
  <2>3. \A u \in Uses[o] : Kind(u) = "Subnet"
    BY <1>1, <1>2 DEF Kind, assetTypeToKind
  <2>4. Enriched(o) = Detailed(o, IDOf(o), RefsTo(o, "RoutesFrom", "Subnet"))
    BY <2>1, <2>2 DEF buildVMResource, vmSubnetRef, RefsTo
  <2>5. \A u \in Uses[o] :
          \E e \in RefsTo(o, "RoutesFrom", "Subnet") : e.to = RefString("Subnet", <<<<Name[u]>>>>)
    BY RefsReach
  <2>6. /\ Enriched(o).ref = RefOf(o) /\ Enriched(o).kind = Kind(o)
        /\ Enriched(o).of = o /\ Enriched(o).level = "full"
        /\ Enriched(o).refs = RefsTo(o, "RoutesFrom", "Subnet")
    BY <2>4, EnrichedFields
  <2>7. \A u \in Uses[o] : RefString("Subnet", <<<<Name[u]>>>>) = RefString(Kind(u), <<<<Name[u]>>>>)
    BY <2>3
  <2>8. \A u \in Uses[o] :
          \E e \in RefsTo(o, "RoutesFrom", "Subnet") : e.to = RefString(Kind(u), <<<<Name[u]>>>>)
    BY <2>5, <2>7
  <2> QED
    BY <2>6, <2>8
<1>3. CASE Type[o] = "Disk"
  <2>1. Enriched(o) = buildDiskResource(o)
    BY <1>3 DEF Enriched
  <2>2. IDOf(o) = <<Name[o]>>
    BY <1>3 DEF IDOf
  <2>3. \A u \in Uses[o] : Kind(u) = "VM"
    BY <1>1, <1>3 DEF Kind, assetTypeToKind
  <2>4. Enriched(o) = Detailed(o, IDOf(o), RefsTo(o, "AttachedTo", "VM"))
    BY <2>1, <2>2 DEF buildDiskResource, RefsTo
  <2>5. \A u \in Uses[o] :
          \E e \in RefsTo(o, "AttachedTo", "VM") : e.to = RefString("VM", <<<<Name[u]>>>>)
    BY RefsReach
  <2>6. /\ Enriched(o).ref = RefOf(o) /\ Enriched(o).kind = Kind(o)
        /\ Enriched(o).of = o /\ Enriched(o).level = "full"
        /\ Enriched(o).refs = RefsTo(o, "AttachedTo", "VM")
    BY <2>4, EnrichedFields
  <2>7. \A u \in Uses[o] : RefString("VM", <<<<Name[u]>>>>) = RefString(Kind(u), <<<<Name[u]>>>>)
    BY <2>3
  <2>8. \A u \in Uses[o] :
          \E e \in RefsTo(o, "AttachedTo", "VM") : e.to = RefString(Kind(u), <<<<Name[u]>>>>)
    BY <2>5, <2>7
  <2> QED
    BY <2>6, <2>8
<1>4. CASE Type[o] = "Subnetwork"
  <2>1. Enriched(o) = buildSubnetResource(o)
    BY <1>4 DEF Enriched
  <2>2. IDOf(o) = <<Name[o]>>
    BY <1>4 DEF IDOf
  <2>3. \A u \in Uses[o] : Kind(u) = "Network"
    BY <1>1, <1>4 DEF Kind, assetTypeToKind
  <2>4. Enriched(o) = Detailed(o, IDOf(o), RefsTo(o, "RoutesFrom", "Network"))
    BY <2>1, <2>2 DEF buildSubnetResource, RefsTo
  <2>5. \A u \in Uses[o] :
          \E e \in RefsTo(o, "RoutesFrom", "Network") : e.to = RefString("Network", <<<<Name[u]>>>>)
    BY RefsReach
  <2>6. /\ Enriched(o).ref = RefOf(o) /\ Enriched(o).kind = Kind(o)
        /\ Enriched(o).of = o /\ Enriched(o).level = "full"
        /\ Enriched(o).refs = RefsTo(o, "RoutesFrom", "Network")
    BY <2>4, EnrichedFields
  <2>7. \A u \in Uses[o] : RefString("Network", <<<<Name[u]>>>>) = RefString(Kind(u), <<<<Name[u]>>>>)
    BY <2>3
  <2>8. \A u \in Uses[o] :
          \E e \in RefsTo(o, "RoutesFrom", "Network") : e.to = RefString(Kind(u), <<<<Name[u]>>>>)
    BY <2>5, <2>7
  <2> QED
    BY <2>6, <2>8
<1>5. CASE Type[o] \notin {"Instance", "Disk", "Subnetwork"}
  <2>1. Uses[o] = {}
    BY <1>1, <1>5
  <2>2. Enriched(o) = Detailed(o, IDOf(o), {})
    <3>1. CASE Type[o] \in {"Network", "Firewall", "ForwardingRule", "SqlInstance", "Bucket"}
      BY <3>1 DEF Enriched, IDOf, buildNetworkResource, buildFirewallResource,
                  buildLBResource, buildDatabaseResource, buildBucketResource
    <3>2. CASE Type[o] \in {"Cluster", "RunService", "CloudFunction"}
      <4>1. Location[o] # "" /\ Location[o] \in Text /\ Name[o] \in Text
        BY <1>0, <3>2, InventoryAssumption DEF NamedInLocation, Text
      <4>2. locationQualifiedID(Location[o], Name[o]) = <<Location[o], Name[o]>>
        BY <4>1 DEF locationQualifiedID
      <4>3. ASSUME NEW p \in Text
            PROVE  platformLocationQualifiedID(p, Location[o], Name[o]) = <<p, Location[o], Name[o]>>
        BY <4>1, <4>2, ThreeSegments DEF platformLocationQualifiedID
      <4>4. "cloudrun" \in Text /\ "cloudfunctions" \in Text
        BY DEF Text
      <4>5. CASE Type[o] = "Cluster"
        BY <4>2, <4>5 DEF Enriched, IDOf, buildClusterResource
      <4>6. CASE Type[o] = "RunService"
        BY <4>3, <4>4, <4>6 DEF Enriched, IDOf, buildRunServiceResource
      <4>7. CASE Type[o] = "CloudFunction"
        BY <4>3, <4>4, <4>7 DEF Enriched, IDOf, buildCloudFunctionResource
      <4> QED
        BY <3>2, <4>5, <4>6, <4>7
    <3> QED
      BY <1>0, <1>5, <3>1, <3>2, Types
  <2> QED
    BY <2>1, <2>2, EnrichedFields
<1> QED
  BY <1>2, <1>3, <1>4, <1>5

LEMMA StubIs ==
  ASSUME NEW o
  PROVE  /\ translateResult(o).ref = RefString(Kind(o), <<assetResourceID(o)>>)
         /\ translateResult(o).kind = Kind(o) /\ translateResult(o).of = o
         /\ translateResult(o).level = "stub" /\ translateResult(o).refs = {}
BY DEF translateResult, Resource

-----------------------------------------------------------------------------
(***************************************************************************)
(* Ids that tell objects apart.                                            *)
(***************************************************************************)
LEMMA KindsApart ==
  ASSUME NEW o \in Listed, NEW p \in Listed, ToldApart(o), Kind(p) = Kind(o)
  PROVE  \/ Type[p] = Type[o]
         \/ {Type[o], Type[p]} \subseteq {"RunService", "CloudFunction"}
<1>1. Type[o] \in AssetType /\ Type[p] \in AssetType
  BY InventoryAssumption
<1>2. Type[o] \in {"Network", "Firewall", "SqlInstance", "Bucket", "Cluster", "RunService", "CloudFunction"}
  BY DEF ToldApart, NamedInProject
<1>3. assetTypeToKind[Type[p]] = assetTypeToKind[Type[o]]
  BY DEF Kind
<1> QED
  BY <1>1, <1>2, <1>3, Types DEF assetTypeToKind

\* The id of such an object's details is not an id of another of its kind.
LEMMA IdsApart ==
  ASSUME NEW o \in Listed, NEW p \in Listed, ToldApart(o), Kind(p) = Kind(o),
         IDOf(o) \in {IDOf(p), assetResourceID(p)}
  PROVE  p = o
<1>1. /\ Name[o] \in Text /\ Location[o] \in Text
      /\ Name[p] \in Text /\ Location[p] \in Text
  BY Ids
<1>2. CASE Type[o] \in NamedInProject
  <2>1. Type[p] = Type[o]
    BY <1>2, KindsApart DEF NamedInProject
  <2>2. IDOf(o) = <<Name[o]>> /\ IDOf(p) = <<Name[p]>> /\ assetResourceID(p) = <<Name[p]>>
    BY <1>2, <2>1 DEF IDOf, assetResourceID, NamedInProject
  <2>3. Name[o] = Name[p]
    BY <2>2
  <2> QED
    BY <1>2, <2>1, <2>3, InventoryAssumption DEF NamedInProject, NamedInLocation
<1>3. CASE Type[o] = "Cluster"
  <2>1. Type[p] = "Cluster"
    BY <1>3, KindsApart
  <2>2. /\ IDOf(o) = <<Location[o], Name[o]>> /\ IDOf(p) = <<Location[p], Name[p]>>
        /\ assetResourceID(p) = <<Name[p]>>
    BY <1>3, <2>1 DEF IDOf, assetResourceID
  <2>3. Len(IDOf(o)) = 2 /\ Len(assetResourceID(p)) = 1
    BY <1>1, <2>2, Tuples
  <2>4. IDOf(o) = IDOf(p)
    BY <2>3
  <2>5. Name[o] = Name[p] /\ Location[o] = Location[p]
    BY <2>2, <2>4
  <2> QED
    BY <1>3, <2>1, <2>5, InventoryAssumption DEF NamedInLocation
<1>4. CASE Type[o] \in {"RunService", "CloudFunction"}
  <2>1. Type[p] \in {"RunService", "CloudFunction"}
    BY <1>4, KindsApart
  <2>2. assetResourceID(p) = IDOf(p)
    BY <2>1, Ids DEF StubOnlyType
  <2>3. IDOf(o) = IDOf(p)
    BY <2>2
  <2>4. /\ Type[o] = "RunService" => IDOf(o) = <<"cloudrun", Location[o], Name[o]>>
        /\ Type[o] = "CloudFunction" => IDOf(o) = <<"cloudfunctions", Location[o], Name[o]>>
        /\ Type[p] = "RunService" => IDOf(p) = <<"cloudrun", Location[p], Name[p]>>
        /\ Type[p] = "CloudFunction" => IDOf(p) = <<"cloudfunctions", Location[p], Name[p]>>
    BY DEF IDOf
  <2>5. Type[p] = Type[o] /\ Name[o] = Name[p] /\ Location[o] = Location[p]
    BY <1>4, <2>1, <2>3, <2>4
  <2> QED
    BY <1>4, <2>5, InventoryAssumption DEF NamedInLocation
<1> QED
  BY <1>2, <1>3, <1>4 DEF ToldApart

-----------------------------------------------------------------------------
(***************************************************************************)
(* The inductive invariant.                                                *)
(***************************************************************************)
\* What the row of key x may be: a stub or the details of an object with it.
RowOf(x, r) ==
  /\ r.ref = x /\ r.of \in Listed /\ r.kind = Kind(r.of)
  /\ \/ r.level = "stub" /\ x = RefString(Kind(r.of), <<assetResourceID(r.of)>>)
     \/ r.level = "full" /\ x = RefOf(r.of) /\ r.of \in EnrichedObject

Origin == \A x \in DOMAIN rows : RowOf(x, rows[x])

\* Phase 2 waits for phase 1.
Phase == stubs # {} => details = EnrichedObject

Reaches(o, u, es) ==
  \E e \in es : e.from = RefOf(o) /\ e.to = RefString(Kind(u), <<<<Name[u]>>>>)

\* What has been enriched is a detailed row, with its edges.
Kept ==
  ~failed =>
    \A o \in EnrichedObject \ details :
      /\ RefOf(o) \in DOMAIN rows /\ rows[RefOf(o)].level = "full"
      /\ \A u \in Uses[o] : Reaches(o, u, edges)

Bounds ==
  /\ \A e \in edges : e.from \in DOMAIN rows
  /\ stubs \subseteq Listed /\ details \subseteq EnrichedObject
  /\ failed \in BOOLEAN

IInv == Origin /\ Bounds /\ Phase /\ Kept

LEMMA Inserted ==
  ASSUME NEW r, Insert(r)
  PROVE  /\ DOMAIN rows' = DOMAIN rows \cup {r.ref}
         /\ \A x \in DOMAIN rows' : rows'[x] = IF x = r.ref THEN r ELSE rows[x]
         /\ edges \subseteq edges'
         /\ \A e \in edges' : e \in edges \/ e.from = r.ref
         /\ \A f \in r.refs : \E e \in edges' : e.from = r.ref /\ e.to = f.to
<1>1. DOMAIN rows' = DOMAIN rows \cup {r.ref}
  BY DEF Insert
<1>2. \A x \in DOMAIN rows' : rows'[x] = IF x = r.ref THEN r ELSE rows[x]
  BY DEF Insert
<1> DEFINE new == {[from |-> r.ref, kind |-> e.kind, to |-> e.to] : e \in r.refs}
<1>3. edges' = edges \cup new
  BY DEF Insert
<1>4. \A e \in new : e.from = r.ref
  OBVIOUS
<1>5. \A f \in r.refs : \E e \in new : e.from = r.ref /\ e.to = f.to
  <2> SUFFICES ASSUME NEW f \in r.refs
               PROVE  \E e \in new : e.from = r.ref /\ e.to = f.to
    OBVIOUS
  <2>1. [from |-> r.ref, kind |-> f.kind, to |-> f.to] \in new
    OBVIOUS
  <2> QED
    BY <2>1
<1> QED
  BY <1>1, <1>2, <1>3, <1>4, <1>5

\* An insert of something a row may be leaves rows that may be, and its edges.
LEMMA InsertKeeps ==
  ASSUME Origin, Bounds, NEW r, RowOf(r.ref, r), Insert(r)
  PROVE  Origin' /\ \A e \in edges' : e.from \in DOMAIN rows'
<1>1. /\ DOMAIN rows' = DOMAIN rows \cup {r.ref}
      /\ \A x \in DOMAIN rows' : rows'[x] = IF x = r.ref THEN r ELSE rows[x]
      /\ \A e \in edges' : e \in edges \/ e.from = r.ref
  BY Inserted
<1>2. \A x \in DOMAIN rows' : RowOf(x, rows'[x])
  <2> SUFFICES ASSUME NEW x \in DOMAIN rows' PROVE RowOf(x, rows'[x])
    OBVIOUS
  <2>1. CASE x = r.ref
    <3>1. rows'[x] = r
      BY <1>1, <2>1
    <3> QED
      BY <2>1, <3>1
  <2>2. CASE x # r.ref
    <3>1. x \in DOMAIN rows /\ rows'[x] = rows[x]
      BY <1>1, <2>2
    <3> QED
      BY <3>1 DEF Origin
  <2> QED
    BY <2>1, <2>2
<1>3. Origin'
  BY <1>2 DEF Origin, RowOf, EnrichedObject
<1> QED
  BY <1>1, <1>3 DEF Bounds

LEMMA InitIInv == Init => IInv
BY DEF Init, IInv, Origin, Bounds, Phase, Kept, EnrichedObject

LEMMA StubKeeps ==
  ASSUME IInv, NEW o \in Listed, Stub(o)
  PROVE  IInv'
<1>1. /\ o \in stubs /\ Insert(translateResult(o)) /\ stubs' = stubs \ {o}
      /\ details' = details /\ failed' = failed
  BY DEF Stub
<1>2. RowOf(translateResult(o).ref, translateResult(o))
  BY StubIs DEF RowOf
<1>3. Origin' /\ \A e \in edges' : e.from \in DOMAIN rows'
  BY <1>1, <1>2, InsertKeeps DEF IInv
<1>4. details' = EnrichedObject
  BY <1>1 DEF IInv, Phase
<1> QED
  BY <1>1, <1>3, <1>4 DEF IInv, Bounds, Phase, Kept, EnrichedObject

LEMMA DetailKeeps ==
  ASSUME IInv, NEW o \in Listed, Detail(o)
  PROVE  IInv'
<1> DEFINE r == Enriched(o)
<1>1. /\ stubs = {} /\ o \in details /\ Insert(r) /\ details' = details \ {o}
      /\ stubs' = stubs /\ failed' = failed
  BY DEF Detail
<1>2. o \in EnrichedObject
  BY <1>1 DEF IInv, Bounds
<1>3. /\ r.ref = RefOf(o) /\ r.kind = Kind(o) /\ r.of = o /\ r.level = "full"
      /\ \A u \in Uses[o] : \E f \in r.refs : f.to = RefString(Kind(u), <<<<Name[u]>>>>)
  BY <1>2, EnrichedIs
<1>4. /\ DOMAIN rows' = DOMAIN rows \cup {r.ref}
      /\ \A x \in DOMAIN rows' : rows'[x] = IF x = r.ref THEN r ELSE rows[x]
      /\ edges \subseteq edges'
      /\ \A f \in r.refs : \E e \in edges' : e.from = r.ref /\ e.to = f.to
  BY <1>1, Inserted
<1> HIDE DEF r
<1>5. RowOf(r.ref, r)
  BY <1>2, <1>3 DEF RowOf
<1>6. Origin' /\ \A e \in edges' : e.from \in DOMAIN rows'
  BY <1>1, <1>5, InsertKeeps DEF IInv
<1>7. Kept'
  <2> SUFFICES ASSUME ~failed, NEW p \in EnrichedObject, p \notin details'
               PROVE  /\ RefOf(p) \in DOMAIN rows' /\ rows'[RefOf(p)].level = "full"
                      /\ \A u \in Uses[p] : Reaches(p, u, edges')
    BY <1>1 DEF Kept, RefOf, RefString, Kind, IDOf, Reaches, EnrichedObject
  <2>1. CASE p = o
    <3>1. RefOf(p) \in DOMAIN rows' /\ rows'[RefOf(p)].level = "full"
      BY <1>3, <1>4, <2>1
    <3>2. \A u \in Uses[o] : Reaches(o, u, edges')
      BY <1>3, <1>4 DEF Reaches
    <3> QED
      BY <2>1, <3>1, <3>2
  <2>2. CASE p # o
    <3>1. /\ RefOf(p) \in DOMAIN rows /\ rows[RefOf(p)].level = "full"
          /\ \A u \in Uses[p] : Reaches(p, u, edges)
      BY <1>1, <2>2 DEF IInv, Kept
    <3>2. RefOf(p) \in DOMAIN rows' /\ rows'[RefOf(p)].level = "full"
      BY <1>3, <1>4, <3>1
    <3>3. \A u \in Uses[p] : Reaches(p, u, edges')
      BY <1>4, <3>1 DEF Reaches
    <3> QED
      BY <3>2, <3>3
  <2> QED
    BY <2>1, <2>2
<1> QED
  BY <1>1, <1>6, <1>7 DEF IInv, Bounds, Phase, EnrichedObject

\* A listing that fails leaves the rows alone.
LEMMA FailureKeeps ==
  ASSUME IInv, UNCHANGED <<rows, edges>>, stubs' \subseteq stubs, details' \subseteq details,
         stubs' # {} => details' = details, failed' \in BOOLEAN,
         ~failed' => ~failed /\ details' = details
  PROVE  IInv'
<1>1. Origin'
  BY DEF IInv, Origin
<1>2. Bounds' /\ Phase'
  BY DEF IInv, Bounds, Phase, EnrichedObject
<1>3. Kept'
  BY DEF IInv, Kept, EnrichedObject, RefOf, RefString, Kind, IDOf, Reaches
<1> QED
  BY <1>1, <1>2, <1>3 DEF IInv

LEMMA NextIInv == IInv /\ [Next]_vars => IInv'
<1> SUFFICES ASSUME IInv, [Next]_vars PROVE IInv'
  OBVIOUS
<1>0. failed \in BOOLEAN
  BY DEF IInv, Bounds
<1>1. CASE \E o \in Listed : Stub(o)
  BY <1>1, StubKeeps
<1>2. CASE \E o \in Listed : Detail(o)
  BY <1>2, DetailKeeps
<1>3. CASE StrictSearchFails
  BY <1>0, <1>3, FailureKeeps DEF StrictSearchFails
<1>4. CASE \E t \in StubOnlyType : GracefulSearchFails(t)
  <2> PICK t \in StubOnlyType : GracefulSearchFails(t)
    BY <1>4
  <2>1. UNCHANGED <<rows, edges>> /\ details' = details /\ stubs' \subseteq stubs
    BY DEF GracefulSearchFails
  <2>2. failed' = failed \/ failed' = TRUE
    BY DEF GracefulSearchFails
  <2>3. failed' \in BOOLEAN /\ (~failed' => ~failed)
    BY <1>0, <2>2, Zenon
  <2> QED
    BY <2>1, <2>3, FailureKeeps
<1>5. CASE \E t \in AssetType \ StubOnlyType : EnricherFails(t)
  BY <1>0, <1>5, FailureKeeps DEF EnricherFails
<1>6. CASE UNCHANGED vars
  BY <1>0, <1>6, FailureKeeps DEF vars
<1> QED
  BY <1>1, <1>2, <1>3, <1>4, <1>5, <1>6 DEF Next

LEMMA Inductive == Spec => []IInv
BY InitIInv, NextIInv, PTL DEF Spec

-----------------------------------------------------------------------------
(***************************************************************************)
(* What follows from it.                                                   *)
(***************************************************************************)
LEMMA ImpliesTypeOK == IInv => InvTypeOK
BY DEF IInv, Origin, RowOf, Bounds, InvTypeOK

\* A stub and the details of an object have one key, except for clusters: so
\* what is a stub after the details came was never enriched.
LEMMA ImpliesReplaced == IInv => StubsAreReplaced
<1> SUFFICES ASSUME IInv, Complete, NEW x \in DOMAIN rows,
                    Type[rows[x].of] \notin StubOnlyType \cup {"Cluster"}
             PROVE  rows[x].level = "full"
  BY DEF StubsAreReplaced
<1> DEFINE p == rows[x].of
<1>1. RowOf(x, rows[x]) /\ p \in Listed
  BY DEF IInv, Origin, RowOf
<1>2. p \in EnrichedObject
  BY <1>1 DEF EnrichedObject
<1>3. rows[RefOf(p)].level = "full"
  BY <1>2 DEF IInv, Kept, Complete
<1>4. CASE x = RefString(Kind(p), <<assetResourceID(p)>>)
  <2>1. assetResourceID(p) = IDOf(p)
    BY <1>1, Ids
  <2> QED
    BY <1>3, <1>4, <2>1 DEF RefOf
<1> QED
  BY <1>1, <1>4 DEF RowOf

\* The key of an object's row gives its kind and one of its two ids.
LEMMA RowHas ==
  ASSUME IInv, NEW o \in EnrichedObject, RefOf(o) \in DOMAIN rows
  PROVE  LET p == rows[RefOf(o)].of
         IN  p \in Listed /\ Kind(p) = Kind(o) /\ IDOf(o) \in {IDOf(p), assetResourceID(p)}
<1> DEFINE p == rows[RefOf(o)].of
<1>1. RowOf(RefOf(o), rows[RefOf(o)]) /\ p \in Listed /\ o \in Listed
  BY DEF IInv, Origin, RowOf, EnrichedObject
<1>2. /\ Kind(o) \in Text /\ Kind(p) \in Text
      /\ IDOf(o) \in Seq(Text) /\ IDOf(p) \in Seq(Text) /\ assetResourceID(p) \in Seq(Text)
  BY <1>1, Ids
<1>3. \/ RefString(Kind(o), <<IDOf(o)>>) = RefString(Kind(p), <<assetResourceID(p)>>)
      \/ RefString(Kind(o), <<IDOf(o)>>) = RefString(Kind(p), <<IDOf(p)>>)
  BY <1>1 DEF RowOf, RefOf
<1>4. Kind(p) = Kind(o) /\ IDOf(o) \in {IDOf(p), assetResourceID(p)}
  BY <1>2, <1>3, RefIsUnique
<1> QED
  BY <1>1, <1>4

LEMMA ImpliesApart == IInv => RowsTellApart
<1> SUFFICES ASSUME IInv, NEW o \in EnrichedObject, ToldApart(o)
             PROVE  /\ RefOf(o) \in DOMAIN rows => rows[RefOf(o)].of = o
                    /\ o \notin details /\ ~failed =>
                         RefOf(o) \in DOMAIN rows /\ rows[RefOf(o)].level = "full"
  BY EnrichedIs DEF RowsTellApart
<1>1. ASSUME RefOf(o) \in DOMAIN rows
      PROVE  rows[RefOf(o)].of = o
  <2> DEFINE p == rows[RefOf(o)].of
  <2>1. p \in Listed /\ Kind(p) = Kind(o) /\ IDOf(o) \in {IDOf(p), assetResourceID(p)}
    BY <1>1, RowHas
  <2>2. o \in Listed
    BY DEF EnrichedObject
  <2> QED
    BY <2>1, <2>2, IdsApart
<1>2. ASSUME o \notin details, ~failed
      PROVE  RefOf(o) \in DOMAIN rows /\ rows[RefOf(o)].level = "full"
  BY <1>2 DEF IInv, Kept
<1> QED
  BY <1>1, <1>2

LEMMA ImpliesEndAtRows == IInv => EdgesEndAtRows
<1> SUFFICES ASSUME IInv, Complete, NEW o \in EnrichedObject, NEW u \in Uses[o], u \in Listed
             PROVE  \E e \in edges :
                      /\ e.from = Enriched(o).ref
                      /\ e.to \in DOMAIN rows
                      /\ rows[e.to].kind = Kind(u) /\ Name[rows[e.to].of] = Name[u]
  BY DEF EdgesEndAtRows
<1>1. /\ details = {} /\ ~failed
      /\ \A q \in EnrichedObject : RefOf(q) \in DOMAIN rows /\ \A v \in Uses[q] : Reaches(q, v, edges)
  BY DEF IInv, Kept, Complete
<1>2. Type[u] \in {"Subnetwork", "Instance", "Network"}
  BY InventoryAssumption DEF EnrichedObject
<1>3. u \in EnrichedObject
  BY <1>2 DEF EnrichedObject, StubOnlyType
<1>4. IDOf(u) = <<Name[u]>>
  BY <1>2 DEF IDOf
<1>5. PICK e \in edges : e.from = RefOf(o) /\ e.to = RefOf(u)
  BY <1>1, <1>4 DEF Reaches, RefOf
<1>6. RefOf(u) \in DOMAIN rows
  BY <1>1, <1>3
<1> DEFINE p == rows[RefOf(u)].of
<1>7. p \in Listed /\ Kind(p) = Kind(u) /\ IDOf(u) \in {IDOf(p), assetResourceID(p)}
  BY <1>3, <1>6, RowHas
<1>8. Type[p] = Type[u]
  <2>1. Type[p] \in AssetType
    BY <1>7, InventoryAssumption
  <2> QED
    BY <1>2, <1>7, <2>1, Types DEF Kind, assetTypeToKind
<1>9. IDOf(p) = <<Name[p]>> /\ assetResourceID(p) = <<Name[p]>>
  BY <1>2, <1>8 DEF IDOf, assetResourceID
<1>10. Name[p] = Name[u]
  BY <1>4, <1>7, <1>9
<1>11. rows[RefOf(u)].kind = Kind(u)
  BY <1>6, <1>7 DEF IInv, Origin, RowOf
<1>12. Enriched(o).ref = RefOf(o)
  BY EnrichedIs
<1> QED
  BY <1>5, <1>6, <1>10, <1>11, <1>12

-----------------------------------------------------------------------------
\* Every row is keyed by its own reference, stands for a resource of the
\* project and has that resource's kind; every edge starts at a row.
THEOREM TypeCorrect == Spec => []InvTypeOK
BY Inductive, ImpliesTypeOK, PTL

\* Whatever a project holds, a scan without errors leaves no resource of an
\* enriched kind a stub, clusters excepted: the two ids that listing and
\* enricher make up for a resource (asset.go and the build...Resource
\* functions) are one.
THEOREM StubsReplaced == Spec => []StubsAreReplaced
BY Inductive, ImpliesReplaced, PTL

\* Whatever a project holds, a network, firewall, database, bucket, cluster or
\* function has the row of its details to itself, and keeps it detailed.
THEOREM RowsApart == Spec => []RowsTellApart
BY Inductive, ImpliesApart, PTL

\* Whatever a project holds, after a scan without errors the references from
\* VMs, disks and subnetworks to resources of the project are edges that end
\* at a row of the right kind and name.
THEOREM EdgesEnd == Spec => []EdgesEndAtRows
BY Inductive, ImpliesEndAtRows, PTL

-----------------------------------------------------------------------------
(***************************************************************************)
(* Database and Bundle.                                                    *)
(***************************************************************************)
\* What is created is created for good, before the version is recorded.
SchemaInv ==
  /\ version # 0 => schema = Tables
  /\ \A p \in Proc : pc[p] \in Opened \cup {"record"} => schema = Tables
  /\ \A p \in Proc : \A n \in 1 .. Len(Script) : n < at[p] => Script[n] \in schema

\* Who has the lock is in a transaction, and only who has it.
LockInv ==
  /\ LockIsBrief
  /\ \A p \in Proc : pc[p] \in InTx => lock = p

Scanning == {"scan", "fail", "chunk"}
Inserting == {"scopeRow", "commitRun"}

\* The run of a process: there, or about to be, or none; and no one else's.
OwnInv ==
  /\ \A p \in Proc :
       /\ pc[p] \in Scanning => run[p] \in 1 .. Len(runs)
       /\ pc[p] \in Inserting => run[p] = Len(runs) + 1
       /\ pc[p] \notin Scanning \cup Inserting => run[p] = 0
  /\ \A p, q \in Proc : run[p] = run[q] /\ run[p] # 0 => p = q

Covers(have, want) == \A r \in Ref : have[r] = "full" \/ want[r] = "none" \/ have[r] = want[r]

\* A draft that differs from the base in its run only, which has gained detail.
Ahead(d, base, i) ==
  /\ Len(d) = Len(base)
  /\ \A n \in 1 .. Len(base) : n # i => d[n] = base[n]
  /\ d[i].status = base[i].status
  /\ d[i].scoped = base[i].scoped
  /\ Covers(d[i].rows, base[i].rows)

\* What will be committed.
DraftInv ==
  \A p \in Proc :
    /\ pc[p] = "scopeRow" => draft = Append(runs, NewRun)
    /\ pc[p] = "commitRun" => draft = Append(runs, [NewRun EXCEPT !.scoped = TRUE])
    /\ pc[p] = "chunk" => Ahead(draft, runs, run[p])

\* The runs that are there.
RunsInv ==
  /\ \A n \in 1 .. Len(runs) : runs[n].scoped
  /\ \A p \in Proc : pc[p] \in Scanning => runs[run[p]].status = "running"

DbInv == DbTypeOK /\ SchemaInv /\ LockInv /\ OwnInv /\ DraftInv /\ RunsInv

-----------------------------------------------------------------------------

\* One element of a sequence is replaced.
LEMMA ReplaceOne ==
  ASSUME NEW S, NEW s \in Seq(S), NEW i \in 1 .. Len(s), NEW v \in S
  PROVE  /\ [s EXCEPT ![i] = v] \in Seq(S)
         /\ Len([s EXCEPT ![i] = v]) = Len(s)
         /\ [s EXCEPT ![i] = v][i] = v
         /\ \A n \in 1 .. Len(s) : n # i => [s EXCEPT ![i] = v][n] = s[n]
OBVIOUS

LEMMA NewRunType == NewRun \in RunRow /\ [NewRun EXCEPT !.scoped = TRUE] \in RunRow
BY DEF NewRun, RunRow, Level

\* A row that gains detail.
LEMMA GainsType ==
  ASSUME NEW table \in [Ref -> Level], NEW r \in Ref
  PROVE  Gains(table, r) \in [Ref -> Level] /\ Covers(Gains(table, r), table)
BY DEF Gains, Level, Covers

\* A run whose row gains detail.
LEMMA GainingRun ==
  ASSUME NEW d \in RunRow, NEW r \in Ref
  PROVE  /\ [d EXCEPT !.rows = Gains(@, r)] \in RunRow
         /\ [d EXCEPT !.rows = Gains(@, r)].status = d.status
         /\ [d EXCEPT !.rows = Gains(@, r)].scoped = d.scoped
         /\ Covers([d EXCEPT !.rows = Gains(@, r)].rows, d.rows)
<1>1. d.rows \in [Ref -> Level]
  BY DEF RunRow
<1>2. Gains(d.rows, r) \in [Ref -> Level] /\ Covers(Gains(d.rows, r), d.rows)
  BY <1>1, GainsType
<1> QED
  BY <1>2 DEF RunRow

LEMMA RowGains ==
  ASSUME NEW s \in Seq(RunRow), NEW i \in 1 .. Len(s), NEW r \in Ref,
         NEW t, t = [s EXCEPT ![i].rows = Gains(@, r)]
  PROVE  /\ t \in Seq(RunRow) /\ Len(t) = Len(s)
         /\ \A n \in 1 .. Len(s) : n # i => t[n] = s[n]
         /\ t[i].status = s[i].status /\ t[i].scoped = s[i].scoped
         /\ Covers(t[i].rows, s[i].rows)
<1> DEFINE e == [s[i] EXCEPT !.rows = Gains(@, r)]
<1>1. t = [s EXCEPT ![i] = e]
  OBVIOUS
<1>2. s[i] \in RunRow
  OBVIOUS
<1>3. /\ e \in RunRow /\ e.status = s[i].status /\ e.scoped = s[i].scoped
      /\ Covers(e.rows, s[i].rows)
  BY <1>2, GainingRun
<1> HIDE DEF e
<1>4. /\ [s EXCEPT ![i] = e] \in Seq(RunRow) /\ Len([s EXCEPT ![i] = e]) = Len(s)
      /\ [s EXCEPT ![i] = e][i] = e
      /\ \A n \in 1 .. Len(s) : n # i => [s EXCEPT ![i] = e][n] = s[n]
  BY <1>3, ReplaceOne
<1> QED
  BY <1>1, <1>3, <1>4

\* The run that was added gets its scope.
LEMMA ScopeAdded ==
  ASSUME NEW s \in Seq(RunRow), NEW t,
         t = [Append(s, NewRun) EXCEPT ![Len(s) + 1].scoped = TRUE]
  PROVE  t = Append(s, [NewRun EXCEPT !.scoped = TRUE])
<1> DEFINE a == Append(s, NewRun)
<1> DEFINE e == [NewRun EXCEPT !.scoped = TRUE]
<1>1. a \in Seq(RunRow) /\ Len(a) = Len(s) + 1 /\ a[Len(s) + 1] = NewRun /\ e \in RunRow
  BY NewRunType
<1>2. \A n \in 1 .. Len(s) : a[n] = s[n]
  OBVIOUS
<1>3. t = [a EXCEPT ![Len(s) + 1] = e]
  BY <1>1
<1> HIDE DEF a, e
<1>4. /\ t \in Seq(RunRow) /\ Len(t) = Len(s) + 1 /\ t[Len(s) + 1] = e
      /\ \A n \in 1 .. Len(s) : t[n] = s[n]
  <2>1. Len(s) + 1 \in 1 .. Len(a) /\ Len(s) \in Nat
    BY <1>1
  <2>2. /\ [a EXCEPT ![Len(s) + 1] = e] \in Seq(RunRow)
        /\ Len([a EXCEPT ![Len(s) + 1] = e]) = Len(a)
        /\ [a EXCEPT ![Len(s) + 1] = e][Len(s) + 1] = e
        /\ \A n \in 1 .. Len(a) : n # Len(s) + 1 => [a EXCEPT ![Len(s) + 1] = e][n] = a[n]
    BY <1>1, <2>1, ReplaceOne
  <2>3. t \in Seq(RunRow) /\ Len(t) = Len(s) + 1 /\ t[Len(s) + 1] = e
    BY <1>1, <1>3, <2>2
  <2>4. \A n \in 1 .. Len(s) : n \in 1 .. Len(a) /\ n # Len(s) + 1
    BY <1>1, <2>1
  <2>5. \A n \in 1 .. Len(s) : t[n] = s[n]
    BY <1>2, <1>3, <2>2, <2>4
  <2> QED
    BY <2>3, <2>5
<1>5. /\ Append(s, e) \in Seq(RunRow) /\ Len(Append(s, e)) = Len(s) + 1
      /\ Append(s, e)[Len(s) + 1] = e /\ \A n \in 1 .. Len(s) : Append(s, e)[n] = s[n]
  BY <1>1
<1>6. t = Append(s, e)
  <2> DEFINE u == Append(s, e)
  <2>1. \A n \in 1 .. Len(t) : t[n] = u[n]
    <3>1. \A n \in 1 .. Len(t) : n \in 1 .. Len(s) \/ n = Len(s) + 1
      BY <1>4
    <3> QED
      BY <1>4, <1>5, <3>1
  <2>2. t \in Seq(RunRow) /\ u \in Seq(RunRow) /\ Len(t) = Len(u)
    BY <1>4, <1>5
  <2> HIDE DEF u
  <2>3. t = u
    BY <2>1, <2>2, SeqEqual
  <2> QED
    BY <2>3 DEF u
<1> QED
  BY <1>6 DEF e

LEMMA CoversTrans ==
  ASSUME NEW a \in [Ref -> Level], NEW b \in [Ref -> Level], NEW c \in [Ref -> Level],
         Covers(a, b), Covers(b, c)
  PROVE  Covers(a, c)
BY DEF Covers, Level

LEMMA StaysAhead ==
  ASSUME NEW base \in Seq(RunRow), NEW i \in 1 .. Len(base), NEW d \in Seq(RunRow),
         Ahead(d, base, i), NEW r \in Ref,
         NEW t, t = [d EXCEPT ![i].rows = Gains(@, r)]
  PROVE  t \in Seq(RunRow) /\ Ahead(t, base, i)
<1>1. i \in 1 .. Len(d) /\ Len(d) = Len(base)
  BY DEF Ahead
<1>2. /\ t \in Seq(RunRow) /\ Len(t) = Len(d)
      /\ \A n \in 1 .. Len(d) : n # i => t[n] = d[n]
      /\ t[i].status = d[i].status /\ t[i].scoped = d[i].scoped
      /\ Covers(t[i].rows, d[i].rows)
  <2> HIDE DEF Ahead
  <2>1. t \in Seq(RunRow)
    BY <1>1, RowGains
  <2>2. Len(t) = Len(d)
    BY <1>1, RowGains
  <2>3. \A n \in 1 .. Len(d) : n # i => t[n] = d[n]
    BY <1>1, RowGains
  <2>4. t[i].status = d[i].status /\ t[i].scoped = d[i].scoped
    BY <1>1, RowGains
  <2>5. Covers(t[i].rows, d[i].rows)
    BY <1>1, RowGains
  <2> QED
    BY <2>1, <2>2, <2>3, <2>4, <2>5
<1>3. t[i] \in RunRow /\ d[i] \in RunRow /\ base[i] \in RunRow
  BY <1>1, <1>2
<1>4. Covers(t[i].rows, base[i].rows)
  <2>1. /\ t[i].rows \in [Ref -> Level] /\ d[i].rows \in [Ref -> Level]
        /\ base[i].rows \in [Ref -> Level]
    BY <1>3 DEF RunRow
  <2> QED
    BY <1>2, <2>1, CoversTrans DEF Ahead
<1> QED
  BY <1>1, <1>2, <1>4 DEF Ahead

LEMMA ScriptDomain == Len(Script) \in Nat /\ DOMAIN Script = 1 .. Len(Script)
BY DatabaseAssumption

LEMMA DbInitInv == DbInit => DbInv
BY DatabaseAssumption
   DEF DbInit, DbInv, DbTypeOK, SchemaInv, LockInv, LockIsBrief, OwnInv, DraftInv, RunsInv,
       Opened, InTx, Scanning, Inserting

-----------------------------------------------------------------------------

LEMMA SchemaStep ==
  ASSUME DbTypeOK, SchemaInv, [DbNext]_dbvars
  PROVE  SchemaInv'
<1>1. CASE UNCHANGED dbvars
  BY <1>1 DEF SchemaInv, dbvars
<1> SUFFICES ASSUME NEW p \in Proc, Start(p) \/ Statement(p) \/ Crash(p) PROVE SchemaInv'
  BY <1>1 DEF DbNext
<1> USE DEF SchemaInv, Goto, Autocommit, Opened, InTx, Opening, DbTypeOK
<1>2. CASE CreateTable(p)
  BY <1>2, DatabaseAssumption DEF CreateTable, Tables
<1>3. CASE VersionRow(p)
  <2>1. \A n \in 1 .. Len(Script) : Script[n] \in schema
    BY <1>3, ScriptDomain DEF VersionRow
  <2>2. schema = Tables
    BY <2>1, ScriptDomain DEF Tables
  <2> QED
    BY <2>2, <1>3 DEF VersionRow
<1>4. CASE Record(p)
  BY <1>4 DEF Record
<1>5. CASE currentSchemaVersion(p)
  BY <1>5 DEF currentSchemaVersion
<1>6. CASE InsertRun(p) \/ InsertScope(p) \/ CommitRun(p) \/ OpenRunFails(p)
  BY <1>6 DEF InsertRun, InsertScope, CommitRun, Commit, OpenRunFails
<1>7. CASE InsertFirst(p) \/ InsertRow(p) \/ CommitChunk(p) \/ ChunkFails(p)
  BY <1>7 DEF InsertFirst, InsertRow, CommitChunk, Commit, ChunkFails
<1>8. CASE FinishRun(p) \/ StreamFails(p) \/ GiveUp(p)
  BY <1>8 DEF FinishRun, Finish, StreamFails, GiveUp
<1>9. CASE Start(p) \/ Pragma(p)
  BY <1>9 DEF Start, Pragma
<1>10. CASE Exit(p) \/ Crash(p)
  <2>1. UNCHANGED <<schema, version>> /\ at' = [at EXCEPT ![p] = 1] /\ pc' = [pc EXCEPT ![p] = "off"]
    BY <1>10 DEF Exit, Crash, End
  <2> QED
    BY <2>1, ScriptDomain
<1> QED
  BY <1>2, <1>3, <1>4, <1>5, <1>6, <1>7, <1>8, <1>9, <1>10 DEF Statement

LEMMA LockStep ==
  ASSUME DbTypeOK, LockInv, [DbNext]_dbvars
  PROVE  LockInv'
<1>1. CASE UNCHANGED dbvars
  BY <1>1 DEF LockInv, LockIsBrief, dbvars
<1> SUFFICES ASSUME NEW p \in Proc, Start(p) \/ Statement(p) \/ Crash(p) PROVE LockInv'
  BY <1>1 DEF DbNext
<1> USE DatabaseAssumption DEF LockInv, LockIsBrief, Goto, Autocommit, InTx, Opening, DbTypeOK
<1>2. CASE CreateTable(p) \/ VersionRow(p) \/ Record(p) \/ currentSchemaVersion(p)
  BY <1>2 DEF CreateTable, VersionRow, Record, currentSchemaVersion
<1>3. CASE InsertRun(p) \/ InsertScope(p) \/ CommitRun(p) \/ OpenRunFails(p)
  BY <1>3 DEF InsertRun, InsertScope, CommitRun, Commit, OpenRunFails, Rollback
<1>4. CASE InsertFirst(p) \/ InsertRow(p) \/ CommitChunk(p) \/ ChunkFails(p)
  BY <1>4 DEF InsertFirst, InsertRow, CommitChunk, Commit, ChunkFails, Rollback
<1>5. CASE FinishRun(p) \/ StreamFails(p) \/ GiveUp(p)
  BY <1>5 DEF FinishRun, Finish, StreamFails, GiveUp
<1>6. CASE Start(p) \/ Pragma(p)
  BY <1>6 DEF Start, Pragma
<1>7. CASE Exit(p) \/ Crash(p)
  BY <1>7 DEF Exit, Crash, End
<1> QED
  BY <1>2, <1>3, <1>4, <1>5, <1>6, <1>7 DEF Statement

-----------------------------------------------------------------------------
(* What each group of steps does to the runs that are there.               *)

\* A step of p that commits nothing leaves them, and the draft but for p's.
LEMMA DraftLen ==
  ASSUME DbTypeOK, OwnInv, DraftInv, NEW p \in Proc, pc[p] \in InTx
  PROVE  /\ pc[p] \in Inserting => /\ run[p] = Len(runs) + 1
                                   /\ Len(draft) = Len(runs) + 1
                                   /\ \A n \in 1 .. Len(runs) : draft[n] = runs[n]
                                   /\ draft[run[p]] \in {NewRun, [NewRun EXCEPT !.scoped = TRUE]}
         /\ pc[p] = "chunk" => run[p] \in 1 .. Len(runs) /\ Len(draft) = Len(runs)
<1>1. CASE pc[p] = "scopeRow"
  BY <1>1, NewRunType DEF DbTypeOK, OwnInv, DraftInv, Inserting, Scanning
<1>2. CASE pc[p] = "commitRun"
  BY <1>2, NewRunType DEF DbTypeOK, OwnInv, DraftInv, Inserting, Scanning
<1>3. CASE pc[p] = "chunk"
  BY <1>3 DEF DbTypeOK, OwnInv, DraftInv, Ahead, Inserting, Scanning
<1> QED
  BY <1>1, <1>2, <1>3 DEF InTx

LEMMA OwnStep ==
  ASSUME DbTypeOK, LockInv, OwnInv, DraftInv, [DbNext]_dbvars
  PROVE  OwnInv'
<1>1. CASE UNCHANGED dbvars
  BY <1>1 DEF OwnInv, dbvars
<1> SUFFICES ASSUME NEW p \in Proc, Start(p) \/ Statement(p) \/ Crash(p) PROVE OwnInv'
  BY <1>1 DEF DbNext
<1> USE DatabaseAssumption
<1>2. CASE CreateTable(p) \/ VersionRow(p) \/ Record(p) \/ currentSchemaVersion(p)
  BY <1>2 DEF CreateTable, VersionRow, Record, currentSchemaVersion, OwnInv, Goto, Autocommit,
              DbTypeOK, Scanning, Inserting
<1>3. CASE InsertRun(p)
  <2>1. \A q \in Proc : pc[q] \notin InTx
    BY <1>3 DEF InsertRun, LockInv
  <2>2. Len(runs) \in Nat /\ \A q \in Proc : run[q] \in 0 .. Len(runs)
    BY <2>1 DEF OwnInv, DbTypeOK, Scanning, Inserting, InTx
  <2>3. /\ run' = [run EXCEPT ![p] = Len(runs) + 1] /\ pc' = [pc EXCEPT ![p] = "scopeRow"]
        /\ runs' = runs
    BY <1>3 DEF InsertRun, Goto
  <2> QED
    BY <2>1, <2>2, <2>3 DEF OwnInv, DbTypeOK, Scanning, Inserting, InTx
<1>4. CASE InsertScope(p)
  BY <1>4 DEF InsertScope, OwnInv, Goto, DbTypeOK, Scanning, Inserting
<1>5. CASE CommitRun(p)
  <2>1. pc[p] = "commitRun" /\ lock = p
    BY <1>5 DEF CommitRun, LockInv, InTx
  <2>2. Len(runs') = Len(runs) + 1 /\ run[p] = Len(runs) + 1
    BY <1>5, <2>1, DraftLen DEF CommitRun, Commit, InTx, Inserting
  <2>3. \A q \in Proc \ {p} : pc[q] \notin InTx
    BY <2>1 DEF LockInv
  <2> QED
    BY <1>5, <2>1, <2>2, <2>3
       DEF CommitRun, Commit, OwnInv, Goto, DbTypeOK, Scanning, Inserting, InTx
<1>6. CASE CommitChunk(p)
  <2>1. pc[p] = "chunk" /\ lock = p
    BY <1>6 DEF CommitChunk, LockInv, InTx
  <2>2. Len(runs') = Len(runs)
    BY <1>6, <2>1, DraftLen DEF CommitChunk, Commit, InTx
  <2> QED
    BY <1>6, <2>1, <2>2 DEF CommitChunk, Commit, OwnInv, Goto, DbTypeOK, Scanning, Inserting
<1>7. CASE FinishRun(p)
  <2>1. run[p] \in 1 .. Len(runs)
    BY <1>7 DEF FinishRun, Finish, Autocommit, OwnInv, Scanning
  <2>2. Len(runs') = Len(runs)
    BY <1>7, <2>1 DEF FinishRun, Finish, SetStatus, DbTypeOK
  <2> QED
    BY <1>7, <2>2 DEF FinishRun, Finish, Autocommit, OwnInv, Goto, DbTypeOK, Scanning, Inserting
<1>8. CASE InsertFirst(p) \/ InsertRow(p) \/ ChunkFails(p) \/ StreamFails(p)
  BY <1>8 DEF InsertFirst, InsertRow, ChunkFails, StreamFails, OwnInv, Goto, DbTypeOK,
              Scanning, Inserting
<1>9. CASE OpenRunFails(p) \/ GiveUp(p) \/ Start(p) \/ Pragma(p)
  <2>1. CASE OpenRunFails(p)
    BY <2>1 DEF OpenRunFails, OwnInv, Goto, DbTypeOK, Scanning, Inserting
  <2>2. CASE GiveUp(p)
    BY <2>2 DEF GiveUp, OwnInv, Goto, DbTypeOK, Scanning, Inserting
  <2>3. CASE Start(p)
    BY <2>3 DEF Start, OwnInv, Goto, DbTypeOK, Scanning, Inserting
  <2>4. CASE Pragma(p)
    BY <2>4 DEF Pragma, OwnInv, Goto, DbTypeOK, Scanning, Inserting
  <2> QED
    BY <1>9, <2>1, <2>2, <2>3, <2>4
<1>10. CASE Exit(p) \/ Crash(p)
  BY <1>10 DEF Exit, Crash, End, OwnInv, Goto, DbTypeOK, Scanning, Inserting
<1> QED
  BY <1>2, <1>3, <1>4, <1>5, <1>6, <1>7, <1>8, <1>9, <1>10 DEF Statement

-----------------------------------------------------------------------------
(* What a step does to the runs there are, and who does it.                *)

\* A run that is there changes by the step of its process only, and then grows
\* or gets its status; a run that is added has its scope.
RunsGrow ==
  /\ runs' \in Seq(RunRow)
  /\ Len(runs) <= Len(runs') /\ Len(runs') <= Len(runs) + 1
  /\ \A n \in 1 .. Len(runs) :
       \/ runs'[n] = runs[n]
       \/ /\ runs'[n].scoped = runs[n].scoped
          /\ runs[n].status = "running"
          /\ \/ runs'[n].status = "running" /\ Covers(runs'[n].rows, runs[n].rows)
             \/ runs'[n].status \in {"ok", "failed"} /\ runs'[n].rows = runs[n].rows
          /\ \E p \in Proc : run[p] = n /\ (runs'[n].status # "running" => run'[p] = 0)
  /\ \A n \in Len(runs) + 1 .. Len(runs') : runs'[n] = [NewRun EXCEPT !.scoped = TRUE]

LEMMA RunsStep ==
  ASSUME DbTypeOK, OwnInv, LockInv, DraftInv, RunsInv, [DbNext]_dbvars
  PROVE  RunsGrow
<1> USE DatabaseAssumption
<1>1. CASE UNCHANGED runs
  BY <1>1 DEF RunsGrow, DbTypeOK
<1>2. ASSUME NEW p \in Proc, CommitRun(p)
      PROVE  RunsGrow
  <2>1. pc[p] = "commitRun" /\ runs' = draft
    BY <1>2 DEF CommitRun, Commit
  <2>2. draft = Append(runs, [NewRun EXCEPT !.scoped = TRUE])
    BY <2>1 DEF DraftInv
  <2> QED
    BY <2>1, <2>2, NewRunType DEF RunsGrow, DbTypeOK
<1>3. ASSUME NEW p \in Proc, CommitChunk(p)
      PROVE  RunsGrow
  <2>1. pc[p] = "chunk" /\ runs' = draft /\ pc[p] \in Scanning
    BY <1>3 DEF CommitChunk, Commit, Scanning
  <2>2. run[p] \in 1 .. Len(runs) /\ runs[run[p]].status = "running"
    BY <2>1 DEF OwnInv, RunsInv
  <2>3. \A n \in 1 .. Len(runs) :
          \/ runs'[n] = runs[n]
          \/ /\ n = run[p]
             /\ runs'[n].scoped = runs[n].scoped
             /\ runs'[n].status = "running" /\ Covers(runs'[n].rows, runs[n].rows)
    BY <2>1, <2>2 DEF DraftInv, Ahead
  <2>4. runs' \in Seq(RunRow) /\ Len(runs') = Len(runs) /\ Len(runs) \in Nat
    BY <2>1 DEF DraftInv, DbTypeOK, Ahead
  <2> QED
    BY <2>2, <2>3, <2>4 DEF RunsGrow
<1>4. ASSUME NEW p \in Proc, FinishRun(p)
      PROVE  RunsGrow
  <2>1. PICK status \in {"ok", "failed"} : SetStatus(p, status) /\ run' = [run EXCEPT ![p] = 0]
    BY <1>4 DEF FinishRun, Finish
  <2>2. pc[p] \in Scanning
    BY <1>4 DEF FinishRun, Finish, Autocommit, Scanning
  <2>3. run[p] \in 1 .. Len(runs) /\ runs[run[p]].status = "running"
    BY <2>2 DEF OwnInv, RunsInv
  <2>4. runs[run[p]] \in RunRow
    BY <2>3 DEF DbTypeOK
  <2> DEFINE d == [runs[run[p]] EXCEPT !.status = status]
  <2>5. /\ d \in RunRow /\ d.scoped = runs[run[p]].scoped /\ d.rows = runs[run[p]].rows
        /\ d.status = status
    BY <2>4 DEF RunRow
  <2>6. runs' = [runs EXCEPT ![run[p]] = d]
    BY <2>1 DEF SetStatus
  <2> HIDE DEF d
  <2>7. /\ runs' \in Seq(RunRow) /\ Len(runs') = Len(runs)
        /\ runs'[run[p]] = d
        /\ \A n \in 1 .. Len(runs) : n # run[p] => runs'[n] = runs[n]
    BY <2>3, <2>5, <2>6, ReplaceOne DEF DbTypeOK
  <2>8. run'[p] = 0 /\ Len(runs) \in Nat
    BY <2>1 DEF DbTypeOK
  <2> QED
    BY <2>1, <2>3, <2>5, <2>7, <2>8 DEF RunsGrow
<1> QED
  BY <1>1, <1>2, <1>3, <1>4
     DEF DbNext, Statement, Start, Pragma, currentSchemaVersion, CreateTable, VersionRow, Record,
         InsertRun, InsertScope, OpenRunFails, InsertFirst, InsertRow, ChunkFails, StreamFails,
         GiveUp, Exit, Crash, End, dbvars

\* The draft keeps the type of the runs.
LEMMA DraftType ==
  ASSUME DbTypeOK, OwnInv, DraftInv, NEW p \in Proc, Start(p) \/ Statement(p) \/ Crash(p)
  PROVE  draft' \in Seq(RunRow)
<1>1. CASE UNCHANGED draft
  BY <1>1 DEF DbTypeOK
<1>2. CASE draft' = <<>>
  BY <1>2
<1>3. CASE InsertRun(p)
  BY <1>3, NewRunType DEF InsertRun, DbTypeOK
<1>4. CASE InsertScope(p)
  <2>1. draft = Append(runs, NewRun) /\ run[p] = Len(runs) + 1
    BY <1>4 DEF InsertScope, DraftInv, OwnInv, Inserting, Scanning
  <2>2. draft' = Append(runs, [NewRun EXCEPT !.scoped = TRUE])
    BY <1>4, <2>1, ScopeAdded DEF InsertScope, DbTypeOK
  <2> QED
    BY <2>2, NewRunType DEF DbTypeOK
<1>5. CASE InsertFirst(p)
  <2>1. run[p] \in 1 .. Len(runs) /\ runs \in Seq(RunRow)
    BY <1>5 DEF InsertFirst, OwnInv, Scanning, DbTypeOK
  <2>2. PICK r \in Ref : draft' = [runs EXCEPT ![run[p]].rows = Gains(@, r)]
    BY <1>5 DEF InsertFirst
  <2> QED
    BY <2>1, <2>2, RowGains
<1>6. CASE InsertRow(p)
  <2>1. run[p] \in 1 .. Len(draft) /\ draft \in Seq(RunRow)
    BY <1>6 DEF InsertRow, OwnInv, DraftInv, Scanning, DbTypeOK
  <2>2. PICK r \in Ref : draft' = [draft EXCEPT ![run[p]].rows = Gains(@, r)]
    BY <1>6 DEF InsertRow
  <2> QED
    BY <2>1, <2>2, RowGains
<1>7. CASE Exit(p) \/ Crash(p)
  BY <1>1, <1>2, <1>7 DEF Exit, Crash, End
<1>8. CASE CommitRun(p) \/ CommitChunk(p) \/ OpenRunFails(p) \/ ChunkFails(p)
  BY <1>2, <1>8 DEF CommitRun, CommitChunk, Commit, OpenRunFails, ChunkFails, Rollback
<1>9. CASE \/ Start(p) \/ Pragma(p) \/ currentSchemaVersion(p) \/ CreateTable(p)
           \/ VersionRow(p) \/ Record(p) \/ FinishRun(p) \/ StreamFails(p) \/ GiveUp(p)
  BY <1>1, <1>9 DEF Start, Pragma, currentSchemaVersion, CreateTable, VersionRow, Record,
         Autocommit, FinishRun, Finish, StreamFails, GiveUp
<1> QED
  BY <1>3, <1>4, <1>5, <1>6, <1>7, <1>8, <1>9 DEF Statement

LEMMA TypeStep ==
  ASSUME DbInv, [DbNext]_dbvars
  PROVE  DbTypeOK'
<1>1. CASE UNCHANGED dbvars
  BY <1>1 DEF DbInv, DbTypeOK, dbvars
<1>2. runs' \in Seq(RunRow)
  BY RunsStep DEF DbInv, RunsGrow
<1> SUFFICES ASSUME NEW p \in Proc, Start(p) \/ Statement(p) \/ Crash(p) PROVE DbTypeOK'
  BY <1>1 DEF DbNext
<1> DbTypeOK
  BY DEF DbInv
<1>3. draft' \in Seq(RunRow)
  BY DraftType DEF DbInv
<1>4. pc' \in [Proc -> {"off"} \cup Opening \cup Opened]
  BY DEF DbTypeOK, Goto, Opening, Opened, InTx, Statement, Start, Pragma, currentSchemaVersion,
         CreateTable, VersionRow, Record, Autocommit, InsertRun, InsertScope, InsertFirst,
         InsertRow, CommitRun, CommitChunk, Commit, OpenRunFails, ChunkFails, FinishRun, Finish,
         StreamFails, GiveUp, Exit, Crash, End
<1>5. at' \in [Proc -> Nat] /\ run' \in [Proc -> Nat] /\ todo' \in [Proc -> Nat] /\ starts' \in Nat
  <2>1. Len(runs) + 1 \in Nat /\ at[p] + 1 \in Nat /\ starts + 1 \in Nat /\ 0 \in Nat /\ 1 \in Nat
    BY DEF DbTypeOK
  <2>2. at \in [Proc -> Nat] /\ run \in [Proc -> Nat] /\ todo \in [Proc -> Nat] /\ starts \in Nat
    BY DEF DbTypeOK
  <2>3. CASE Start(p)
    BY <2>1, <2>2, <2>3, DatabaseAssumption DEF Start
  <2>4. CASE CreateTable(p)
    BY <2>1, <2>2, <2>4 DEF CreateTable
  <2>5. CASE VersionRow(p)
    BY <2>1, <2>2, <2>5 DEF VersionRow, Autocommit
  <2>6. CASE InsertRun(p)
    BY <2>1, <2>2, <2>6 DEF InsertRun
  <2>7. CASE OpenRunFails(p) \/ FinishRun(p) \/ GiveUp(p)
    BY <2>1, <2>2, <2>7 DEF OpenRunFails, FinishRun, Finish, Autocommit, GiveUp
  <2>8. CASE Exit(p) \/ Crash(p)
    BY <2>1, <2>2, <2>8 DEF Exit, Crash, End
  <2>9. CASE \/ Pragma(p) \/ currentSchemaVersion(p) \/ Record(p) \/ InsertScope(p)
             \/ CommitRun(p) \/ InsertFirst(p) \/ InsertRow(p) \/ CommitChunk(p)
             \/ ChunkFails(p) \/ StreamFails(p)
    BY <2>2, <2>9 DEF Pragma, currentSchemaVersion, Record, Autocommit, InsertScope, CommitRun,
           InsertFirst, InsertRow, CommitChunk, Commit, ChunkFails, StreamFails
  <2> QED
    BY <2>3, <2>4, <2>5, <2>6, <2>7, <2>8, <2>9 DEF Statement
<1>6. lock' \in Proc \cup {NoProc} /\ version' \in {0, 1}
  BY DEF DbTypeOK, Statement, Start, Pragma, currentSchemaVersion,
         CreateTable, VersionRow, Record, Autocommit, InsertRun, InsertScope, InsertFirst,
         InsertRow, CommitRun, CommitChunk, Commit, OpenRunFails, ChunkFails, Rollback,
         FinishRun, Finish, StreamFails, GiveUp, Exit, Crash, End
<1>7. schema' \subseteq Tables
  BY DEF DbTypeOK, Tables, Statement, Start, Pragma, currentSchemaVersion,
         CreateTable, VersionRow, Record, Autocommit, InsertRun, InsertScope, InsertFirst,
         InsertRow, CommitRun, CommitChunk, Commit, OpenRunFails, ChunkFails, FinishRun, Finish,
         StreamFails, GiveUp, Exit, Crash, End
<1> QED
  BY <1>2, <1>3, <1>4, <1>5, <1>6, <1>7 DEF DbTypeOK

\* The draft belongs to who has the lock.
LEMMA DraftStep ==
  ASSUME DbInv, [DbNext]_dbvars
  PROVE  DraftInv'
<1> DbTypeOK /\ LockInv /\ OwnInv /\ DraftInv
  BY DEF DbInv
<1> USE DatabaseAssumption
<1>1. CASE UNCHANGED dbvars
  BY <1>1 DEF DraftInv, dbvars
<1> SUFFICES ASSUME NEW p \in Proc, Start(p) \/ Statement(p) \/ Crash(p) PROVE DraftInv'
  BY <1>1 DEF DbNext
<1>2. LockInv'
  BY LockStep
<1>3. CASE lock' = NoProc
  <2>1. \A q \in Proc : pc'[q] \notin InTx
    BY <1>2, <1>3 DEF LockInv
  <2> QED
    BY <2>1 DEF DraftInv, InTx
<1>4. CASE InsertRun(p)
  <2>1. \A q \in Proc \ {p} : pc'[q] \notin InTx
    BY <1>2, <1>4 DEF LockInv, InsertRun
  <2>2. pc'[p] = "scopeRow" /\ draft' = Append(runs', NewRun)
    BY <1>4 DEF InsertRun, Goto, DbTypeOK
  <2> QED
    BY <2>1, <2>2 DEF DraftInv, InTx
<1>5. CASE InsertScope(p)
  <2>1. pc[p] = "scopeRow" /\ draft = Append(runs, NewRun) /\ run[p] = Len(runs) + 1 /\ lock = p
    BY <1>5 DEF InsertScope, DraftInv, OwnInv, Inserting, Scanning, LockInv, InTx
  <2>2. draft' = Append(runs, [NewRun EXCEPT !.scoped = TRUE]) /\ runs' = runs
    BY <1>5, <2>1, ScopeAdded DEF InsertScope, DbTypeOK
  <2>3. pc'[p] = "commitRun" /\ \A q \in Proc \ {p} : pc'[q] \notin InTx
    BY <1>2, <1>5, <2>1 DEF InsertScope, Goto, DbTypeOK, LockInv
  <2> QED
    BY <2>2, <2>3 DEF DraftInv, InTx
<1>6. CASE InsertFirst(p) \/ InsertRow(p)
  <2>1. /\ pc'[p] = "chunk" /\ lock' = p /\ run' = run /\ runs' = runs
        /\ run[p] \in 1 .. Len(runs)
    BY <1>6 DEF InsertFirst, InsertRow, Goto, DbTypeOK, LockInv, InTx, OwnInv, Scanning
  <2>2. \A q \in Proc \ {p} : pc'[q] \notin InTx
    BY <1>2, <2>1 DEF LockInv
  <2>3. runs \in Seq(RunRow) /\ draft \in Seq(RunRow)
    BY DEF DbTypeOK
  <2>4. CASE InsertFirst(p)
    <3>1. Ahead(runs, runs, run[p])
      BY DEF Ahead, Covers
    <3>2. PICK r \in Ref : draft' = [runs EXCEPT ![run[p]].rows = Gains(@, r)]
      BY <2>4 DEF InsertFirst
    <3> QED
      <4>1. Ahead(draft', runs, run[p])
        BY <2>1, <2>3, <3>1, <3>2, StaysAhead
      <4> QED
        BY <2>1, <2>2, <4>1 DEF DraftInv, InTx
  <2>5. CASE InsertRow(p)
    <3>1. Ahead(draft, runs, run[p])
      BY <2>5 DEF InsertRow, DraftInv
    <3>2. PICK r \in Ref : draft' = [draft EXCEPT ![run[p]].rows = Gains(@, r)]
      BY <2>5 DEF InsertRow
    <3> QED
      <4>1. Ahead(draft', runs, run[p])
        BY <2>1, <2>3, <3>1, <3>2, StaysAhead
      <4> QED
        BY <2>1, <2>2, <4>1 DEF DraftInv, InTx
  <2> QED
    BY <1>6, <2>4, <2>5
<1>7. ASSUME UNCHANGED <<runs, draft>>, pc'[p] \notin InTx,
             \A q \in Proc \ {p} : pc'[q] = pc[q] /\ run'[q] = run[q]
      PROVE  DraftInv'
  BY <1>7 DEF DraftInv, InTx
<1>8. CASE \/ CreateTable(p) \/ currentSchemaVersion(p) \/ Pragma(p) \/ Start(p)
           \/ StreamFails(p) \/ GiveUp(p)
  BY <1>7, <1>8 DEF CreateTable, currentSchemaVersion, Pragma, Start, StreamFails, GiveUp, Goto,
              DbTypeOK, InTx
<1>9. CASE VersionRow(p) \/ Record(p) \/ FinishRun(p)
  BY <1>3, <1>9 DEF VersionRow, Record, FinishRun, Finish, Autocommit
<1>10. CASE CommitRun(p) \/ CommitChunk(p) \/ OpenRunFails(p) \/ ChunkFails(p)
  BY <1>3, <1>10 DEF CommitRun, CommitChunk, Commit, OpenRunFails, ChunkFails, Rollback
<1>11. CASE Exit(p) \/ Crash(p)
  <2>1. CASE lock = p
    BY <1>3, <1>11, <2>1 DEF Exit, Crash, End
  <2>2. CASE lock # p
    BY <1>7, <1>11, <2>2 DEF Exit, Crash, End, Goto, DbTypeOK, InTx
  <2> QED
    BY <2>1, <2>2
<1> QED
  BY <1>4, <1>5, <1>6, <1>8, <1>9, <1>10, <1>11 DEF Statement

\* Whoever is at a run that was there before was at it before.
LEMMA KeepsRun ==
  ASSUME DbTypeOK, OwnInv, [DbNext]_dbvars, NEW q \in Proc, pc'[q] \in Scanning,
         run'[q] \in 1 .. Len(runs)
  PROVE  pc[q] \in Scanning /\ run[q] = run'[q]
<1>1. CASE UNCHANGED dbvars
  BY <1>1 DEF dbvars
<1> SUFFICES ASSUME NEW p \in Proc, Start(p) \/ Statement(p) \/ Crash(p)
             PROVE  pc[q] \in Scanning /\ run[q] = run'[q]
  BY <1>1 DEF DbNext
<1> DEFINE T == {"off"} \cup Opening \cup Opened
<1>2. pc \in [Proc -> T] /\ run \in [Proc -> Nat] /\ Len(runs) \in Nat
  BY DEF DbTypeOK
<1> HIDE DEF T
<1>3. pc[q] \in Inserting => run[q] = Len(runs) + 1
  BY DEF OwnInv
<1>4. CASE CreateTable(p) \/ VersionRow(p) \/ Record(p) \/ currentSchemaVersion(p)
  BY <1>2, <1>4 DEF CreateTable, VersionRow, Record, currentSchemaVersion, Goto, Autocommit, Scanning
<1>5. CASE InsertRun(p) \/ InsertScope(p) \/ OpenRunFails(p)
  BY <1>2, <1>5 DEF InsertRun, InsertScope, OpenRunFails, Goto, Scanning
<1>6. CASE CommitRun(p)
  BY <1>2, <1>3, <1>6 DEF CommitRun, Commit, Goto, Scanning, Inserting
<1>7. CASE InsertFirst(p) \/ InsertRow(p) \/ CommitChunk(p) \/ ChunkFails(p)
  BY <1>2, <1>7 DEF InsertFirst, InsertRow, CommitChunk, Commit, ChunkFails, Goto, Scanning
<1>8. CASE FinishRun(p) \/ StreamFails(p) \/ GiveUp(p)
  BY <1>2, <1>8 DEF FinishRun, Finish, Autocommit, StreamFails, GiveUp, Goto, Scanning
<1>9. CASE Start(p) \/ Pragma(p) \/ Exit(p) \/ Crash(p)
  BY <1>2, <1>9 DEF Start, Pragma, Exit, Crash, End, Goto, Scanning
<1> QED
  BY <1>4, <1>5, <1>6, <1>7, <1>8, <1>9 DEF Statement

\* A run is running for as long as its process is at it.
LEMMA RunsInvStep ==
  ASSUME DbInv, [DbNext]_dbvars
  PROVE  RunsInv'
<1> DbTypeOK /\ LockInv /\ OwnInv /\ DraftInv /\ RunsInv
  BY DEF DbInv
<1>1. RunsGrow /\ OwnInv' /\ DbTypeOK'
  BY RunsStep, OwnStep, TypeStep
<1>2. \A n \in 1 .. Len(runs') : runs'[n].scoped
  <2> SUFFICES ASSUME NEW n \in 1 .. Len(runs') PROVE runs'[n].scoped
    OBVIOUS
  <2>1. CASE n \in 1 .. Len(runs)
    BY <1>1, <2>1 DEF RunsGrow, RunsInv
  <2>2. CASE n \in Len(runs) + 1 .. Len(runs')
    BY <1>1, <2>2 DEF RunsGrow, NewRun
  <2> QED
    BY <1>1, <2>1, <2>2 DEF DbTypeOK
<1>3. ASSUME NEW p \in Proc, pc'[p] \in Scanning
      PROVE  runs'[run'[p]].status = "running"
  <2> DEFINE n == run'[p]
  <2>1. n \in 1 .. Len(runs')
    BY <1>1, <1>3 DEF OwnInv
  <2>2. CASE n \in Len(runs) + 1 .. Len(runs')
    BY <1>1, <2>2 DEF RunsGrow, NewRun
  <2>3. CASE n \in 1 .. Len(runs)
    <3>1. pc[p] \in Scanning /\ run[p] = n
      BY <1>3, <2>3, KeepsRun
    <3>2. runs[n].status = "running"
      BY <3>1 DEF RunsInv
    <3>3. CASE runs'[n] = runs[n]
      BY <3>2, <3>3
    <3>4. CASE runs'[n] # runs[n]
      <4>1. \E q \in Proc : run[q] = n /\ (runs'[n].status # "running" => run'[q] = 0)
        BY <1>1, <2>3, <3>4 DEF RunsGrow
      <4>2. n # 0
        BY <2>3
      <4> QED
        BY <3>1, <4>1, <4>2 DEF OwnInv
    <3> QED
      BY <3>3, <3>4
  <2> QED
    BY <1>1, <2>1, <2>2, <2>3 DEF DbTypeOK
<1> QED
  BY <1>2, <1>3 DEF RunsInv

LEMMA DbInvStep ==
  ASSUME DbInv, [DbNext]_dbvars
  PROVE  DbInv'
BY TypeStep, SchemaStep, LockStep, OwnStep, DraftStep, RunsInvStep DEF DbInv

-----------------------------------------------------------------------------
(* The theorems, which hold under BundleSpec: its steps are Database's.    *)

LEMMA BundleStep ==
  ASSUME [BundleNext]_bundlevars
  PROVE  [DbNext]_dbvars
BY DEF BundleNext, bundlevars, Process, Checkpoint, runExportAll, collectBundleEntries, CopyDb,
       CopyWal, NoWal, DbNext

\* The processes are those of Database, whatever becomes of the files.
THEOREM BundleIsDatabase == BundleSpec => DbSpec
<1>1. BundleInit => DbInit
  BY DEF BundleInit
<1>2. [BundleNext]_bundlevars => [DbNext]_dbvars
  BY BundleStep
<1> QED
  BY <1>1, <1>2, PTL DEF BundleSpec, DbSpec

\* The inductive invariant (internal/store: migrate, OpenRun, writeChunk).
THEOREM DbInvariant == DbSpec => []DbInv
<1>1. DbInit => DbInv
  BY DbInitInv
<1>2. DbInv /\ [DbNext]_dbvars => DbInv'
  BY DbInvStep
<1> QED
  BY <1>1, <1>2, PTL DEF DbSpec

\* A recorded version stands for all of the tables of 0001_initial.sql, and
\* so does an Open that succeeded, whoever dies within migrate.
THEOREM SchemaWhole == BundleSpec => []SchemaIsWhole
<1>1. DbInv => SchemaIsWhole
  BY DEF DbInv, SchemaInv, SchemaIsWhole
<1> QED
  BY <1>1, BundleIsDatabase, DbInvariant, PTL

\* OpenRun shows a run with its scope or not at all, and a run has one writer.
THEOREM RunsWhole == BundleSpec => []RunsAreWhole
<1>1. ASSUME DbInv
      PROVE  RunsAreWhole
  <2>1. DOMAIN runs = 1 .. Len(runs)
    BY <1>1 DEF DbInv, DbTypeOK
  <2>2. \A n \in DOMAIN runs : runs[n].scoped
    BY <1>1, <2>1 DEF DbInv, RunsInv
  <2>3. \A p, q \in Proc : run[p] = run[q] /\ run[p] # 0 => p = q
    BY <1>1, Zenon DEF DbInv, OwnInv
  <2> QED
    BY <2>2, <2>3 DEF RunsAreWhole
<1> QED
  BY <1>1, BundleIsDatabase, DbInvariant, PTL

\* No failed transaction keeps the write lock.
THEOREM LockBrief == BundleSpec => []LockIsBrief
<1>1. DbInv => LockIsBrief
  BY DEF DbInv, LockInv
<1> QED
  BY <1>1, BundleIsDatabase, DbInvariant, PTL

\* Every step is one of the ledger of each run, or none.
LEMMA LedgerStep ==
  ASSUME DbInv, [DbNext]_dbvars, NEW n \in 1 .. MaxRuns
  PROVE  Ledger(n)!LNext \/ UNCHANGED <<StatusOf(n), RowsOf(n)>>
<1>1. RunsGrow /\ runs \in Seq(RunRow) /\ Len(runs) \in Nat
  BY RunsStep DEF DbInv, DbTypeOK
<1>2. DOMAIN runs = 1 .. Len(runs) /\ DOMAIN runs' = 1 .. Len(runs')
  BY <1>1 DEF RunsGrow
<1>3. n \in Nat /\ n >= 1
  BY DatabaseAssumption
<1>4. CASE n \in 1 .. Len(runs)
  <2>1. n \in 1 .. Len(runs')
    BY <1>1, <1>4 DEF RunsGrow
  <2>2. /\ StatusOf(n) = runs[n].status /\ StatusOf(n)' = runs'[n].status
        /\ RowsOf(n) = runs[n].rows /\ RowsOf(n)' = runs'[n].rows
    BY <1>2, <1>4, <2>1 DEF StatusOf, RowsOf
  <2>3. runs'[n] \in RunRow
    BY <1>1, <2>1 DEF RunsGrow
  <2>4. RowsOf(n)' \in [Ref -> {"none", "stub", "full"}]
    BY <2>2, <2>3 DEF RunRow, Level
  <2>5. CASE runs'[n] = runs[n]
    BY <2>2, <2>5
  <2>6. CASE runs[n].status = "running" /\ runs'[n].status = "running"
             /\ Covers(runs'[n].rows, runs[n].rows)
    BY <2>2, <2>4, <2>6 DEF Ledger!LNext, Ledger!Write, Ledger!AtLeast, Covers
  <2>7. CASE runs[n].status = "running" /\ runs'[n].status \in {"ok", "failed"}
             /\ runs'[n].rows = runs[n].rows
    BY <2>2, <2>7 DEF Ledger!LNext, Ledger!Finish
  <2> QED
    BY <1>1, <1>4, <2>5, <2>6, <2>7 DEF RunsGrow
<1>5. CASE n \in Len(runs) + 1 .. Len(runs')
  <2>1. StatusOf(n) = "none" /\ RowsOf(n) = NewRun.rows
    BY <1>1, <1>2, <1>5 DEF StatusOf, RowsOf
  <2>2. runs'[n] = [NewRun EXCEPT !.scoped = TRUE] /\ n \in DOMAIN runs'
    BY <1>1, <1>2, <1>3, <1>5 DEF RunsGrow
  <2>3. StatusOf(n)' = "running" /\ RowsOf(n)' = NewRun.rows
    BY <2>2 DEF StatusOf, RowsOf, NewRun
  <2> QED
    BY <2>1, <2>3 DEF Ledger!LNext, Ledger!Open
<1>6. CASE n \notin 1 .. Len(runs) /\ n \notin 1 .. Len(runs')
  BY <1>2, <1>6 DEF StatusOf, RowsOf, NewRun
<1> QED
  BY <1>1, <1>3, <1>4, <1>5, <1>6 DEF RunsGrow

\* Each run of the database is opened once, grows while it is running and is
\* sealed by its status (OpenRun, writeChunk, FinishRun), whoever dies.
THEOREM DatabaseLedgers == BundleSpec => ImplementsLedgers
<1>1. DbInit => \A n \in 1 .. MaxRuns : Ledger(n)!LInit
  BY DEF DbInit, Ledger!LInit, StatusOf, RowsOf, NewRun
<1>2. DbInv /\ [DbNext]_dbvars =>
        [\A n \in 1 .. MaxRuns :
           Ledger(n)!LNext \/ UNCHANGED <<StatusOf(n), RowsOf(n)>>]_dbvars
  BY LedgerStep
<1> QED
  BY <1>1, <1>2, BundleIsDatabase, DbInvariant, PTL DEF DbSpec, ImplementsLedgers

-----------------------------------------------------------------------------

\* While nobody is there, each copy has what the file had.
QuietInv ==
  /\ wal \in BOOLEAN /\ behind \in BOOLEAN /\ listed \in BOOLEAN /\ lacks \in BOOLEAN
  /\ covered \in BOOLEAN /\ quiet \in BOOLEAN
  /\ bpc \in {"idle", "list", "db", "wal", "saved", "failed"}
  /\ behind => wal
  /\ bpc \in {"list", "db"} /\ quiet => wal = listed
  /\ bpc = "db" => listed
  /\ bpc = "db" /\ quiet => covered
  /\ bpc = "wal" => ~listed
  /\ bpc \in {"wal", "saved"} /\ quiet => ~lacks
  /\ bpc = "failed" => ~quiet
  /\ quiet => \A p \in Proc : pc[p] = "off"

\* A bundle of a database nobody has open is made and has every commit
\* (runExportAll, addToZip).
THEOREM QuietBundle == BundleSpec => []QuietBundleIsWhole
<1>1. BundleInit => QuietInv
  BY DEF BundleInit, DbInit, QuietInv
<1>2. ASSUME QuietInv, DbTypeOK, [BundleNext]_bundlevars
      PROVE  QuietInv'
  <2>1. CASE UNCHANGED bundlevars
    BY <1>2, <2>1 DEF QuietInv, bundlevars, dbvars, files, copy
  <2>2. ASSUME NEW p \in Proc, Process(p)
        PROVE  QuietInv'
    <3>1. quiet' => pc'[p] = "off" /\ quiet
      BY <2>2 DEF Process
    <3>2. Start(p) \/ Crash(p) \/ Statement(p)
      BY <2>2 DEF Process
    <3>3. quiet => pc[p] = "off"
      BY <1>2 DEF QuietInv
    <3>4. pc[p] = "off" => ~Statement(p) /\ ~Crash(p)
      BY DEF Statement, Pragma, currentSchemaVersion, CreateTable, VersionRow, Record,
             Autocommit, InsertRun, InsertScope, CommitRun, OpenRunFails, InsertFirst, InsertRow,
             CommitChunk, ChunkFails, FinishRun, Finish, StreamFails, GiveUp, Exit, Crash, Opening
    <3>5. Start(p) => pc'[p] # "off"
      BY <1>2 DEF Start, Goto, DbTypeOK
    <3>6. ~quiet'
      BY <3>1, <3>2, <3>3, <3>4, <3>5
    <3>7. /\ behind' => wal'
          /\ wal' \in BOOLEAN /\ behind' \in BOOLEAN /\ lacks' \in BOOLEAN /\ covered' \in BOOLEAN
      <4>1. /\ wal \in BOOLEAN /\ behind \in BOOLEAN /\ lacks \in BOOLEAN /\ covered \in BOOLEAN
            /\ behind => wal
        BY <1>2 DEF QuietInv
      <4>2. CASE UNCHANGED <<wal, behind, lacks, covered>>
        BY <4>1, <4>2
      <4>3. CASE Closed(p)
        BY <4>1, <4>3 DEF Closed, Uncover
      <4>4. CASE Committed
        BY <4>1, <4>4 DEF Committed, Uncover
      <4>5. CASE Used
        BY <4>1, <4>5 DEF Used
      <4> QED
        BY <2>2, <4>2, <4>3, <4>4, <4>5 DEF Process
    <3> QED
      BY <1>2, <2>2, <3>6, <3>7 DEF Process, QuietInv
  <2>3. CASE Checkpoint
    <3>1. ~quiet
      BY <1>2, <2>3 DEF Checkpoint, Connected, QuietInv
    <3> QED
      BY <1>2, <2>3, <3>1 DEF Checkpoint, QuietInv, dbvars, copy
  <2>4. CASE collectBundleEntries
    BY <1>2, <2>4 DEF collectBundleEntries, QuietInv, dbvars, files
  <2>5. CASE CopyDb
    BY <1>2, <2>5 DEF CopyDb, QuietInv, dbvars, files
  <2>6. CASE CopyWal
    BY <1>2, <2>6 DEF CopyWal, QuietInv, dbvars, files
  <2>7. CASE NoWal
    BY <1>2, <2>7 DEF NoWal, QuietInv, dbvars, files
  <2> QED
    BY <1>2, <2>1, <2>2, <2>3, <2>4, <2>5, <2>6, <2>7 DEF BundleNext, runExportAll
<1>3. QuietInv => QuietBundleIsWhole
  BY DEF QuietInv, QuietBundleIsWhole
<1>4. DbInv => DbTypeOK
  BY DEF DbInv
<1> QED
  BY <1>1, <1>2, <1>3, <1>4, BundleIsDatabase, DbInvariant, PTL DEF BundleSpec
=============================================================================
