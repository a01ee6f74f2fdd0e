----------------------------- MODULE ScanProofs -----------------------------
(***************************************************************************)
(* Theorems about Provider, for any number of enrichers, resources and     *)
(* slots, and about Scan, which runs it, for any scope, batch size and     *)
(* channel capacity, with every failure the constants allow.               *)
(***************************************************************************)
EXTENDS Scan, FiniteSetTheorems, TLAPS

-----------------------------------------------------------------------------
(***************************************************************************)
(* Provider.                                                               *)
(***************************************************************************)
-----------------------------------------------------------------------------
(* Type correctness.                                                       *)

\* The listing an enricher is at is one of the calls.
LEMMA ListedIsCall ==
  ASSUME PTypeOK, NEW e \in Enricher
  PROVE  Listed(e) \in EnrCall /\ Listed(e) \in Call
<1>1. Parts \in Seq(Seq(EnrCall)) /\ e \in 1 .. Len(Parts)
  BY ProviderAssumption DEF Enricher
<1>2. Parts[e] \in Seq(EnrCall)
  BY <1>1
<1>3. part[e] \in DOMAIN Parts[e]
  BY DEF PTypeOK
<1> QED
  BY <1>2, <1>3 DEF Listed, Call

\* sendOrCancel keeps the buffer a bounded sequence of items.
LEMMA SendType ==
  ASSUME PTypeOK, NEW x \in Item, Send(x)
  PROVE  ch' \in Seq(Item) /\ Len(ch') <= ChanCap
<1> USE ProviderAssumption DEF PTypeOK, Send
<1>1. CASE Len(ch) < ChanCap /\ ch' = Append(ch, x)
  BY <1>1
<1>2. CASE UNCHANGED ch
  BY <1>2
<1> QED
  BY <1>1, <1>2

\* Handing a resource over keeps the types.
LEMMA HandType ==
  ASSUME PTypeOK, NEW c \in Call, NEW d \in {"stub", "full"}, Hand(c, d)
  PROVE  /\ left' \in [Call -> SUBSET Ref]
         /\ why' = why
         /\ ch' \in Seq(Item) /\ Len(ch') <= ChanCap
<1>1. PICK r \in left[c] : left' = [left EXCEPT ![c] = @ \ {r}] /\ Send(Found(r, d)) /\ UNCHANGED why
  BY DEF Hand
<1>2. r \in Ref
  BY DEF PTypeOK
<1>3. Found(r, d) \in Item
  BY <1>2 DEF Row, Item
<1> QED
  BY <1>1, <1>3, SendType DEF PTypeOK

\* An error is an item.
LEMMA FailedType ==
  ASSUME NEW f \in Fault
  PROVE  Failed(f) \in Item
BY DEF Item

LEMMA FaultsType ==
  ASSUME NEW c
  PROVE  FaultsOf(c) \subseteq Fault
BY ProviderAssumption DEF FaultsOf

\* Going to the next listing or to the release keeps the types.
LEMMA AdvanceType ==
  ASSUME PTypeOK, NEW e \in Enricher, NEW stop, Advance(e, stop)
  PROVE  /\ wk' \in [Enricher -> {"idle", "ready", "run", "release", "done"}]
         /\ part' \in [Enricher -> Nat \ {0}]
         /\ \A x \in Enricher : part'[x] \in DOMAIN Parts[x]
<1>1. CASE wk' = [wk EXCEPT ![e] = "release"] /\ UNCHANGED part
  BY <1>1 DEF PTypeOK
<1>2. CASE part[e] # Len(Parts[e]) /\ part' = [part EXCEPT ![e] = @ + 1] /\ UNCHANGED wk
  <2>1. Parts[e] \in Seq(EnrCall)
    BY ProviderAssumption DEF Enricher
  <2>2. part[e] \in 1 .. Len(Parts[e])
    BY <2>1 DEF PTypeOK
  <2>3. part[e] + 1 \in DOMAIN Parts[e]
    BY <1>2, <2>1, <2>2
  <2> QED
    BY <1>2, <2>2, <2>3 DEF PTypeOK
<1> QED
  BY <1>1, <1>2 DEF Advance

LEMMA PTypeInit == PInit => PTypeOK
<1> SUFFICES ASSUME PInit PROVE PTypeOK
  OBVIOUS
<1> USE ProviderAssumption DEF PInit
<1>1. Parts \in Seq(Seq(EnrCall) \ {<<>>}) /\ Len(Parts) \in Nat
  OBVIOUS
<1>2. \A e \in Enricher : 1 \in DOMAIN Parts[e]
  <2> TAKE e \in Enricher
  <2>1. Parts[e] \in Seq(EnrCall) \ {<<>>}
    BY <1>1 DEF Enricher
  <2> QED
    BY <2>1
<1> QED
  BY <1>1, <1>2 DEF PTypeOK

LEMMA PTypeStep == PTypeOK /\ [PNext]_pvars => PTypeOK'
<1> SUFFICES ASSUME PTypeOK, [PNext]_pvars PROVE PTypeOK'
  OBVIOUS
<1>0. Len(Parts) \in Nat /\ Enricher = 1 .. Len(Parts)
  BY ProviderAssumption DEF Enricher
<1>1. CASE ListResources
  BY <1>1 DEF PTypeOK, ListResources
<1>2. CASE SearchEmit
  <2>1. cur \in Call
    BY DEF PTypeOK, Call
  <2>2. Hand(cur, "stub")
    BY <1>2 DEF SearchEmit
  <2> QED
    BY <1>2, <2>1, <2>2, HandType DEF PTypeOK, SearchEmit
<1>3. CASE SearchDone
  BY <1>3 DEF PTypeOK, SearchDone
<1>4. CASE SearchFault
  <2>1. cur \in Call
    BY DEF PTypeOK, Call
  <2>2. PICK f \in FaultsOf(cur) :
          /\ why' = [why EXCEPT ![cur] = f]
          /\ IF f = "invalid" THEN UNCHANGED ch ELSE Send(Failed(f))
    BY <1>4 DEF SearchFault
  <2>3. f \in Fault /\ Failed(f) \in Item
    BY FaultsType, FailedType
  <2>4. ch' \in Seq(Item) /\ Len(ch') <= ChanCap
    BY <2>2, <2>3, SendType DEF PTypeOK
  <2>5. why' \in [Call -> {"none"} \cup Fault]
    BY <2>1, <2>2, <2>3 DEF PTypeOK
  <2> QED
    BY <1>4, <2>4, <2>5 DEF PTypeOK, SearchFault
<1>5. CASE NextStubType
  BY <1>5 DEF PTypeOK, NextStubType
<1>6. CASE PhaseOneOver
  BY <1>6 DEF PTypeOK, PhaseOneOver
<1>7. CASE LoopHead
  BY <1>0, <1>7 DEF PTypeOK, LoopHead
<1>8. CASE AcquireSlot \/ AcquireCancelled
  <2>1. sem' \in 0 .. EnrichCap
    BY <1>8, ProviderAssumption DEF PTypeOK, AcquireSlot, AcquireCancelled
  <2>2. Spawn
    BY <1>8 DEF AcquireSlot, AcquireCancelled
  <2>3. nxt' \in 1 .. Len(Parts) + 1
    BY <1>0, <1>8, <2>2 DEF PTypeOK, Spawn, AcquireSlot, AcquireCancelled
  <2> QED
    BY <2>1, <2>2, <2>3 DEF PTypeOK, Spawn
<1>9. CASE CloseChannel
  BY <1>9 DEF PTypeOK, CloseChannel
<1>10. ASSUME NEW e \in Enricher, EnrStart(e) PROVE PTypeOK'
  BY <1>10 DEF PTypeOK, EnrStart
<1>11. ASSUME NEW e \in Enricher, EnrEmit(e) PROVE PTypeOK'
  <2>1. Hand(Listed(e), "full") /\ Listed(e) \in Call
    BY <1>11, ListedIsCall DEF EnrEmit
  <2> QED
    BY <1>11, <2>1, HandType DEF PTypeOK, EnrEmit
<1>12. ASSUME NEW e \in Enricher, EnrDone(e) PROVE PTypeOK'
  BY <1>12, AdvanceType DEF PTypeOK, EnrDone
<1>13. ASSUME NEW e \in Enricher, EnrFault(e) PROVE PTypeOK'
  <2>1. PICK f \in FaultsOf(Listed(e)) :
          /\ why' = [c \in Call |-> IF c \in GivenUp(e) THEN f ELSE why[c]]
          /\ Send(Failed(f))
    BY <1>13 DEF EnrFault
  <2>2. f \in Fault /\ Failed(f) \in Item
    BY FaultsType, FailedType
  <2>3. ch' \in Seq(Item) /\ Len(ch') <= ChanCap
    BY <2>1, <2>2, SendType
  <2>4. why' \in [Call -> {"none"} \cup Fault]
    BY <2>1, <2>2 DEF PTypeOK
  <2>5. Advance(e, e \notin Tolerant \/ ctx = "cancelled")
    BY <1>13 DEF EnrFault
  <2> QED
    BY <1>13, <2>3, <2>4, <2>5, AdvanceType DEF PTypeOK, EnrFault
<1>14. ASSUME NEW e \in Enricher, EnrRelease(e) PROVE PTypeOK'
  BY <1>14, ProviderAssumption DEF PTypeOK, EnrRelease
<1>15. CASE Cancel
  BY <1>15 DEF PTypeOK, Cancel
<1>16. CASE Receive
  <2>1. Tail(ch) \in Seq(Item) /\ Len(Tail(ch)) <= Len(ch)
    BY <1>16 DEF PTypeOK, Receive
  <2>2. Len(ch') <= ChanCap
    BY <1>16, <2>1, ProviderAssumption DEF PTypeOK, Receive
  <2> QED
    BY <1>16, <2>1, <2>2 DEF PTypeOK, Receive
<1>17. CASE UNCHANGED pvars
  BY <1>17 DEF PTypeOK, pvars
<1> QED
  BY <1>1, <1>2, <1>3, <1>4, <1>5, <1>6, <1>7, <1>8, <1>9, <1>10, <1>11, <1>12,
     <1>13, <1>14, <1>15, <1>16, <1>17 DEF PNext, Lister, EnricherStep

\* The variables of the provider keep their types.
THEOREM ProviderTypeCorrect == PSpec => []PTypeOK
<1>1. PInit => PTypeOK
  BY PTypeInit
<1>2. PTypeOK /\ [PNext]_pvars => PTypeOK'
  BY PTypeStep
<1> QED
  BY <1>1, <1>2, PTL DEF PSpec

-----------------------------------------------------------------------------
(* The pool of enrichers.                                                  *)

LEMMA EnricherFinite ==
  /\ IsFiniteSet(Enricher)
  /\ IsFiniteSet(Holding) /\ Cardinality(Holding) \in Nat
  /\ IsFiniteSet(Running) /\ Cardinality(Running) \in Nat
<1>1. Len(Parts) \in Nat /\ Enricher = 1 .. Len(Parts)
  BY ProviderAssumption DEF Enricher
<1>2. IsFiniteSet(Enricher)
  BY <1>1, FS_Interval
<1>3. Holding \subseteq Enricher /\ Running \subseteq Enricher
  BY DEF Holding, Running
<1> QED
  BY <1>2, <1>3, FS_Subset, FS_CardinalityType

LEMMA PoolInit == PInit => PoolInv
<1> SUFFICES ASSUME PInit PROVE PoolInv
  OBVIOUS
<1>1. Enricher = 1 .. Len(Parts) /\ Len(Parts) \in Nat
  BY ProviderAssumption DEF Enricher
<1>2. Holding = {} /\ Running = {}
  BY DEF PInit, Holding, Running
<1>3. Cardinality(Holding) = 0 /\ Cardinality(Running) = 0
  BY <1>2, FS_EmptySet
<1> QED
  BY <1>1, <1>3, ProviderAssumption DEF PInit, PoolInv, Spawned, TokensMatch, CapRespected

\* A step that leaves the goroutines, the token and the loop counter alone.
LEMMA PoolFrame ==
  ASSUME PoolInv, UNCHANGED <<nxt, sem, wk>>, ctx' = "live" => ctx = "live",
         lpc' \in {"off", "search", "stubs"} => lpc \in {"off", "search", "stubs"},
         lpc' = "closed" => \A e \in Enricher : e < nxt => wk[e] = "done"
  PROVE  PoolInv'
BY DEF PoolInv, Spawned, TokensMatch, CapRespected, Holding, Running

\* Once cancelled, a step after which no more enrichers run keeps the cap.
LEMMA CapCancelled ==
  ASSUME CapRespected, Running' \subseteq Running, EnrichCap \in Nat
  PROVE  CapRespected'
<1>1. IsFiniteSet(Running') /\ Cardinality(Running') <= Cardinality(Running)
  BY EnricherFinite, FS_Subset
<1>2. Cardinality(Running') \in Nat /\ Cardinality(Running) \in Nat
  BY <1>1, EnricherFinite, FS_CardinalityType
<1> QED
  BY <1>1, <1>2 DEF CapRespected

\* Not cancelled, the runners hold tokens, of which there are EnrichCap.
LEMMA CapLive ==
  ASSUME PTypeOK', TokensMatch', ctx' = "live"
  PROVE  CapRespected'
<1>1. IsFiniteSet(Holding') /\ Cardinality(Holding') = sem'
  <2>1. Holding' \subseteq Enricher /\ IsFiniteSet(Enricher)
    BY EnricherFinite DEF Holding
  <2> QED
    BY <2>1, FS_Subset DEF TokensMatch
<1>2. Running' \subseteq Holding'
  BY DEF Running, Holding
<1>3. IsFiniteSet(Running') /\ Cardinality(Running') <= Cardinality(Holding')
  BY <1>1, <1>2, FS_Subset
<1>4. sem' \in Nat /\ sem' <= EnrichCap /\ Cardinality(Running') \in Nat
  BY <1>3, FS_CardinalityType, ProviderAssumption DEF PTypeOK
<1> QED
  BY <1>1, <1>3, <1>4, ProviderAssumption DEF CapRespected

LEMMA PoolSpawn ==
  ASSUME PTypeOK, PTypeOK', PoolInv, AcquireSlot \/ AcquireCancelled
  PROVE  PoolInv'
<1>0. Len(Parts) \in Nat /\ Enricher = 1 .. Len(Parts) /\ nxt \in Enricher
  BY ProviderAssumption DEF Enricher, PTypeOK, AcquireSlot, AcquireCancelled
<1>1. /\ wk' = [wk EXCEPT ![nxt] = "ready"] /\ nxt' = nxt + 1 /\ lpc' = "loop"
      /\ ctx' = ctx /\ wk[nxt] = "idle"
  BY <1>0 DEF AcquireSlot, AcquireCancelled, Spawn, PoolInv, Spawned
<1>2. Spawned'
  BY <1>0, <1>1 DEF PoolInv, Spawned, PTypeOK
<1>3. Running' \subseteq Running
  BY <1>0, <1>1 DEF Running, PTypeOK
<1>4. TokensMatch'
  <2> SUFFICES ASSUME ctx' = "live" PROVE Cardinality(Holding') = sem'
    BY DEF TokensMatch
  <2>1. sem' = sem + 1
    BY <1>1 DEF AcquireSlot, AcquireCancelled
  <2>2. Holding' = Holding \cup {nxt} /\ nxt \notin Holding
    BY <1>0, <1>1 DEF Holding, PTypeOK
  <2>3. Cardinality(Holding') = Cardinality(Holding) + 1
    BY <2>2, EnricherFinite, FS_AddElement
  <2> QED
    BY <1>1, <2>1, <2>3 DEF PoolInv, TokensMatch
<1> QED
  BY <1>2, <1>3, <1>4, CapCancelled, ProviderAssumption DEF PoolInv

\* A goroutine that moves between two states before its release.
LEMMA PoolMove ==
  ASSUME PTypeOK, PTypeOK', PoolInv, NEW e \in Enricher,
         wk[e] \in {"ready", "run"},
         NEW to \in {"run", "release"},
         wk' = [wk EXCEPT ![e] = to] \/ wk' = wk,
         to = "run" => ctx = "live",
         UNCHANGED <<ctx, lpc, nxt, sem>>
  PROVE  PoolInv'
<1>1. Spawned'
  BY DEF PoolInv, Spawned, PTypeOK
<1>2. Holding' = Holding
  BY DEF Holding, PTypeOK
<1>3. TokensMatch'
  BY <1>2 DEF PoolInv, TokensMatch
<1>4. CASE ctx = "live"
  BY <1>1, <1>3, <1>4, CapLive DEF PoolInv
<1>5. CASE ctx # "live"
  <2>1. Running' \subseteq Running
    BY <1>5 DEF Running, PTypeOK
  <2> QED
    BY <1>1, <1>3, <2>1, CapCancelled, ProviderAssumption DEF PoolInv
<1> QED
  BY <1>4, <1>5

LEMMA PoolRelease ==
  ASSUME PTypeOK, PTypeOK', PoolInv, NEW e \in Enricher, EnrRelease(e)
  PROVE  PoolInv'
<1>1. /\ wk[e] = "release" /\ wk' = [wk EXCEPT ![e] = "done"] /\ sem' = sem - 1
      /\ UNCHANGED <<ctx, lpc, nxt>>
  BY DEF EnrRelease
<1>2. Spawned'
  BY <1>1 DEF PoolInv, Spawned, PTypeOK
<1>3. Running' \subseteq Running
  BY <1>1 DEF Running, PTypeOK
<1>4. TokensMatch'
  <2> SUFFICES ASSUME ctx' = "live" PROVE Cardinality(Holding') = sem'
    BY DEF TokensMatch
  <2>1. Holding' = Holding \ {e} /\ e \in Holding
    BY <1>1 DEF Holding, PTypeOK
  <2>2. Cardinality(Holding') = Cardinality(Holding) - 1
    BY <2>1, EnricherFinite, FS_RemoveElement
  <2> QED
    BY <1>1, <2>2 DEF PoolInv, TokensMatch
<1> QED
  BY <1>2, <1>3, <1>4, CapCancelled, ProviderAssumption DEF PoolInv

LEMMA PoolStep == PTypeOK /\ PTypeOK' /\ PoolInv /\ [PNext]_pvars => PoolInv'
<1> SUFFICES ASSUME PTypeOK, PTypeOK', PoolInv, [PNext]_pvars PROVE PoolInv'
  OBVIOUS
<1>1. CASE ListResources
  BY <1>1, PoolFrame DEF ListResources
<1>2. CASE SearchEmit
  BY <1>2, PoolFrame DEF SearchEmit
<1>3. CASE SearchDone
  BY <1>3, PoolFrame DEF SearchDone
<1>4. CASE SearchFault
  BY <1>4, PoolFrame DEF SearchFault
<1>5. CASE NextStubType
  BY <1>5, PoolFrame DEF NextStubType
<1>6. CASE PhaseOneOver
  BY <1>6, PoolFrame DEF PhaseOneOver
<1>7. CASE LoopHead
  BY <1>7, PoolFrame DEF LoopHead
<1>8. CASE AcquireSlot \/ AcquireCancelled
  BY <1>8, PoolSpawn
<1>9. CASE CloseChannel
  BY <1>9, PoolFrame DEF CloseChannel
<1>10. ASSUME NEW e \in Enricher, EnrStart(e) PROVE PoolInv'
  <2>1. CASE ctx = "cancelled"
    BY <1>10, <2>1, PoolMove DEF EnrStart
  <2>2. CASE ctx # "cancelled"
    <3>1. ctx = "live"
      BY <2>2 DEF PTypeOK
    <3> QED
      BY <1>10, <3>1, PoolMove DEF EnrStart
  <2> QED
    BY <2>1, <2>2
<1>11. ASSUME NEW e \in Enricher, EnrEmit(e) PROVE PoolInv'
  BY <1>11, PoolFrame DEF EnrEmit, PoolInv, Spawned
<1>12. ASSUME NEW e \in Enricher, EnrDone(e) PROVE PoolInv'
  <2>1. wk' = [wk EXCEPT ![e] = "release"] \/ wk' = wk
    BY <1>12 DEF EnrDone, Advance
  <2>2. wk[e] = "run" /\ UNCHANGED <<ctx, lpc, nxt, sem>>
    BY <1>12 DEF EnrDone
  <2> QED
    BY <2>1, <2>2, PoolMove
<1>13. ASSUME NEW e \in Enricher, EnrFault(e) PROVE PoolInv'
  <2>1. wk' = [wk EXCEPT ![e] = "release"] \/ wk' = wk
    BY <1>13 DEF EnrFault, Advance
  <2>2. wk[e] = "run" /\ UNCHANGED <<ctx, lpc, nxt, sem>>
    BY <1>13 DEF EnrFault
  <2> QED
    BY <2>1, <2>2, PoolMove
<1>14. ASSUME NEW e \in Enricher, EnrRelease(e) PROVE PoolInv'
  BY <1>14, PoolRelease
<1>15. CASE Cancel
  BY <1>15, PoolFrame DEF Cancel, PoolInv, Spawned
<1>16. CASE Receive
  BY <1>16, PoolFrame DEF Receive, PoolInv, Spawned
<1>17. CASE UNCHANGED pvars
  BY <1>17, PoolFrame DEF pvars, PoolInv, Spawned
<1> QED
  BY <1>1, <1>2, <1>3, <1>4, <1>5, <1>6, <1>7, <1>8, <1>9, <1>10, <1>11, <1>12,
     <1>13, <1>14, <1>15, <1>16, <1>17 DEF PNext, Lister, EnricherStep

\* No interleaving of spawns, releases and a cancellation lets more than
\* EnrichCap enrichers run, nor closes the channel under one of them.
THEOREM PoolCorrect == PSpec => [](CapRespected /\ ClosedIsQuiet)
<1>1. PInit => PTypeOK /\ PoolInv
  BY PTypeInit, PoolInit
<1>2. PTypeOK /\ PoolInv /\ [PNext]_pvars => PTypeOK' /\ PoolInv'
  BY PTypeStep, PoolStep
<1>3. PTypeOK /\ PoolInv => CapRespected /\ ClosedIsQuiet
  <2>1. Len(Parts) \in Nat /\ Enricher = 1 .. Len(Parts)
    BY ProviderAssumption DEF Enricher
  <2> QED
    BY <2>1 DEF PTypeOK, PoolInv, Spawned, ClosedIsQuiet
<1> QED
  BY <1>1, <1>2, <1>3, PTL DEF PSpec

\* The lister closes the channel of findings when no enricher is left to send:
\* however the last of them return, and whatever was cancelled, no send finds
\* it closed.
THEOREM NoSendAfterClose == PSpec => []ClosedIsQuiet
BY PoolCorrect, PTL

-----------------------------------------------------------------------------
(* A closed channel is a complete answer.                                  *)

LEMMA ProgressInit == PInit => ProgressInv
<1> SUFFICES ASSUME PInit PROVE Progress
  BY DEF ProgressInv
<1> QED
  BY DEF PInit, Progress

\* A settled call stays settled.
LEMMA HandSettled ==
  ASSUME PTypeOK, NEW c \in Call, NEW d, Hand(c, d), NEW b \in Call, Settled(b)
  PROVE  Settled(b)'
BY DEF PTypeOK, Hand, Settled

\* A step that leaves the calls alone leaves every call as settled as it was.
LEMMA SettledFrame ==
  ASSUME UNCHANGED <<left, why>>
  PROVE  \A c : Settled(c)' <=> Settled(c)
BY DEF Settled

\* The listings of an enricher, and the position it is at.
LEMMA PartsType ==
  /\ \A e \in Enricher :
       /\ Parts[e] \in Seq(EnrCall)
       /\ Len(Parts[e]) \in Nat
       /\ DOMAIN Parts[e] = 1 .. Len(Parts[e])
       /\ \A k \in DOMAIN Parts[e] : Parts[e][k] \in Call
  /\ PTypeOK => \A e \in Enricher : part[e] \in 1 .. Len(Parts[e]) /\ part[e] \in Nat
<1>1. ASSUME NEW e \in Enricher PROVE Parts[e] \in Seq(EnrCall)
  BY ProviderAssumption DEF Enricher
<1>2. ASSUME NEW s \in Seq(EnrCall)
      PROVE  Len(s) \in Nat /\ DOMAIN s = 1 .. Len(s) /\ \A k \in DOMAIN s : s[k] \in Call
  BY DEF Call
<1>3. \A e \in Enricher : Len(Parts[e]) \in Nat /\ DOMAIN Parts[e] = 1 .. Len(Parts[e])
  BY <1>1, <1>2
<1> QED
  BY <1>1, <1>2, <1>3 DEF PTypeOK

\* An enricher that has settled its listings up to the one it is at goes on
\* with the next, or to its release when it has settled them all.
LEMMA AdvanceProgress ==
  ASSUME PTypeOK, Progress, NEW e \in Enricher, NEW stop \in BOOLEAN, wk[e] = "run",
         Advance(e, stop), UNCHANGED <<lpc, cur, stubTodo, nxt>>,
         \A b \in Call : Settled(b) => Settled(b)',
         \A k \in DOMAIN Parts[e] : k <= part[e] => Settled(Parts[e][k])',
         stop => \A k \in DOMAIN Parts[e] : Settled(Parts[e][k])'
  PROVE  Progress'
<1>1. \A x \in Enricher :
        DOMAIN Parts[x] = 1 .. Len(Parts[x]) /\ Len(Parts[x]) \in Nat /\ part[x] \in 1 .. Len(Parts[x])
  BY PartsType
<1>2. \A x \in Enricher : \A k \in DOMAIN Parts[x] : Settled(Parts[x][k]) => Settled(Parts[x][k])'
  BY PartsType
<1>3. Settled(Strict) => Settled(Strict)'
  BY DEF Call
<1>4. \A s \in StubType : Settled(s) => Settled(s)'
  BY DEF Call
<1>5. CASE wk' = [wk EXCEPT ![e] = "release"] /\ part' = part /\ (part[e] = Len(Parts[e]) \/ stop)
  <2>1. \A k \in DOMAIN Parts[e] : Settled(Parts[e][k])'
    BY <1>1, <1>5
  <2> QED
    BY <1>2, <1>3, <1>4, <1>5, <2>1 DEF Progress, PTypeOK
<1>6. CASE wk' = wk /\ part' = [part EXCEPT ![e] = @ + 1]
  <2>1. \A k \in DOMAIN Parts[e] : k < part'[e] => Settled(Parts[e][k])'
    BY <1>1, <1>6 DEF PTypeOK
  <2>2. \A x \in Enricher : wk[x] \in {"idle", "ready"} => part'[x] = 1
    BY <1>6 DEF Progress, PTypeOK
  <2>3. \A x \in Enricher : \A k \in DOMAIN Parts[x] :
          wk[x] \in {"release", "done"} \/ (wk[x] = "run" /\ k < part'[x]) => Settled(Parts[x][k])'
    BY <1>2, <1>6, <2>1 DEF Progress, PTypeOK
  <2> QED
    BY <1>3, <1>4, <1>6, <2>2, <2>3 DEF Progress
<1> QED
  BY <1>5, <1>6 DEF Advance

LEMMA ClosedComplete == PTypeOK /\ PoolInv /\ ProgressInv => ClosedIsComplete
<1> SUFFICES ASSUME PTypeOK, PoolInv, ProgressInv, lpc = "closed", ctx = "live", NEW c \in Call
             PROVE  Settled(c)
  BY DEF ClosedIsComplete
<1>1. Progress
  BY DEF ProgressInv
<1>2. CASE c \in {Strict} \cup StubType
  BY <1>1, <1>2 DEF Progress
<1>3. CASE c \in EnrCall
  <2>1. PICK e \in Enricher : \E k \in DOMAIN Parts[e] : Parts[e][k] = c
    BY <1>3, ProviderAssumption
  <2>2. e < nxt
    BY <1>1, ProviderAssumption DEF Progress, Enricher, PTypeOK
  <2>3. wk[e] = "done"
    BY <2>2 DEF PoolInv, Spawned
  <2> QED
    BY <1>1, <2>1, <2>3 DEF Progress
<1> QED
  BY <1>2, <1>3 DEF Call

LEMMA ProgressStep ==
  PTypeOK /\ PTypeOK' /\ PoolInv /\ ProgressInv /\ [PNext]_pvars => ProgressInv'
<1> SUFFICES ASSUME PTypeOK, PTypeOK', PoolInv, ProgressInv, [PNext]_pvars, ctx' = "live"
             PROVE  Progress'
  BY DEF ProgressInv
<1>0. Len(Parts) \in Nat /\ Enricher = 1 .. Len(Parts)
  BY ProviderAssumption DEF Enricher
<1>a. ctx = "live" /\ Progress
  <2>1. ctx = "live"
    BY DEF PNext, Lister, EnricherStep, ListResources, SearchEmit, SearchDone, SearchFault,
       NextStubType, PhaseOneOver, LoopHead, AcquireSlot, AcquireCancelled, Spawn, CloseChannel,
       EnrStart, EnrEmit, EnrDone, EnrFault, EnrRelease, Cancel, Receive, pvars
  <2> QED
    BY <2>1 DEF ProgressInv
<1>b. \A e \in Enricher : \A k \in DOMAIN Parts[e] : Parts[e][k] \in Call
  <2> TAKE e \in Enricher
  <2>1. Parts[e] \in Seq(EnrCall)
    BY <1>0, ProviderAssumption
  <2> QED
    BY <2>1 DEF Call
<1>c. cur \in Call /\ Strict \in Call /\ StubType \subseteq Call
  BY DEF PTypeOK, Call
<1>1. CASE ListResources
  BY <1>1, <1>a, SettledFrame DEF ListResources, Progress
<1>2. CASE SearchEmit
  <2>1. Hand(cur, "stub") /\ UNCHANGED <<lpc, cur, stubTodo, nxt, wk, part>>
    BY <1>2 DEF SearchEmit
  <2>2. \A b \in Call : Settled(b) => Settled(b)'
    BY <1>c, <2>1, HandSettled
  <2> QED
    BY <1>a, <1>b, <1>c, <2>1, <2>2 DEF Progress
<1>3. CASE SearchDone
  <2>1. Settled(cur)' /\ UNCHANGED <<left, why>>
    BY <1>3 DEF SearchDone, Settled
  <2> QED
    BY <1>3, <1>a, <2>1, SettledFrame DEF SearchDone, Progress, PTypeOK
<1>4. CASE SearchFault
  <2>1. PICK f \in FaultsOf(cur) : why' = [why EXCEPT ![cur] = f]
    BY <1>4 DEF SearchFault
  <2>2. f # "none"
    BY FaultsType DEF Fault
  <2>3. Settled(cur)' /\ \A b \in Call : Settled(b) => Settled(b)'
    BY <1>4, <1>c, <2>1, <2>2 DEF SearchFault, Settled, PTypeOK
  <2> QED
    BY <1>4, <1>a, <1>b, <1>c, <2>3 DEF SearchFault, Progress, PTypeOK
<1>5. CASE NextStubType
  <2>1. PICK s \in stubTodo : cur' = s /\ stubTodo' = stubTodo \ {s}
    BY <1>5 DEF NextStubType
  <2> QED
    BY <1>5, <1>a, <2>1, SettledFrame DEF NextStubType, Progress
<1>6. CASE PhaseOneOver
  BY <1>6, <1>a, SettledFrame DEF PhaseOneOver, Progress
<1>7. CASE LoopHead
  BY <1>7, <1>a, SettledFrame DEF LoopHead, Progress
<1>8. CASE AcquireSlot \/ AcquireCancelled
  <2>1. /\ lpc = "select" /\ lpc' = "loop" /\ nxt \in Enricher
        /\ wk' = [wk EXCEPT ![nxt] = "ready"] /\ UNCHANGED <<cur, stubTodo, part, left, why>>
    BY <1>8 DEF AcquireSlot, AcquireCancelled, Spawn, PTypeOK
  <2>2. wk[nxt] = "idle"
    BY <1>0, <2>1 DEF PoolInv, Spawned
  <2> QED
    BY <1>a, <2>1, <2>2, SettledFrame DEF Progress, PTypeOK
<1>9. CASE CloseChannel
  BY <1>9, <1>a, SettledFrame DEF CloseChannel, Progress
<1>10. ASSUME NEW e \in Enricher, EnrStart(e) PROVE Progress'
  <2>1. wk[e] = "ready" /\ wk' = [wk EXCEPT ![e] = "run"] /\ part[e] = 1
        /\ UNCHANGED <<lpc, cur, stubTodo, nxt, part, left, why>>
    BY <1>10, <1>a DEF EnrStart, Progress
  <2> QED
    BY <1>a, PartsType, <2>1, SettledFrame DEF Progress, PTypeOK
<1>11. ASSUME NEW e \in Enricher, EnrEmit(e) PROVE Progress'
  <2>1. Hand(Listed(e), "full") /\ UNCHANGED <<lpc, cur, stubTodo, nxt, wk, part>>
    BY <1>11 DEF EnrEmit
  <2>2. \A b \in Call : Settled(b) => Settled(b)'
    BY <2>1, ListedIsCall, HandSettled
  <2> QED
    BY <1>a, <1>b, <1>c, <2>1, <2>2 DEF Progress
<1>12. ASSUME NEW e \in Enricher, EnrDone(e) PROVE Progress'
  <2>1. wk[e] = "run" /\ Settled(Listed(e)) /\ UNCHANGED <<ctx, lpc, cur, stubTodo, nxt, left, why>>
    BY <1>12 DEF EnrDone, Settled
  <2>2. Advance(e, FALSE)
    BY <1>12, <1>a DEF EnrDone, Advance
  <2>3. \A k \in DOMAIN Parts[e] : k <= part[e] => Settled(Parts[e][k])
    BY <1>a, <2>1, PartsType DEF Progress, Listed
  <2>4. \A b : Settled(b)' <=> Settled(b)
    BY <2>1, SettledFrame
  <2> QED
    BY <1>a, <2>1, <2>2, <2>3, <2>4, AdvanceProgress
<1>13. ASSUME NEW e \in Enricher, EnrFault(e) PROVE Progress'
  <2>1. wk[e] = "run" /\ UNCHANGED <<ctx, lpc, cur, stubTodo, nxt, left>>
    BY <1>13 DEF EnrFault
  <2>2. Advance(e, e \notin Tolerant)
    BY <1>13, <1>a DEF EnrFault, Advance
  <2>3. PICK f \in FaultsOf(Listed(e)) :
          why' = [c \in Call |-> IF c \in GivenUp(e) THEN f ELSE why[c]]
    BY <1>13 DEF EnrFault
  <2>4. f # "none"
    BY FaultsType DEF Fault
  <2>5. \A b \in Call : b \in GivenUp(e) \/ Settled(b) => Settled(b)'
    BY <2>1, <2>3, <2>4 DEF Settled
  <2>6. Listed(e) \in GivenUp(e)
    BY DEF GivenUp, Listed, PTypeOK
  <2>7. \A k \in DOMAIN Parts[e] : k <= part[e] => Settled(Parts[e][k])'
    BY <1>a, <1>b, <2>1, <2>5, <2>6, PartsType DEF Progress, Listed
  <2>8. e \notin Tolerant => \A k \in DOMAIN Parts[e] : Settled(Parts[e][k])'
    BY <1>b, <2>5, <2>7, PartsType DEF GivenUp
  <2> QED
    BY <1>a, <1>b, <1>c, <2>1, <2>2, <2>5, <2>7, <2>8, AdvanceProgress DEF Progress
<1>14. ASSUME NEW e \in Enricher, EnrRelease(e) PROVE Progress'
  BY <1>14, <1>a, SettledFrame DEF EnrRelease, Progress, PTypeOK
<1>15. CASE Cancel
  BY <1>15, <1>a DEF Cancel
<1>16. CASE Receive
  BY <1>16, <1>a, SettledFrame DEF Receive, Progress
<1>17. CASE UNCHANGED pvars
  BY <1>17, <1>a, SettledFrame DEF pvars, Progress
<1> QED
  BY <1>1, <1>2, <1>3, <1>4, <1>5, <1>6, <1>7, <1>8, <1>9, <1>10, <1>11, <1>12,
     <1>13, <1>14, <1>15, <1>16, <1>17 DEF PNext, Lister, EnricherStep

\* In a scan nobody cancelled, a closed channel means that every listing has
\* been handed over to its end or has failed and said so.
THEOREM ClosedMeansComplete == PSpec => []ClosedIsComplete
<1>1. PInit => PTypeOK /\ PoolInv /\ ProgressInv
  BY PTypeInit, PoolInit, ProgressInit
<1>2. PTypeOK /\ PoolInv /\ ProgressInv /\ [PNext]_pvars => PTypeOK' /\ PoolInv' /\ ProgressInv'
  BY PTypeStep, PoolStep, ProgressStep
<1>3. PTypeOK /\ PoolInv /\ ProgressInv => ClosedIsComplete
  BY ClosedComplete
<1> QED
  BY <1>1, <1>2, <1>3, PTL DEF PSpec

-----------------------------------------------------------------------------
(***************************************************************************)
(* Scan.                                                                   *)
(***************************************************************************)
-----------------------------------------------------------------------------
(* A scan runs the provider unchanged.                                     *)

\* Every step of a scan is a step of the provider or leaves it alone.
LEMMA StepIsProviderStep == [Next]_vars => [PNext]_pvars
<1> SUFFICES ASSUME [Next]_vars PROVE [PNext]_pvars
  OBVIOUS
<1>1. CASE Beside
  BY <1>1 DEF Beside, PNext
<1>2. CASE StartStream
  BY <1>2 DEF StartStream, PNext
<1>3. CASE DrainResource \/ DrainSkip \/ DrainError
  BY <1>3 DEF DrainResource, DrainSkip, DrainError, PNext
<1>4. CASE OpenRun \/ OpenRunFails \/ StartStreamFails \/ DrainCancelled \/ DrainClosed
  BY <1>4 DEF OpenRun, OpenRunFails, StartStreamFails, DrainCancelled, DrainClosed
<1>5. CASE FlushEmpty \/ BeginChunk \/ InsertRow \/ CommitChunk \/ ChunkCancelled \/ ChunkFails
  BY <1>5 DEF FlushEmpty, BeginChunk, InsertRow, CommitChunk, ChunkCancelled, ChunkFails
<1>6. CASE FinishOk \/ FinishOkFails \/ FinishFailed
  BY <1>6 DEF FinishOk, FinishOkFails, FinishFailed
<1>7. CASE UNCHANGED vars
  BY <1>7 DEF vars
<1> QED
  BY <1>1, <1>2, <1>3, <1>4, <1>5, <1>6, <1>7 DEF Next, Drain

\* The provider's theorems hold of it inside a scan.
THEOREM ScanRunsProvider == Spec => PSpec
<1>1. Init => PInit
  BY DEF Init
<1> QED
  BY <1>1, StepIsProviderStep, PTL DEF Spec, PSpec

-----------------------------------------------------------------------------
(* Type correctness.                                                       *)

DTypeOK ==
  /\ dpc \in {"open", "list", "drain", "begin", "insert", "finish", "fail", "returned"}
  /\ after \in {"continue", "closed", "cancelled"}
  /\ batch \in Seq(Row)
  /\ Len(batch) <= ScanBatch
  /\ (dpc \in {"open", "list", "drain"} => Len(batch) < ScanBatch)
  /\ wi \in 0 .. Len(batch)
  /\ tx \in Table
  /\ rows \in Table
  /\ status \in {"none", "running", "ok", "failed"}
  /\ result \in {"none", "ok", "canceled", "error"}
  /\ got \in Table
  /\ broken \in BOOLEAN

LEMMA ItemFields ==
  ASSUME NEW x \in Item
  PROVE  /\ x.err \in {"none"} \cup Fault
         /\ x.err = "none" <=> x \in Row
         /\ x \in Row => x.ref \in Ref /\ x.det \in {"stub", "full"}
         /\ x \notin Row => x.ref = NoRef /\ x.det = "none"
BY DEF Item, Row, Found, Failed, Fault

LEMMA DTypeInit == Init => DTypeOK
<1> SUFFICES ASSUME Init PROVE DTypeOK
  OBVIOUS
<1>1. batch \in Seq(Row) /\ Len(batch) = 0
  BY DEF Init
<1> QED
  <2>1. wi \in 0 .. Len(batch) /\ Len(batch) < ScanBatch /\ Len(batch) <= ScanBatch
    BY <1>1, ScanAssumption DEF Init
  <2>2. tx \in Table /\ rows \in Table /\ got \in Table
    BY DEF Init, Table, Level
  <2> QED
    BY <1>1, <2>1, <2>2 DEF Init, DTypeOK

LEMMA DTypeStep == PTypeOK /\ DTypeOK /\ [Next]_vars => DTypeOK'
<1> SUFFICES ASSUME PTypeOK, DTypeOK, [Next]_vars PROVE DTypeOK'
  OBVIOUS
<1>1. CASE OpenRun \/ OpenRunFails \/ StartStream \/ StartStreamFails
  BY <1>1 DEF OpenRun, OpenRunFails, StartStream, StartStreamFails, Return, ReturnRefused, DTypeOK
<1>2. CASE DrainCancelled \/ DrainClosed
  BY <1>2 DEF DrainCancelled, DrainClosed, Flush, DTypeOK
<1>3. CASE DrainResource
  <2>1. ch # <<>> /\ Head(ch) \in Item
    BY <1>3 DEF DrainResource, Receive, PTypeOK
  <2>2. Head(ch) \in Row /\ Head(ch).ref \in Ref /\ Head(ch).det \in {"stub", "full"}
    BY <1>3, <2>1, ItemFields DEF DrainResource
  <2>3. batch' \in Seq(Row) /\ Len(batch') = Len(batch) + 1 /\ Len(batch') <= ScanBatch
    BY <1>3, <2>2, ScanAssumption DEF DrainResource, DTypeOK
  <2>4. got' \in Table
    BY <1>3, <2>2 DEF DrainResource, DTypeOK, Table, Level
  <2>5. wi \in 0 .. Len(batch')
    BY <2>3 DEF DTypeOK
  <2>6. Len(batch') >= ScanBatch \/ Len(batch') < ScanBatch
    BY <2>3, ScanAssumption
  <2> QED
    BY <1>3, <2>3, <2>4, <2>5, <2>6 DEF DrainResource, Flush, DTypeOK
<1>4. CASE DrainSkip \/ DrainError
  BY <1>4 DEF DrainSkip, DrainError, Return, ReturnRefused, dvars, DTypeOK
<1>5. CASE FlushEmpty
  <2>1. Len(batch) < ScanBatch
    BY <1>5, ScanAssumption DEF FlushEmpty
  <2> QED
    BY <1>5, <2>1 DEF FlushEmpty, AfterFlush, Return, ReturnRefused, DTypeOK
<1>6. CASE BeginChunk
  BY <1>6 DEF BeginChunk, DTypeOK
<1>7. CASE InsertRow
  <2>1. batch[wi + 1] \in Row /\ wi + 1 \in 0 .. Len(batch)
    BY <1>7 DEF InsertRow, DTypeOK
  <2>2. batch[wi + 1].ref \in Ref /\ batch[wi + 1].det \in Level
    BY <2>1, ItemFields DEF Item, Level
  <2>3. tx' \in Table
    BY <1>7, <2>2 DEF InsertRow, DTypeOK, Table
  <2> QED
    BY <1>7, <2>1, <2>3 DEF InsertRow, DTypeOK
<1>8. CASE CommitChunk
  <2>1. batch' \in Seq(Row) /\ Len(batch') = 0 /\ wi' = 0
    BY <1>8 DEF CommitChunk
  <2>2. AfterFlush /\ rows' = tx /\ UNCHANGED <<after, tx, status, got, broken>>
    BY <1>8 DEF CommitChunk
  <2>3. wi' \in 0 .. Len(batch') /\ Len(batch') < ScanBatch /\ Len(batch') <= ScanBatch
    BY <2>1, ScanAssumption
  <2>4. rows' \in Table /\ tx' \in Table
    BY <2>2 DEF DTypeOK
  <2> QED
    BY <2>1, <2>2, <2>3, <2>4 DEF AfterFlush, Return, ReturnRefused, DTypeOK
<1>9. CASE ChunkCancelled \/ ChunkFails
  BY <1>9 DEF ChunkCancelled, ChunkFails, FlushFailed, Return, ReturnRefused, DTypeOK
<1>10. CASE FinishOk \/ FinishOkFails \/ FinishFailed
  BY <1>10 DEF FinishOk, FinishOkFails, FinishFailed, Return, ReturnRefused, DTypeOK
<1>11. CASE Beside \/ UNCHANGED vars
  BY <1>11 DEF Beside, vars, dvars, DTypeOK
<1> QED
  BY <1>1, <1>2, <1>3, <1>4, <1>5, <1>6, <1>7, <1>8, <1>9, <1>10, <1>11 DEF Next, Drain

\* Every variable of a scan keeps its type.
THEOREM ScanTypeCorrect == Spec => []TypeOK
<1>1. Init => PTypeOK /\ DTypeOK
  BY PTypeInit, DTypeInit DEF Init
<1>2. PTypeOK /\ DTypeOK /\ [Next]_vars => PTypeOK' /\ DTypeOK'
  BY StepIsProviderStep, PTypeStep, DTypeStep
<1>3. PTypeOK /\ DTypeOK => TypeOK
  BY DEF DTypeOK, TypeOK
<1> QED
  BY <1>1, <1>2, <1>3, PTL DEF Spec

-----------------------------------------------------------------------------
(* Sequences.                                                              *)

LEMMA AppendElements ==
  ASSUME NEW S, NEW s \in Seq(S), NEW x \in S
  PROVE  /\ DOMAIN Append(s, x) = DOMAIN s \cup {Len(s) + 1}
         /\ \A i \in DOMAIN s : Append(s, x)[i] = s[i] /\ i < Len(s) + 1
         /\ Append(s, x)[Len(s) + 1] = x
OBVIOUS

LEMMA TailElements ==
  ASSUME NEW S, NEW s \in Seq(S), s # <<>>
  PROVE  /\ Head(s) = s[1] /\ 1 \in DOMAIN s
         /\ \A i \in DOMAIN Tail(s) : i + 1 \in DOMAIN s /\ Tail(s)[i] = s[i + 1] /\ 1 < i + 1
         /\ \A i \in DOMAIN s : i = 1 \/ (i - 1 \in DOMAIN Tail(s) /\ Tail(s)[i - 1] = s[i])
         /\ DOMAIN Tail(s) \subseteq Nat
OBVIOUS

-----------------------------------------------------------------------------
(* Stubs before details.                                                   *)

PhaseOne == {"off", "search", "stubs"}

\* What a step of the provider's goroutines puts into the channel.
LEMMA SentItem ==
  ASSUME PTypeOK, PoolInv, Beside
  PROVE  /\ lpc' \in PhaseOne => lpc \in PhaseOne
         /\ \/ ch' = ch
            \/ \E x \in Item :
                 /\ ch' = Append(ch, x)
                 /\ x.det = "stub" => lpc \in PhaseOne
                 /\ x.det = "full" => lpc \notin PhaseOne /\ lpc' = lpc
<1> USE DEF PhaseOne
<1>0. Len(Parts) \in Nat /\ Enricher = 1 .. Len(Parts)
  BY ProviderAssumption DEF Enricher
<1>1. CASE SearchEmit
  <2>1. PICK r \in left[cur] : Send(Found(r, "stub"))
    BY <1>1 DEF SearchEmit, Hand
  <2>2. r \in Ref
    BY DEF PTypeOK, Call
  <2>3. Found(r, "stub") \in Item /\ Found(r, "stub").det = "stub"
    BY <2>2 DEF Found, Item, Row
  <2> QED
    BY <1>1, <2>1, <2>3 DEF SearchEmit, Send
<1>2. CASE SearchFault
  <2>1. PICK f \in FaultsOf(cur) : IF f = "invalid" THEN UNCHANGED ch ELSE Send(Failed(f))
    BY <1>2 DEF SearchFault
  <2>2. Failed(f) \in Item /\ Failed(f).det = "none"
    BY FaultsType, FailedType DEF Failed
  <2> QED
    BY <1>2, <2>1, <2>2 DEF SearchFault, Send
<1>3. ASSUME NEW e \in Enricher, EnrEmit(e)
      PROVE  \/ ch' = ch
             \/ \E x \in Item : ch' = Append(ch, x) /\ x.det = "full" /\ lpc \notin PhaseOne /\ lpc' = lpc
  <2>1. PICK r \in left[Listed(e)] : Send(Found(r, "full"))
    BY <1>3 DEF EnrEmit, Hand
  <2>2. r \in Ref
    BY ListedIsCall DEF PTypeOK
  <2>3. Found(r, "full") \in Item /\ Found(r, "full").det = "full"
    BY <2>2 DEF Found, Item, Row
  <2>4. wk[e] # "idle"
    BY <1>3 DEF EnrEmit
  <2>5. lpc \notin PhaseOne
    BY <1>0, <2>4 DEF PoolInv, Spawned, PTypeOK
  <2> QED
    BY <1>3, <2>1, <2>3, <2>5 DEF EnrEmit, Send
<1>4. ASSUME NEW e \in Enricher, EnrFault(e)
      PROVE  lpc' = lpc /\ (ch' = ch \/ \E x \in Item : ch' = Append(ch, x) /\ x.det = "none")
  <2>1. PICK f \in FaultsOf(Listed(e)) : Send(Failed(f))
    BY <1>4 DEF EnrFault
  <2>2. Failed(f) \in Item /\ Failed(f).det = "none"
    BY FaultsType, FailedType DEF Failed
  <2> QED
    BY <1>4, <2>1, <2>2 DEF EnrFault, Send
<1>5. CASE SearchDone \/ NextStubType \/ PhaseOneOver \/ LoopHead \/ AcquireSlot
             \/ AcquireCancelled \/ CloseChannel \/ Cancel
  BY <1>5 DEF SearchDone, NextStubType, PhaseOneOver, LoopHead, AcquireSlot, AcquireCancelled,
     Spawn, CloseChannel, Cancel
<1>6. ASSUME NEW e \in Enricher, EnrStart(e) \/ EnrDone(e) \/ EnrRelease(e)
      PROVE  lpc' = lpc /\ ch' = ch
  BY <1>6 DEF EnrStart, EnrDone, EnrRelease
<1>7. ASSUME NEW e \in Enricher, EnrEmit(e) PROVE lpc' = lpc
  BY <1>7 DEF EnrEmit
<1> QED
  BY <1>1, <1>2, <1>3, <1>4, <1>5, <1>6, <1>7 DEF Beside, Lister, EnricherStep

LEMMA OrderBeside ==
  ASSUME PTypeOK, DTypeOK, PoolInv, OrderInv, Beside
  PROVE  OrderInv'
<1>1. UNCHANGED <<batch, rows>>
  BY DEF Beside, dvars
<1>2. CASE ch' = ch
  BY <1>1, <1>2, SentItem DEF OrderInv, PhaseOne, Ordered, NoStub, NoFull
<1>3. ASSUME NEW x \in Item, ch' = Append(ch, x),
             x.det = "stub" => lpc \in PhaseOne,
             x.det = "full" => lpc \notin PhaseOne /\ lpc' = lpc
      PROVE  OrderInv'
  <2>1. /\ DOMAIN ch' = DOMAIN ch \cup {Len(ch) + 1}
        /\ \A i \in DOMAIN ch : ch'[i] = ch[i] /\ i < Len(ch) + 1
        /\ ch'[Len(ch) + 1] = x
    BY <1>3, AppendElements DEF PTypeOK
  <2>2. \A i \in DOMAIN ch' : ch'[i].det = "full" => x.det # "stub" \/ i \notin DOMAIN ch
    BY <1>3, <2>1 DEF OrderInv, PhaseOne, NoFull
  <2>3. Ordered(ch')
    BY <2>1, <2>2 DEF OrderInv, Ordered, PTypeOK
  <2>4. x.det = "stub" => NoFull(batch) /\ \A r \in Ref : rows[r] # "full"
    BY <1>3 DEF OrderInv, PhaseOne
  <2>5. ~ NoFull(batch) => NoStub(ch')
    BY <2>1, <2>4 DEF OrderInv, NoStub
  <2>6. (\E r \in Ref : rows[r] = "full") => NoStub(ch')
    BY <2>1, <2>4 DEF OrderInv, NoStub
  <2>7. lpc' \in PhaseOne => NoFull(ch')
    BY <1>3, <2>1, SentItem DEF OrderInv, NoFull, PhaseOne
  <2> QED
    BY <1>1, <2>3, <2>5, <2>6, <2>7, SentItem DEF OrderInv, PhaseOne, Ordered, NoStub, NoFull
<1> QED
  BY <1>2, <1>3, SentItem

LEMMA OrderStep ==
  ASSUME PTypeOK, DTypeOK, PoolInv, OrderInv, TxInv, [Next]_vars
  PROVE  OrderInv'
<1> USE DEF PhaseOne
<1>1. CASE Beside
  BY <1>1, OrderBeside
<1>2. CASE DrainResource
  <2>1. /\ ch # <<>> /\ ch' = Tail(ch) /\ batch' = Append(batch, Head(ch))
        /\ UNCHANGED <<rows, lpc>>
    BY <1>2 DEF DrainResource, Receive
  <2>2. Head(ch) \in Row
    BY <1>2, <2>1, ItemFields DEF DrainResource, PTypeOK
  <2>3. /\ Head(ch) = ch[1] /\ 1 \in DOMAIN ch
        /\ \A i \in DOMAIN Tail(ch) : i + 1 \in DOMAIN ch /\ Tail(ch)[i] = ch[i + 1] /\ 1 < i + 1
    BY <2>1, TailElements DEF PTypeOK
  <2>4. /\ DOMAIN batch' = DOMAIN batch \cup {Len(batch) + 1}
        /\ \A i \in DOMAIN batch : batch'[i] = batch[i] /\ i < Len(batch) + 1
        /\ batch'[Len(batch) + 1] = ch[1]
    BY <2>1, <2>2, <2>3, AppendElements DEF DTypeOK
  <2>5. Ordered(ch')
    <3> SUFFICES ASSUME NEW i \in DOMAIN ch', NEW j \in DOMAIN ch', i < j, ch'[i].det = "full"
                 PROVE  ch'[j].det # "stub"
      BY DEF Ordered
    <3>1. i + 1 < j + 1
      BY <2>1, TailElements DEF PTypeOK
    <3> QED
      BY <2>1, <2>3, <3>1 DEF OrderInv, Ordered
  <2>6. ch[1].det = "full" => NoStub(ch')
    BY <2>1, <2>3 DEF OrderInv, Ordered, NoStub
  <2>7. NoStub(ch) => NoStub(ch') /\ ch[1].det # "stub"
    BY <2>1, <2>3 DEF NoStub
  <2>8. Ordered(batch')
    BY <2>4, <2>7 DEF OrderInv, Ordered, NoFull, DTypeOK
  <2>9. ~ NoFull(batch') => NoStub(ch')
    BY <2>4, <2>6, <2>7 DEF OrderInv, NoFull
  <2>10. (\E r \in Ref : rows[r] = "full") => NoStub(ch') /\ NoStub(batch')
    BY <2>4, <2>7 DEF OrderInv, NoStub
  <2>11. NoFull(ch) => NoFull(ch') /\ ch[1].det # "full"
    BY <2>1, <2>3 DEF NoFull
  <2>12. lpc \in PhaseOne => NoFull(ch') /\ NoFull(batch')
    BY <2>4, <2>11 DEF OrderInv, NoFull
  <2> QED
    BY <2>1, <2>5, <2>8, <2>9, <2>10, <2>12 DEF OrderInv
<1>3. CASE DrainSkip \/ DrainError
  <2>1. ch # <<>> /\ ch' = Tail(ch) /\ UNCHANGED <<rows, lpc, batch>>
    BY <1>3 DEF DrainSkip, DrainError, Receive, dvars
  <2>2. \A i \in DOMAIN Tail(ch) : i \in Nat /\ i + 1 \in DOMAIN ch /\ Tail(ch)[i] = ch[i + 1]
    BY <2>1, TailElements DEF PTypeOK
  <2>3. Ordered(ch') /\ (NoStub(ch) => NoStub(ch')) /\ (NoFull(ch) => NoFull(ch'))
    BY <2>1, <2>2 DEF OrderInv, Ordered, NoStub, NoFull
  <2> QED
    BY <2>1, <2>3 DEF OrderInv, Ordered, NoStub, NoFull
<1>4. CASE CommitChunk
  <2>1. batch' = <<>> /\ rows' = tx /\ UNCHANGED <<ch, lpc>> /\ dpc = "insert" /\ wi = Len(batch)
    BY <1>4 DEF CommitChunk, pvars
  <2>2. \A r \in Ref : tx[r] = "full" => rows[r] = "full" \/ ~ NoFull(batch)
    BY <2>1 DEF TxInv, NoFull, DTypeOK
  <2>3. \A r \in Ref : tx[r] = "full" => NoStub(ch)
    BY <2>2 DEF OrderInv
  <2>4. lpc \in PhaseOne => \A r \in Ref : tx[r] # "full"
    BY <2>2 DEF OrderInv
  <2> QED
    BY <2>1, <2>3, <2>4 DEF OrderInv, Ordered, NoStub, NoFull
<1>5. CASE StartStream
  BY <1>5 DEF StartStream, ListResources, OrderInv, Ordered, NoStub, NoFull
<1>6. CASE \/ OpenRun \/ OpenRunFails \/ StartStreamFails \/ DrainCancelled \/ DrainClosed
           \/ FlushEmpty \/ BeginChunk \/ InsertRow \/ ChunkCancelled \/ ChunkFails
           \/ FinishOk \/ FinishOkFails \/ FinishFailed \/ UNCHANGED vars
  <2>1. UNCHANGED <<ch, lpc, batch, rows>>
    BY <1>6 DEF OpenRun, OpenRunFails, StartStreamFails, DrainCancelled, DrainClosed, FlushEmpty,
       BeginChunk, InsertRow, ChunkCancelled, ChunkFails, FinishOk, FinishOkFails, FinishFailed,
       vars, pvars, dvars
  <2> QED
    BY <2>1 DEF OrderInv, Ordered, NoStub, NoFull
<1> QED
  BY <1>1, <1>2, <1>3, <1>4, <1>5, <1>6 DEF Next, Drain

-----------------------------------------------------------------------------
(* The open transaction.                                                   *)

LEMMA TxStep ==
  ASSUME DTypeOK, OrderInv, TxInv, [Next]_vars
  PROVE  TxInv'
<1>1. CASE BeginChunk
  BY <1>1 DEF BeginChunk, TxInv, Covers, DTypeOK, Table, Level
<1>2. CASE InsertRow
  <2> DEFINE x == batch[wi + 1]
  <2>1. /\ dpc = "insert" /\ UNCHANGED <<dpc, batch, rows>>
        /\ tx' = [tx EXCEPT ![x.ref] = x.det] /\ wi' = wi + 1
        /\ wi + 1 \in DOMAIN batch /\ wi \in Nat
    BY <1>2 DEF InsertRow, DTypeOK
  <2>2. x \in Row /\ x.ref \in Ref /\ x.det \in {"stub", "full"}
    BY <2>1, ItemFields DEF DTypeOK, Item
  <2>3. \A r \in Ref : tx'[r] = IF r = x.ref THEN x.det ELSE tx[r]
    BY <2>1, <2>2 DEF DTypeOK, Table
  <2>4. \A r \in Ref : rows[r] \in Level /\ tx[r] \in Level
    BY DEF DTypeOK, Table
  <2>5. \A i \in 1 .. wi : /\ i \in DOMAIN batch /\ i < wi + 1
                           /\ batch[i].ref \in Ref /\ batch[i].det \in {"stub", "full"}
    BY <2>1, ItemFields DEF DTypeOK, Item
  <2>6. (wi + 1) \in 1 .. (wi + 1) /\ \A i \in 1 .. (wi + 1) : i = wi + 1 \/ i \in 1 .. wi
    BY <2>1
  <2>7. \A r \in Ref : \/ tx'[r] = rows[r]
                       \/ \E i \in 1 .. (wi + 1) : batch[i].ref = r /\ batch[i].det = tx'[r]
    BY <2>1, <2>3, <2>6 DEF TxInv
  <2>8. \A r \in Ref : Covers(tx'[r], rows[r])
    <3> SUFFICES ASSUME NEW r \in Ref PROVE Covers(tx'[r], rows[r])
      OBVIOUS
    <3>1. CASE r # x.ref
      BY <2>1, <2>3, <3>1 DEF TxInv
    <3>2. CASE r = x.ref
      <4>1. rows[r] = "full" => x.det # "stub"
        BY <2>1 DEF OrderInv, NoStub
      <4> QED
        BY <2>2, <2>3, <2>4, <3>2, <4>1 DEF Covers, Level
    <3> QED
      BY <3>1, <3>2
  <2>9. \A i \in 1 .. (wi + 1) : Covers(tx'[batch[i].ref], batch[i].det)
    <3> SUFFICES ASSUME NEW i \in 1 .. (wi + 1) PROVE Covers(tx'[batch[i].ref], batch[i].det)
      OBVIOUS
    <3>1. CASE i = wi + 1
      BY <2>2, <2>3, <3>1 DEF Covers
    <3>2. CASE i \in 1 .. wi /\ batch[i].ref # x.ref
      BY <2>1, <2>3, <2>5, <3>2 DEF TxInv
    <3>3. CASE i \in 1 .. wi /\ batch[i].ref = x.ref
      <4>1. batch[i].det = "full" => x.det # "stub"
        BY <2>1, <2>5, <3>3 DEF OrderInv, Ordered
      <4> QED
        BY <2>2, <2>3, <2>5, <3>3, <4>1 DEF Covers
    <3> QED
      BY <2>6, <3>1, <3>2, <3>3
  <2> QED
    BY <2>1, <2>7, <2>8, <2>9 DEF TxInv
<1>3. CASE Beside \/ UNCHANGED vars
  BY <1>3 DEF Beside, vars, dvars, TxInv
<1>4. CASE OpenRun \/ OpenRunFails \/ StartStream \/ StartStreamFails
  BY <1>4 DEF OpenRun, OpenRunFails, StartStream, StartStreamFails, Return, ReturnRefused, TxInv
<1>5. CASE DrainCancelled \/ DrainClosed \/ DrainResource \/ DrainSkip \/ DrainError
  BY <1>5 DEF DrainCancelled, DrainClosed, DrainResource, DrainSkip, DrainError, Flush, Return, ReturnRefused,
     dvars, TxInv
<1>6. CASE FlushEmpty \/ CommitChunk
  BY <1>6 DEF FlushEmpty, CommitChunk, AfterFlush, Return, ReturnRefused, DTypeOK, TxInv
<1>7. CASE ChunkCancelled \/ ChunkFails
  BY <1>7 DEF ChunkCancelled, ChunkFails, FlushFailed, Return, ReturnRefused, TxInv
<1>8. CASE FinishOk \/ FinishOkFails \/ FinishFailed
  BY <1>8 DEF FinishOk, FinishOkFails, FinishFailed, Return, ReturnRefused, TxInv
<1> QED
  BY <1>1, <1>2, <1>3, <1>4, <1>5, <1>6, <1>7, <1>8 DEF Next, Drain

\* Rows only gain detail, in any step.
LEMMA RowsGrow ==
  ASSUME DTypeOK, TxInv, [Next]_vars
  PROVE  \A r \in Ref : Covers(rows'[r], rows[r])
<1>1. CASE CommitChunk
  BY <1>1 DEF CommitChunk, TxInv
<1>2. CASE ~ CommitChunk
  <2>1. rows' = rows
    BY <1>2 DEF Next, Drain, OpenRun, OpenRunFails, StartStream, StartStreamFails, DrainCancelled,
       DrainClosed, DrainResource, DrainSkip, DrainError, FlushEmpty, BeginChunk, InsertRow,
       ChunkCancelled, ChunkFails, FinishOk, FinishOkFails, FinishFailed, Beside, vars, dvars
  <2> QED
    BY <2>1 DEF DTypeOK, Table, Level, Covers
<1> QED
  BY <1>1, <1>2

LEMMA OrderInit == Init => OrderInv /\ TxInv
BY DEF Init, PInit, OrderInv, TxInv, Ordered, NoStub, NoFull

\* A detailed row is never replaced by a stub, by any order of the
\* goroutines, the batches and the failures.
THEOREM DetailNeverLost == Spec => NeverClobber
<1> DEFINE Inv == PTypeOK /\ DTypeOK /\ PoolInv /\ OrderInv /\ TxInv
<1>1. Init => Inv
  BY PTypeInit, DTypeInit, PoolInit, OrderInit DEF Init
<1>2. Inv /\ [Next]_vars => Inv'
  BY StepIsProviderStep, PTypeStep, DTypeStep, PoolStep, OrderStep, TxStep
<1>3. Inv /\ [Next]_vars => [\A r \in Ref : rows[r] = "full" => rows'[r] = "full"]_vars
  BY RowsGrow DEF Covers
<1> QED
  BY <1>1, <1>2, <1>3, PTL DEF Spec, NeverClobber

-----------------------------------------------------------------------------
(* Nothing is lost on the way.                                             *)

LEMMA CoversTransitive ==
  ASSUME NEW a, NEW b, NEW d, Covers(a, b), Covers(b, d), b \in Level
  PROVE  Covers(a, d)
BY DEF Covers, Level

LEMMA DetailIsLevel ==
  ASSUME NEW c
  PROVE  Detail(c) \in {"stub", "full"}
BY DEF Detail

\* A resource in the channel stays carried when more is sent.
LEMMA CarriedSend ==
  ASSUME PTypeOK, NEW x \in Item, ch' = ch \/ ch' = Append(ch, x), UNCHANGED <<batch, rows>>,
         NEW r, NEW d, Carried(r, d)
  PROVE  Carried(r, d)'
<1>1. \A i \in DOMAIN ch : i \in DOMAIN ch' /\ ch'[i] = ch[i]
  BY AppendElements DEF PTypeOK
<1> QED
  BY <1>1 DEF Carried

\* A failure in the channel stays there when more is sent.
LEMMA FaultSend ==
  ASSUME PTypeOK, NEW x \in Item, ch' = ch \/ ch' = Append(ch, x)
  PROVE  \A i \in DOMAIN ch : i \in DOMAIN ch' /\ ch'[i] = ch[i]
<1>1. CASE ch' = ch
  BY <1>1
<1>2. CASE ch' = Append(ch, x)
  BY <1>2, AppendElements DEF PTypeOK
<1> QED
  BY <1>1, <1>2

\* What NothingLost says of one call.
Safe(c) ==
  /\ why[c] = "none" => \A r \in Listing[c] : r \in left[c] \/ Carried(r, Detail(c))
  /\ why[c] \in Excused \cup {"none"} \/ \E i \in DOMAIN ch : ch[i].err = why[c]

\* Handing a resource over moves it from the call into the channel.
LEMMA SafeHand ==
  ASSUME PTypeOK, ctx = "live", NEW c \in Call, Hand(c, Detail(c)), UNCHANGED <<batch, rows>>,
         NEW b \in Call, Safe(b)
  PROVE  Safe(b)'
<1>1. PICK r \in left[c] : left' = [left EXCEPT ![c] = @ \ {r}] /\ Send(Found(r, Detail(c))) /\ UNCHANGED why
  BY DEF Hand
<1>2. r \in Ref
  BY DEF PTypeOK
<1>3. Found(r, Detail(c)) \in Item
  BY <1>2, DetailIsLevel DEF Found, Item, Row
<1>4. ch' = Append(ch, Found(r, Detail(c)))
  BY <1>1 DEF Send
<1>5. Carried(r, Detail(c))'
  <2>1. Len(ch) + 1 \in DOMAIN ch' /\ ch'[Len(ch) + 1] = Found(r, Detail(c))
    BY <1>3, <1>4, AppendElements DEF PTypeOK
  <2>2. Covers(Detail(c), Detail(c))
    BY DetailIsLevel DEF Covers
  <2> QED
    BY <2>1, <2>2 DEF Carried, Found, Detail
<1>6. \A q, d : Carried(q, d) => Carried(q, d)'
  BY <1>3, <1>4, CarriedSend
<1>7. ASSUME why'[b] = "none", NEW q \in Listing[b]
      PROVE  q \in left'[b] \/ Carried(q, Detail(b))'
  <2>1. q \in left[b] \/ Carried(q, Detail(b))
    BY <1>1, <1>7 DEF Safe
  <2>2. CASE q \in left[b]
    BY <1>1, <1>5, <2>2 DEF PTypeOK
  <2>3. CASE Carried(q, Detail(b))
    BY <1>6, <2>3
  <2> QED
    BY <2>1, <2>2, <2>3
<1>8. why'[b] \in Excused \cup {"none"} \/ \E i \in DOMAIN ch' : ch'[i].err = why'[b]
  BY <1>1, <1>3, <1>4, FaultSend DEF Safe
<1> QED
  BY <1>7, <1>8 DEF Safe, Detail

\* A call that fails is excused, or its failure is in the channel.
LEMMA SafeFault ==
  ASSUME PTypeOK, ctx = "live", NEW f \in Fault, NEW S \in SUBSET Call,
         why' = [c \in Call |-> IF c \in S THEN f ELSE why[c]],
         (f \in Excused /\ UNCHANGED ch) \/ Send(Failed(f)),
         UNCHANGED <<left, batch, rows>>, NEW b \in Call, Safe(b)
  PROVE  Safe(b)'
<1>1. Failed(f) \in Item
  BY FailedType
<1>2. (ch' = ch /\ f \in Excused) \/ ch' = Append(ch, Failed(f))
  BY DEF Send
<1>3. \A q, d : Carried(q, d) => Carried(q, d)'
  BY <1>1, <1>2, CarriedSend
<1>4. \A i \in DOMAIN ch : i \in DOMAIN ch' /\ ch'[i] = ch[i]
  BY <1>1, <1>2, FaultSend
<1>5. f \in Excused \/ \E i \in DOMAIN ch' : ch'[i].err = f
  <2>1. CASE ch' = Append(ch, Failed(f))
    BY <1>1, <2>1, AppendElements DEF PTypeOK, Failed
  <2> QED
    BY <1>2, <2>1
<1>6. CASE b \in S
  BY <1>5, <1>6 DEF Safe, Fault
<1>7. CASE b \notin S
  BY <1>3, <1>4, <1>7 DEF Safe, Detail
<1> QED
  BY <1>6, <1>7

\* A step that leaves the channel, the calls, the batch and the rows alone.
LEMMA SafeFrame ==
  ASSUME UNCHANGED <<left, why, ch, batch, rows>>, NEW b, Safe(b)
  PROVE  Safe(b)'
BY DEF Safe, Carried, Detail

LEMMA SafeBeside ==
  ASSUME PTypeOK, Beside, ctx' = "live", NEW b \in Call, Safe(b)
  PROVE  Safe(b)'
<1>0. UNCHANGED <<batch, rows>>
  BY DEF Beside, dvars
<1>1. CASE SearchEmit
  <2>1. cur \in Call /\ Detail(cur) = "stub"
    BY ProviderAssumption DEF PTypeOK, Call, Detail
  <2> QED
    BY <1>0, <1>1, <2>1, SafeHand DEF SearchEmit
<1>2. CASE SearchFault
  <2>1. PICK f \in FaultsOf(cur) :
          /\ why' = [why EXCEPT ![cur] = f]
          /\ IF f = "invalid" THEN UNCHANGED ch ELSE Send(Failed(f))
    BY <1>2 DEF SearchFault
  <2>2. f \in Fault /\ (f = "invalid" => f \in Excused) /\ cur \in Call
    BY FaultsType DEF Excused, PTypeOK, Call
  <2>3. why' = [c \in Call |-> IF c \in {cur} THEN f ELSE why[c]]
    BY <2>1 DEF PTypeOK
  <2>4. (f \in Excused /\ UNCHANGED ch) \/ Send(Failed(f))
    BY <2>1, <2>2
  <2>5. ctx = "live" /\ UNCHANGED left
    BY <1>2 DEF SearchFault
  <2> QED
    BY <1>0, <2>2, <2>3, <2>4, <2>5, SafeFault
<1>3. ASSUME NEW e \in Enricher, EnrEmit(e) PROVE Safe(b)'
  <2>1. Listed(e) \in Call /\ Detail(Listed(e)) = "full"
    BY ListedIsCall DEF Detail
  <2> QED
    BY <1>0, <1>3, <2>1, SafeHand DEF EnrEmit
<1>4. ASSUME NEW e \in Enricher, EnrFault(e) PROVE Safe(b)'
  <2>1. PICK f \in FaultsOf(Listed(e)) :
          /\ why' = [c \in Call |-> IF c \in GivenUp(e) THEN f ELSE why[c]]
          /\ Send(Failed(f))
    BY <1>4 DEF EnrFault
  <2>2. f \in Fault
    BY FaultsType
  <2>3. ctx = "live" /\ UNCHANGED left
    BY <1>4 DEF EnrFault
  <2>4. why' = [c \in Call |-> IF c \in GivenUp(e) \cap Call THEN f ELSE why[c]]
    BY <2>1
  <2> QED
    BY <1>0, <2>1, <2>2, <2>3, <2>4, SafeFault
<1>5. CASE SearchDone \/ NextStubType \/ PhaseOneOver \/ LoopHead \/ AcquireSlot
             \/ AcquireCancelled \/ CloseChannel \/ Cancel
  BY <1>0, <1>5, SafeFrame DEF SearchDone, NextStubType, PhaseOneOver, LoopHead, AcquireSlot,
     AcquireCancelled, Spawn, CloseChannel, Cancel
<1>6. ASSUME NEW e \in Enricher, EnrStart(e) \/ EnrDone(e) \/ EnrRelease(e) PROVE Safe(b)'
  BY <1>0, <1>6, SafeFrame DEF EnrStart, EnrDone, EnrRelease
<1> QED
  BY <1>1, <1>2, <1>3, <1>4, <1>5, <1>6 DEF Beside, Lister, EnricherStep

\* Receiving a resource moves it from the channel into the batch.
LEMMA SafeReceive ==
  ASSUME PTypeOK, DTypeOK, DrainResource \/ DrainSkip, NEW b \in Call, Safe(b)
  PROVE  Safe(b)'
<1>1. /\ ch # <<>> /\ ch' = Tail(ch) /\ UNCHANGED <<left, why, rows>>
      /\ Head(ch).err \in {"none", "denied"}
  BY DEF DrainResource, DrainSkip, Receive, dvars
<1>2. /\ Head(ch) = ch[1] /\ ch[1] \in Item
      /\ \A i \in DOMAIN ch : i = 1 \/ (i - 1 \in DOMAIN ch' /\ ch'[i - 1] = ch[i])
  BY <1>1, TailElements DEF PTypeOK
<1>3. \A i \in DOMAIN batch : i \in DOMAIN batch' /\ batch'[i] = batch[i]
  <2>1. CASE DrainSkip
    BY <2>1 DEF DrainSkip, dvars
  <2>2. CASE DrainResource
    <3>1. Head(ch) \in Row
      BY <1>1, <1>2, <2>2, ItemFields DEF DrainResource
    <3> QED
      BY <2>2, <3>1, AppendElements DEF DrainResource, DTypeOK
  <2> QED
    BY <2>1, <2>2
<1>4. ch[1].ref \in Ref => \E i \in DOMAIN batch' : batch'[i] = ch[1]
  <2> SUFFICES ASSUME ch[1].ref \in Ref PROVE \E i \in DOMAIN batch' : batch'[i] = ch[1]
    OBVIOUS
  <2>1. ch[1] \in Row
    BY <1>2, ItemFields, ProviderAssumption
  <2>2. DrainResource
    BY <1>2, <2>1, ItemFields DEF DrainSkip
  <2> QED
    BY <1>2, <2>1, <2>2, AppendElements DEF DrainResource, DTypeOK
<1>5. ASSUME NEW q \in Ref, NEW d, Carried(q, d)
      PROVE  Carried(q, d)'
  <2>1. CASE Covers(rows[q], d)
    BY <1>1, <2>1 DEF Carried
  <2>2. ASSUME NEW i \in DOMAIN batch, batch[i].ref = q, Covers(batch[i].det, d)
        PROVE  Carried(q, d)'
    BY <1>3, <2>2 DEF Carried
  <2>3. ASSUME NEW i \in DOMAIN ch, ch[i].ref = q, Covers(ch[i].det, d)
        PROVE  Carried(q, d)'
    <3>1. CASE i = 1
      BY <1>4, <2>3, <3>1 DEF Carried
    <3>2. CASE i - 1 \in DOMAIN ch' /\ ch'[i - 1] = ch[i]
      BY <2>3, <3>2 DEF Carried
    <3> QED
      BY <1>2, <3>1, <3>2
  <2> QED
    BY <1>5, <2>1, <2>2, <2>3 DEF Carried
<1>6. Listing[b] \subseteq Ref
  BY ProviderAssumption
<1>7. why'[b] \in Excused \cup {"none"} \/ \E i \in DOMAIN ch' : ch'[i].err = why'[b]
  BY <1>1, <1>2 DEF Safe, Excused
<1> QED
  BY <1>1, <1>5, <1>6, <1>7 DEF Safe, Detail

\* A commit moves the resources of the batch into the table.
LEMMA CommitCarries ==
  ASSUME DTypeOK, TxInv, CommitChunk, NEW r \in Ref, NEW d, Covers(rows[r], d)
           \/ \E i \in DOMAIN batch : batch[i].ref = r /\ Covers(batch[i].det, d)
  PROVE  Covers(rows'[r], d)
<1>1. dpc = "insert" /\ wi = Len(batch) /\ rows' = tx /\ DOMAIN batch = 1 .. Len(batch)
  BY DEF CommitChunk, DTypeOK
<1>2. rows[r] \in Level
  BY DEF DTypeOK, Table
<1>3. CASE Covers(rows[r], d)
  BY <1>1, <1>2, <1>3, CoversTransitive DEF TxInv
<1>4. ASSUME NEW i \in DOMAIN batch, batch[i].ref = r, Covers(batch[i].det, d)
      PROVE  Covers(rows'[r], d)
  <2>1. batch[i].det \in Level
    BY <1>4, ItemFields DEF DTypeOK, Item, Level
  <2>2. Covers(tx[r], batch[i].det)
    BY <1>1, <1>4 DEF TxInv
  <2> QED
    BY <1>1, <1>4, <2>1, <2>2, CoversTransitive
<1> QED
  BY <1>3, <1>4

LEMMA SafeCommit ==
  ASSUME DTypeOK, TxInv, CommitChunk, NEW b \in Call, Safe(b)
  PROVE  Safe(b)'
<1>1. UNCHANGED <<left, why, ch>>
  BY DEF CommitChunk, pvars
<1>2. \A q \in Ref : \A d : Carried(q, d) => Carried(q, d)'
  BY <1>1, CommitCarries DEF Carried
<1>3. Listing[b] \subseteq Ref
  BY ProviderAssumption
<1> QED
  BY <1>1, <1>2, <1>3 DEF Safe, Detail

LEMMA NothingLostInit == Init => NothingLost
BY DEF Init, PInit, NothingLost

LEMMA NothingLostStep ==
  ASSUME PTypeOK, DTypeOK, TxInv, NothingLost, [Next]_vars
  PROVE  NothingLost'
<1> SUFFICES ASSUME ctx' = "live", dpc' \notin {"fail", "returned"}, NEW b \in Call
             PROVE  Safe(b)'
  BY DEF NothingLost, Safe
<1>1. CASE Beside
  <2>1. ctx = "live" /\ dpc \notin {"fail", "returned"}
    BY <1>1, StepIsProviderStep DEF Beside, dvars, Lister, EnricherStep, SearchEmit, SearchDone,
       SearchFault, NextStubType, PhaseOneOver, LoopHead, AcquireSlot, AcquireCancelled, Spawn,
       CloseChannel, EnrStart, EnrEmit, EnrDone, EnrFault, EnrRelease, Cancel
  <2> QED
    BY <1>1, <2>1, SafeBeside DEF NothingLost, Safe
<1>2. CASE DrainResource \/ DrainSkip
  <2>1. ctx = "live" /\ dpc \notin {"fail", "returned"}
    BY <1>2 DEF DrainResource, DrainSkip, Receive
  <2> QED
    BY <1>2, <2>1, SafeReceive DEF NothingLost, Safe
<1>3. CASE CommitChunk
  <2>1. ctx = "live" /\ dpc \notin {"fail", "returned"}
    BY <1>3 DEF CommitChunk
  <2> QED
    BY <1>3, <2>1, SafeCommit DEF NothingLost, Safe
<1>4. CASE DrainError \/ ChunkCancelled \/ ChunkFails \/ StartStreamFails \/ OpenRunFails
           \/ FinishOk \/ FinishOkFails \/ FinishFailed
  BY <1>4 DEF DrainError, ChunkCancelled, ChunkFails, FlushFailed, StartStreamFails, OpenRunFails,
     FinishOk, FinishOkFails, FinishFailed, Return, ReturnRefused
<1>5. CASE OpenRun \/ StartStream \/ DrainCancelled \/ DrainClosed \/ FlushEmpty \/ BeginChunk
           \/ InsertRow \/ UNCHANGED vars
  <2>1. ctx = "live" /\ dpc \notin {"fail", "returned"} /\ UNCHANGED <<left, why, ch, batch, rows>>
    BY <1>5 DEF OpenRun, StartStream, ListResources, DrainCancelled, DrainClosed, FlushEmpty,
       BeginChunk, InsertRow, vars, pvars, dvars
  <2> QED
    BY <2>1, SafeFrame DEF NothingLost, Safe
<1> QED
  BY <1>1, <1>2, <1>3, <1>4, <1>5 DEF Next, Drain

-----------------------------------------------------------------------------
(* The end of the scan.                                                    *)

\* Nothing moves in the provider once its channel is closed.
LEMMA ClosedFrozen ==
  ASSUME PTypeOK, PoolInv, lpc = "closed", Beside
  PROVE  UNCHANGED <<lpc, left, why, ch>>
<1>0. Len(Parts) \in Nat /\ Enricher = 1 .. Len(Parts)
  BY ProviderAssumption DEF Enricher
<1>1. ASSUME NEW e \in Enricher PROVE wk[e] \in {"idle", "done"}
  BY <1>0 DEF PoolInv, Spawned, PTypeOK
<1>2. ASSUME NEW e \in Enricher PROVE ~ EnricherStep(e)
  BY <1>1 DEF EnricherStep, EnrStart, EnrEmit, EnrDone, EnrFault, EnrRelease
<1>3. ~ Lister
  BY DEF Lister, SearchEmit, SearchDone, SearchFault, NextStubType, PhaseOneOver, LoopHead,
     AcquireSlot, AcquireCancelled, CloseChannel
<1> QED
  BY <1>2, <1>3 DEF Beside, Cancel

LEMMA LastFlushInit == Init => LastFlush
BY DEF Init, LastFlush

LEMMA LastFlushStep ==
  ASSUME PTypeOK, DTypeOK, PoolInv, LastFlush, [Next]_vars
  PROVE  LastFlush'
<1>1. CASE Beside
  <2>1. UNCHANGED <<dpc, after, status, batch>>
    BY <1>1 DEF Beside, dvars
  <2> QED
    BY <1>1, <2>1, ClosedFrozen DEF LastFlush
<1>2. CASE OpenRun \/ OpenRunFails \/ StartStream \/ StartStreamFails
  BY <1>2 DEF OpenRun, OpenRunFails, StartStream, StartStreamFails, Return, ReturnRefused, LastFlush
<1>3. CASE DrainCancelled \/ DrainClosed \/ DrainResource \/ DrainSkip \/ DrainError
  BY <1>3 DEF DrainCancelled, DrainClosed, DrainResource, DrainSkip, DrainError, Receive, Flush,
     Return, ReturnRefused, pvars, dvars, LastFlush
<1>4. CASE FlushEmpty \/ CommitChunk
  BY <1>4 DEF FlushEmpty, CommitChunk, AfterFlush, Return, ReturnRefused, pvars, LastFlush, DTypeOK
<1>5. CASE BeginChunk \/ InsertRow
  BY <1>5 DEF BeginChunk, InsertRow, pvars, LastFlush
<1>6. CASE ChunkCancelled \/ ChunkFails
  BY <1>6 DEF ChunkCancelled, ChunkFails, FlushFailed, Return, ReturnRefused, LastFlush
<1>7. CASE FinishOk \/ FinishOkFails \/ FinishFailed
  BY <1>7 DEF FinishOk, FinishOkFails, FinishFailed, Return, ReturnRefused, pvars, LastFlush
<1>8. CASE UNCHANGED vars
  BY <1>8 DEF vars, pvars, dvars, LastFlush
<1> QED
  BY <1>1, <1>2, <1>3, <1>4, <1>5, <1>6, <1>7, <1>8 DEF Next, Drain

\* At FinishRun every listing is in the table or excused.
LEMMA CompleteAtFinish ==
  ASSUME PTypeOK, PoolInv, ProgressInv, NothingLost, LastFlush, dpc = "finish", ctx = "live",
         NEW c \in Call
  PROVE  \/ why[c] \in Excused
         \/ why[c] = "none" /\ \A r \in Listing[c] : Covers(rows[r], Detail(c))
<1>1. lpc = "closed" /\ ch = <<>> /\ batch = <<>>
  BY DEF LastFlush
<1>2. left[c] = {} \/ why[c] # "none"
  BY <1>1, ClosedComplete DEF ClosedIsComplete, Settled
<1>3. why[c] \in Excused \cup {"none"}
  BY <1>1 DEF NothingLost
<1>4. why[c] = "none" => \A r \in Listing[c] : Covers(rows[r], Detail(c))
  BY <1>1, <1>2 DEF NothingLost, Carried
<1> QED
  BY <1>3, <1>4

LEMMA OkStep ==
  ASSUME PTypeOK, PoolInv, ProgressInv, NothingLost, LastFlush, OkRunComplete, [Next]_vars
  PROVE  OkRunComplete'
<1> SUFFICES ASSUME status' = "ok", NEW c \in Call
             PROVE  \/ why'[c] \in Excused
                    \/ why'[c] = "none" /\ \A r \in Listing[c] : Covers(rows'[r], Detail(c))
  BY DEF OkRunComplete, Detail
<1>1. CASE status = "ok"
  <2>1. lpc = "closed" /\ dpc = "returned"
    BY <1>1 DEF LastFlush
  <2>2. Beside \/ UNCHANGED vars
    BY <2>1 DEF Next, Drain, OpenRun, OpenRunFails, StartStream, StartStreamFails, DrainCancelled,
       DrainClosed, DrainResource, DrainSkip, DrainError, FlushEmpty, BeginChunk, InsertRow,
       CommitChunk, ChunkCancelled, ChunkFails, FinishOk, FinishOkFails, FinishFailed
  <2>3. UNCHANGED <<why, rows>>
    BY <2>1, <2>2, ClosedFrozen DEF Beside, vars, pvars, dvars
  <2> QED
    BY <1>1, <2>3 DEF OkRunComplete
<1>2. CASE status # "ok"
  <2>1. FinishOk
    BY <1>2 DEF Next, Drain, OpenRun, OpenRunFails, StartStream, StartStreamFails, DrainCancelled,
       DrainClosed, DrainResource, DrainSkip, DrainError, FlushEmpty, BeginChunk, InsertRow,
       CommitChunk, ChunkCancelled, ChunkFails, FinishOkFails, FinishFailed, Beside, vars, dvars
  <2>2. dpc = "finish" /\ ctx = "live" /\ UNCHANGED <<why, rows>>
    BY <2>1 DEF FinishOk, pvars
  <2> QED
    BY <2>2, CompleteAtFinish
<1> QED
  BY <1>1, <1>2

\* A run is marked "ok" only when its rows are the complete answer of every
\* listing that was not denied or unsearchable.
THEOREM OkMeansComplete == Spec => []OkRunComplete
<1> DEFINE Inv == /\ PTypeOK /\ DTypeOK /\ PoolInv /\ ProgressInv
                  /\ OrderInv /\ TxInv /\ NothingLost /\ LastFlush /\ OkRunComplete
<1>1. Init => Inv
  <2>1. Init => OkRunComplete
    BY DEF Init, OkRunComplete
  <2> QED
    BY <2>1, PTypeInit, DTypeInit, PoolInit, ProgressInit, OrderInit, NothingLostInit,
       LastFlushInit DEF Init
<1>2. Inv /\ [Next]_vars => Inv'
  BY StepIsProviderStep, PTypeStep, DTypeStep, PoolStep, ProgressStep, OrderStep, TxStep,
     NothingLostStep, LastFlushStep, OkStep
<1> QED
  BY <1>1, <1>2, PTL DEF Spec

-----------------------------------------------------------------------------
(* What readers of the database see.                                       *)

LEMMA RunRowInit == Init => RunRow
BY DEF Init, RunRow

LEMMA RunRowStep ==
  ASSUME DTypeOK, RunRow, [Next]_vars
  PROVE  RunRow'
<1>1. CASE OpenRun \/ OpenRunFails \/ StartStream \/ StartStreamFails
  BY <1>1 DEF OpenRun, OpenRunFails, StartStream, StartStreamFails, Return, ReturnRefused, RunRow
<1>2. CASE DrainCancelled \/ DrainClosed \/ DrainResource \/ DrainSkip \/ DrainError
  BY <1>2 DEF DrainCancelled, DrainClosed, DrainResource, DrainSkip, DrainError, Flush, Return, ReturnRefused,
     dvars, RunRow
<1>3. CASE FlushEmpty \/ BeginChunk \/ InsertRow \/ CommitChunk
  BY <1>3 DEF FlushEmpty, BeginChunk, InsertRow, CommitChunk, AfterFlush, Return, ReturnRefused, RunRow,
     DTypeOK
<1>4. CASE ChunkCancelled \/ ChunkFails
  BY <1>4 DEF ChunkCancelled, ChunkFails, FlushFailed, Return, ReturnRefused, RunRow
<1>5. CASE FinishOk \/ FinishOkFails \/ FinishFailed
  BY <1>5 DEF FinishOk, FinishOkFails, FinishFailed, Return, ReturnRefused, RunRow
<1>6. CASE Beside \/ UNCHANGED vars
  BY <1>6 DEF Beside, vars, dvars, RunRow
<1> QED
  BY <1>1, <1>2, <1>3, <1>4, <1>5, <1>6 DEF Next, Drain

LEMMA LedgerStep ==
  ASSUME DTypeOK, DTypeOK', TxInv, RunRow, [Next]_vars
  PROVE  [Ledger!LNext]_<<status, rows>>
<1>1. CASE OpenRun
  BY <1>1 DEF OpenRun, RunRow, Ledger!LNext, Ledger!Open
<1>2. CASE CommitChunk
  <2>1. status = "running" /\ UNCHANGED status /\ rows' \in [Ref -> {"none", "stub", "full"}]
    BY <1>2 DEF CommitChunk, RunRow, DTypeOK, Table, Level
  <2>2. \A r \in Ref : Ledger!AtLeast(rows'[r], rows[r])
    BY RowsGrow DEF Covers, Ledger!AtLeast
  <2> QED
    BY <2>1, <2>2 DEF Ledger!LNext, Ledger!Write
<1>3. CASE FinishOk \/ FinishFailed
  BY <1>3 DEF FinishOk, FinishFailed, RunRow, Ledger!LNext, Ledger!Finish
<1>4. CASE OpenRunFails \/ StartStream \/ StartStreamFails \/ DrainCancelled \/ DrainClosed
           \/ DrainResource \/ DrainSkip \/ DrainError
  BY <1>4 DEF OpenRunFails, StartStream, StartStreamFails, DrainCancelled, DrainClosed,
     DrainResource, DrainSkip, DrainError, dvars
<1>5. CASE FlushEmpty \/ BeginChunk \/ InsertRow \/ ChunkCancelled \/ ChunkFails \/ FinishOkFails
  BY <1>5 DEF FlushEmpty, BeginChunk, InsertRow, ChunkCancelled, ChunkFails, FinishOkFails
<1>6. CASE Beside \/ UNCHANGED vars
  BY <1>6 DEF Beside, vars, dvars
<1> QED
  BY <1>1, <1>2, <1>3, <1>4, <1>5, <1>6 DEF Next, Drain

\* To readers of the database a scan is a run that is opened once, whose rows
\* only gain detail, and which its one final status seals.
THEOREM ScanImplementsLedger == Spec => ImplementsLedger
<1> DEFINE Inv == PTypeOK /\ DTypeOK /\ PoolInv /\ OrderInv /\ TxInv /\ RunRow
<1>1. Init => Inv
  BY PTypeInit, DTypeInit, PoolInit, OrderInit, RunRowInit DEF Init
<1>2. Inv /\ [Next]_vars => Inv'
  BY StepIsProviderStep, PTypeStep, DTypeStep, PoolStep, OrderStep, TxStep, RunRowStep
<1>3. Init => Ledger!LInit
  BY DEF Init, Ledger!LInit
<1>4. Inv /\ Inv' /\ [Next]_vars => [Ledger!LNext]_<<status, rows>>
  BY LedgerStep
<1> QED
  BY <1>1, <1>2, <1>3, <1>4, PTL DEF Spec, ImplementsLedger, Ledger!LSpec

-----------------------------------------------------------------------------
(* What an interrupted or failed scan may lose.                            *)

LEMMA ReceivedInit == Init => ReceivedKept
BY DEF Init, ReceivedKept, Covers

LEMMA ReceivedStep ==
  ASSUME PTypeOK, DTypeOK, TxInv, ReceivedKept, [Next]_vars
  PROVE  ReceivedKept'
<1>1. CASE DrainResource
  <2>1. /\ ch # <<>> /\ batch' = Append(batch, Head(ch)) /\ rows' = rows
        /\ got' = [got EXCEPT ![Head(ch).ref] = IF @ = "full" THEN @ ELSE Head(ch).det]
    BY <1>1 DEF DrainResource, Receive
  <2>2. Head(ch) \in Row
    BY <1>1, <2>1, ItemFields DEF DrainResource, PTypeOK
  <2>3. Head(ch).ref \in Ref /\ Head(ch).det \in {"stub", "full"}
    BY <2>2, ItemFields DEF Item
  <2>4. /\ \A i \in DOMAIN batch : i \in DOMAIN batch' /\ batch'[i] = batch[i]
        /\ Len(batch) + 1 \in DOMAIN batch' /\ batch'[Len(batch) + 1] = Head(ch)
    BY <2>1, <2>2, AppendElements DEF DTypeOK
  <2> SUFFICES ASSUME NEW r \in Ref
               PROVE  \/ Covers(rows[r], got'[r])
                      \/ \E i \in DOMAIN batch' : batch'[i].ref = r /\ Covers(batch'[i].det, got'[r])
    BY <2>1 DEF ReceivedKept
  <2>5. CASE got'[r] = got[r]
    BY <2>4, <2>5 DEF ReceivedKept
  <2>6. CASE r = Head(ch).ref /\ got'[r] = Head(ch).det
    BY <2>3, <2>4, <2>6 DEF Covers
  <2> QED
    BY <2>1, <2>3, <2>5, <2>6 DEF DTypeOK, Table
<1>2. CASE CommitChunk
  <2>1. got' = got
    BY <1>2 DEF CommitChunk
  <2> QED
    BY <1>2, <2>1, CommitCarries DEF ReceivedKept
<1>3. CASE ~ DrainResource /\ ~ CommitChunk
  <2>1. UNCHANGED <<batch, rows, got>>
    BY <1>3 DEF Next, Drain, OpenRun, OpenRunFails, StartStream, StartStreamFails, DrainCancelled,
       DrainClosed, DrainSkip, DrainError, FlushEmpty, BeginChunk, InsertRow, ChunkCancelled,
       ChunkFails, FinishOk, FinishOkFails, FinishFailed, Beside, vars, dvars
  <2> QED
    BY <2>1 DEF ReceivedKept
<1> QED
  BY <1>1, <1>2, <1>3

LEMMA RiskBound ==
  ASSUME DTypeOK, ReceivedKept
  PROVE  AtMostOneBatchAtRisk
<1> DEFINE lost == {r \in Ref : ~ Covers(rows[r], got[r])}
<1> DEFINE refs == {batch[i].ref : i \in 1 .. Len(batch)}
<1>1. Len(batch) \in Nat /\ Len(batch) <= ScanBatch /\ DOMAIN batch = 1 .. Len(batch)
  BY DEF DTypeOK
<1>2. lost \subseteq refs
  BY <1>1 DEF ReceivedKept
<1>3. IsFiniteSet(refs) /\ Cardinality(refs) <= Len(batch)
  <2> DEFINE f == [i \in 1 .. Len(batch) |-> batch[i].ref]
  <2>1. f \in Surjection(1 .. Len(batch), refs)
    BY DEF Surjection
  <2>2. IsFiniteSet(1 .. Len(batch)) /\ Cardinality(1 .. Len(batch)) = Len(batch)
    <3>1. /\ IsFiniteSet(1 .. Len(batch))
          /\ Cardinality(1 .. Len(batch)) = IF 1 > Len(batch) THEN 0 ELSE Len(batch) - 1 + 1
      BY <1>1, FS_Interval
    <3>2. Len(batch) = IF 1 > Len(batch) THEN 0 ELSE Len(batch) - 1 + 1
      BY <1>1
    <3> QED
      BY <3>1, <3>2
  <2> HIDE DEF f, refs
  <2> QED
    BY <2>1, <2>2, FS_Surjection
<1>4. Cardinality(lost) <= Cardinality(refs) /\ Cardinality(lost) \in Nat /\ Cardinality(refs) \in Nat
  <2> HIDE DEF lost, refs
  <2> QED
    BY <1>2, <1>3, FS_Subset, FS_CardinalityType
<1> QED
  BY <1>1, <1>3, <1>4, ScanAssumption DEF AtMostOneBatchAtRisk

\* However a scan ends, no more received resources than fit in a batch are
\* missing from the table.
THEOREM RiskIsBounded == Spec => []AtMostOneBatchAtRisk
<1> DEFINE Inv == PTypeOK /\ DTypeOK /\ PoolInv /\ OrderInv /\ TxInv /\ ReceivedKept
<1>1. Init => Inv
  BY PTypeInit, DTypeInit, PoolInit, OrderInit, ReceivedInit DEF Init
<1>2. Inv /\ [Next]_vars => Inv'
  BY StepIsProviderStep, PTypeStep, DTypeStep, PoolStep, OrderStep, TxStep, ReceivedStep
<1>3. Inv => AtMostOneBatchAtRisk
  BY RiskBound
<1> QED
  BY <1>1, <1>2, <1>3, PTL DEF Spec

-----------------------------------------------------------------------------
(* What the caller of a scan may rely on.                                  *)

\* A cancellation in the channel comes from a cancelled context.
LEMMA SentCancel ==
  ASSUME PTypeOK, PoolInv, Beside
  PROVE  /\ ctx = "cancelled" => ctx' = "cancelled"
         /\ \/ ch' = ch
            \/ \E x \in Item : ch' = Append(ch, x) /\ (x.err = "canceled" => ctx = "cancelled")
<1>1. ASSUME NEW c \in Call, NEW d \in {"stub", "full"}, Hand(c, d)
      PROVE  ch' = ch \/ \E x \in Item : ch' = Append(ch, x) /\ x.err # "canceled"
  <2>1. PICK r \in left[c] : Send(Found(r, d))
    BY <1>1 DEF Hand
  <2>2. Found(r, d) \in Item /\ Found(r, d).err # "canceled"
    BY DEF PTypeOK, Found, Item, Row
  <2> QED
    BY <2>1, <2>2 DEF Send
<1>2. ASSUME NEW c, NEW f \in FaultsOf(c), Send(Failed(f))
      PROVE  ch' = ch \/ \E x \in Item : ch' = Append(ch, x) /\ (x.err = "canceled" => ctx = "cancelled")
  <2>1. Failed(f) \in Item
    BY FaultsType, FailedType
  <2>2. Failed(f).err = "canceled" => ctx = "cancelled"
    BY DEF Failed, FaultsOf
  <2> QED
    BY <1>2, <2>1, <2>2 DEF Send
<1>3. CASE SearchEmit
  BY <1>1, <1>3 DEF SearchEmit, PTypeOK, Call
<1>4. CASE SearchFault
  BY <1>2, <1>4 DEF SearchFault
<1>5. ASSUME NEW e \in Enricher, EnrEmit(e) \/ EnrFault(e)
      PROVE  /\ ctx' = ctx
             /\ \/ ch' = ch
                \/ \E x \in Item : ch' = Append(ch, x) /\ (x.err = "canceled" => ctx = "cancelled")
  BY <1>1, <1>2, <1>5, ListedIsCall DEF EnrEmit, EnrFault, Call
<1>6. CASE SearchDone \/ NextStubType \/ PhaseOneOver \/ LoopHead \/ AcquireSlot
             \/ AcquireCancelled \/ CloseChannel \/ Cancel
  BY <1>6 DEF SearchDone, NextStubType, PhaseOneOver, LoopHead, AcquireSlot, AcquireCancelled,
     Spawn, CloseChannel, Cancel
<1>7. ASSUME NEW e \in Enricher, EnrStart(e) \/ EnrDone(e) \/ EnrRelease(e)
      PROVE  ctx' = ctx /\ ch' = ch
  BY <1>7 DEF EnrStart, EnrDone, EnrRelease
<1>8. SearchEmit \/ SearchFault => ctx' = ctx
  BY DEF SearchEmit, SearchFault
<1> QED
  BY <1>3, <1>4, <1>5, <1>6, <1>7, <1>8 DEF Beside, Lister, EnricherStep

LEMMA CancelInit == Init => CancelInv
BY DEF Init, PInit, CancelInv

LEMMA CancelStep ==
  ASSUME PTypeOK, DTypeOK, PoolInv, CancelInv, [Next]_vars
  PROVE  CancelInv' /\ (ctx = "cancelled" => ctx' = "cancelled")
<1>1. CASE Beside
  <2>1. UNCHANGED <<dpc, after>>
    BY <1>1 DEF Beside, dvars
  <2>2. CASE ch' = ch
    BY <1>1, <2>1, <2>2, SentCancel DEF CancelInv
  <2>3. ASSUME NEW x \in Item, ch' = Append(ch, x), x.err = "canceled" => ctx = "cancelled"
        PROVE  CancelInv'
    BY <1>1, <2>1, <2>3, SentCancel, AppendElements DEF CancelInv, PTypeOK
  <2> QED
    BY <1>1, <2>2, <2>3, SentCancel
<1>2. CASE DrainResource \/ DrainSkip \/ DrainError
  <2>1. ch # <<>> /\ ch' = Tail(ch) /\ ctx' = ctx
    BY <1>2 DEF DrainResource, DrainSkip, DrainError, Receive
  <2>2. dpc' \in {"begin", "insert"} => dpc' = "begin" /\ after' = "continue"
    BY <1>2 DEF DrainResource, DrainSkip, DrainError, Return, Flush, dvars
  <2> QED
    BY <2>1, <2>2, TailElements DEF CancelInv, PTypeOK
<1>3. CASE \/ OpenRun \/ OpenRunFails \/ StartStream \/ StartStreamFails \/ DrainCancelled
           \/ DrainClosed \/ UNCHANGED vars
  BY <1>3 DEF OpenRun, OpenRunFails, StartStream, StartStreamFails, DrainCancelled, DrainClosed,
     ListResources, Return, ReturnRefused, Flush, pvars, vars, dvars, CancelInv
<1>4. CASE FlushEmpty \/ BeginChunk \/ InsertRow \/ CommitChunk \/ ChunkCancelled \/ ChunkFails
  BY <1>4 DEF FlushEmpty, BeginChunk, InsertRow, CommitChunk, ChunkCancelled, ChunkFails, AfterFlush,
     FlushFailed, Return, pvars, CancelInv, DTypeOK
<1>5. CASE FinishOk \/ FinishOkFails \/ FinishFailed
  BY <1>5 DEF FinishOk, FinishOkFails, FinishFailed, Return, ReturnRefused, pvars, CancelInv
<1> QED
  BY <1>1, <1>2, <1>3, <1>4, <1>5 DEF Next, Drain

LEMMA OutcomeStep ==
  ASSUME PTypeOK, DTypeOK, DTypeOK', RunRow, CancelInv, ctx = "cancelled" => ctx' = "cancelled",
         ReturnsOutcome, [Next]_vars
  PROVE  ReturnsOutcome'
<1> USE DEF ReturnsOutcome, Outcome, Outcomes
<1>1. CASE OpenRun \/ OpenRunFails \/ StartStream \/ StartStreamFails
  BY <1>1 DEF OpenRun, OpenRunFails, StartStream, StartStreamFails, Return, ReturnRefused, RunRow, pvars
<1>2. CASE DrainCancelled \/ DrainClosed \/ DrainResource \/ DrainSkip
  BY <1>2 DEF DrainCancelled, DrainClosed, DrainResource, DrainSkip, Flush, dvars
<1>3. CASE DrainError
  <2>1. ch # <<>> /\ ctx' = ctx /\ status' = status /\ status = "running"
    BY <1>3 DEF DrainError, Receive, RunRow
  <2>2. Head(ch).err = "canceled" => ctx = "cancelled"
    BY <2>1, TailElements DEF CancelInv, PTypeOK
  <2> QED
    BY <1>3, <2>1, <2>2 DEF DrainError, Return
<1>4. CASE FlushEmpty \/ BeginChunk \/ InsertRow \/ CommitChunk
  BY <1>4 DEF FlushEmpty, BeginChunk, InsertRow, CommitChunk, AfterFlush, Return, RunRow, CancelInv,
     DTypeOK, pvars
<1>5. CASE ChunkCancelled \/ ChunkFails
  BY <1>5 DEF ChunkCancelled, ChunkFails, FlushFailed, Return, RunRow, CancelInv, pvars
<1>6. CASE FinishOk \/ FinishOkFails \/ FinishFailed
  BY <1>6 DEF FinishOk, FinishOkFails, FinishFailed, Return, ReturnRefused, RunRow, pvars
<1>7. CASE Beside \/ UNCHANGED vars
  <2>1. UNCHANGED <<dpc, result, status>>
    BY <1>7 DEF Beside, vars, dvars
  <2> QED
    BY <1>7, <2>1
<1> QED
  BY <1>1, <1>2, <1>3, <1>4, <1>5, <1>6, <1>7 DEF Next, Drain

\* The error a scan returns and the status it leaves in the run row are one of
\* the pairs RunOutcome lists, which is all that runScanMany needs to know.
THEOREM ScanReturnsOutcome == Spec => []ReturnsOutcome
<1> DEFINE Inv == PTypeOK /\ DTypeOK /\ PoolInv /\ RunRow /\ CancelInv /\ ReturnsOutcome
<1>1. Init => Inv
  BY PTypeInit, DTypeInit, PoolInit, RunRowInit, CancelInit DEF Init, ReturnsOutcome
<1>2. Inv /\ [Next]_vars => Inv'
  <2>1. Inv /\ [Next]_vars => PTypeOK' /\ DTypeOK' /\ PoolInv'
    BY StepIsProviderStep, PTypeStep, DTypeStep, PoolStep
  <2>2. Inv /\ [Next]_vars => RunRow' /\ CancelInv' /\ (ctx = "cancelled" => ctx' = "cancelled")
    BY RunRowStep, CancelStep
  <2> QED
    BY <2>1, <2>2, OutcomeStep
<1>3. Inv => ReturnsOutcome
  OBVIOUS
<1> QED
  BY <1>1, <1>2, <1>3, PTL DEF Spec
=============================================================================
