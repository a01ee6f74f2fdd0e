------------------------------ MODULE Provider ------------------------------
(***************************************************************************)
(* GCPProvider.ListResources: one goroutine (the lister) streams the       *)
(* resources of a scope over a bounded channel.  Phase 1 searches Cloud    *)
(* Asset Inventory and emits a stub per resource; phase 2 fans the         *)
(* per-kind enrichers out over at most EnrichCap goroutines, which emit    *)
(* the detailed rows.  The lister closes the channel when both are over.   *)
(*                                                                         *)
(* A call is one remote listing.  Fetching an item and sending it is one   *)
(* step: an item in hand is not distinguished from one not fetched yet.    *)
(* The order of a listing and of a Go map's iteration is arbitrary.        *)
(***************************************************************************)
EXTENDS Naturals, Sequences, FiniteSets

CONSTANTS
  Ref,         \* resource references of the scope
  NoRef,       \* the zero Resource that accompanies an error
  Strict,      \* the one search for the asset types of the IaaS kinds
  StubType,    \* stub-only asset types, one graceful search each
  EnrCall,     \* the listings the enrichers make
  Parts,       \* Parts[e]: the listings of the e-th enricher, in order
  Tolerant,    \* enrichers whose next listing runs although one failed
  Listing,     \* Listing[c]: the resources a complete answer to c holds
  ApiFault,    \* the kinds of failure the remote calls may meet
  EnrichCap,   \* enrichConcurrency
  ChanCap      \* capacity of the channel

Call == {Strict} \cup StubType \cup EnrCall

Enricher == DOMAIN Parts

\* "denied" is what IsRecoverableScanErr accepts; "invalid" is the
\* InvalidArgument of an unsearchable asset type; "canceled" wraps
\* context.Canceled, "rpcCanceled" is a gRPC status with code Canceled.
Fault == {"denied", "invalid", "fatal", "canceled", "rpcCanceled"}

ASSUME ProviderAssumption ==
  /\ NoRef \notin Ref
  /\ EnrCall \cap ({Strict} \cup StubType) = {}
  /\ Parts \in Seq(Seq(EnrCall) \ {<<>>})
  /\ \A c \in EnrCall : \E e \in Enricher : \E k \in DOMAIN Parts[e] : Parts[e][k] = c
  /\ Tolerant \subseteq Enricher
  /\ Listing \in [Call -> SUBSET Ref]
  /\ ApiFault \subseteq Fault
  /\ EnrichCap \in Nat \ {0}
  /\ ChanCap \in Nat \ {0}

VARIABLES
  ctx,         \* the scan's context: "live" or "cancelled"
  lpc,         \* where the lister is
  cur,         \* the phase 1 search in progress
  stubTodo,    \* stub-only asset types not searched yet
  nxt,         \* the next enricher to spawn
  sem,         \* tokens in the semaphore channel
  wk,          \* wk[e]: where the goroutine of enricher e is
  part,        \* part[e]: the listing enricher e is at
  left,        \* left[c]: the resources call c has not handed over
  why,         \* why[c]: how call c failed, "none" if it has not
  ch           \* the channel's buffer

pvars == <<ctx, lpc, cur, stubTodo, nxt, sem, wk, part, left, why, ch>>

Found(r, d) == [err |-> "none", ref |-> r, det |-> d]
Failed(f)   == [err |-> f, ref |-> NoRef, det |-> "none"]

Row  == {Found(r, d) : r \in Ref, d \in {"stub", "full"}}
Item == Row \cup {Failed(f) : f \in Fault}

PTypeOK ==
  /\ ctx \in {"live", "cancelled"}
  /\ lpc \in {"off", "search", "stubs", "loop", "select", "wait", "closed"}
  /\ cur \in {Strict} \cup StubType
  /\ stubTodo \subseteq StubType
  /\ nxt \in 1 .. Len(Parts) + 1
  /\ lpc = "select" => nxt \in Enricher
  /\ sem \in 0 .. EnrichCap
  /\ wk \in [Enricher -> {"idle", "ready", "run", "release", "done"}]
  /\ part \in [Enricher -> Nat \ {0}]
  /\ \A e \in Enricher : part[e] \in DOMAIN Parts[e]
  /\ left \in [Call -> SUBSET Ref]
  /\ why \in [Call -> {"none"} \cup Fault]
  /\ ch \in Seq(Item)
  /\ Len(ch) <= ChanCap

PInit ==
  /\ ctx = "live"
  /\ lpc = "off"
  /\ cur = Strict
  /\ stubTodo = StubType
  /\ nxt = 1
  /\ sem = 0
  /\ wk = [e \in Enricher |-> "idle"]
  /\ part = [e \in Enricher |-> 1]
  /\ left = Listing
  /\ why = [c \in Call |-> "none"]
  /\ ch = <<>>

-----------------------------------------------------------------------------
(* The channel, and what a remote call does.                               *)

\* sendOrCancel: waits for room, or gives the item up once cancelled.
Send(x) ==
  \/ Len(ch) < ChanCap /\ ch' = Append(ch, x)
  \/ ctx = "cancelled" /\ UNCHANGED ch

\* One more resource of call c, handed over with detail d.
Hand(c, d) ==
  \E r \in left[c] :
    /\ left' = [left EXCEPT ![c] = @ \ {r}]
    /\ Send(Found(r, d))
    /\ UNCHANGED why

\* The failures call c may meet: InvalidArgument is told apart from other
\* errors for a graceful search only, and a call fails with a cancellation
\* once the scan is cancelled.
FaultsOf(c) ==
  {f \in ApiFault :
     /\ f = "invalid" => c \in StubType
     /\ f \in {"canceled", "rpcCanceled"} => ctx = "cancelled"}

-----------------------------------------------------------------------------
(* The lister: phase 1, the enricher loop, the close.                      *)

ListResources ==
  /\ lpc = "off"
  /\ lpc' = "search"
  /\ UNCHANGED <<ctx, cur, stubTodo, nxt, sem, wk, part, left, why, ch>>

SearchEmit ==
  /\ lpc = "search"
  /\ Hand(cur, "stub")
  /\ UNCHANGED <<ctx, lpc, cur, stubTodo, nxt, sem, wk, part>>

SearchDone ==
  /\ lpc = "search"
  /\ left[cur] = {}
  /\ lpc' = "stubs"
  /\ UNCHANGED <<ctx, cur, stubTodo, nxt, sem, wk, part, left, why, ch>>

\* A graceful search drops InvalidArgument; any other error is sent.
SearchFault ==
  /\ lpc = "search"
  /\ \E f \in FaultsOf(cur) :
       /\ why' = [why EXCEPT ![cur] = f]
       /\ IF f = "invalid" THEN UNCHANGED ch ELSE Send(Failed(f))
  /\ lpc' = "stubs"
  /\ UNCHANGED <<ctx, cur, stubTodo, nxt, sem, wk, part, left>>

NextStubType ==
  /\ lpc = "stubs"
  /\ ctx = "live"
  /\ \E s \in stubTodo :
       /\ cur' = s
       /\ stubTodo' = stubTodo \ {s}
  /\ lpc' = "search"
  /\ UNCHANGED <<ctx, nxt, sem, wk, part, left, why, ch>>

\* Mutant of PhaseOneOver: leaves phase 1 after the strict search.
PhaseOneCutShort ==
  /\ lpc = "stubs"
  /\ lpc' = "loop"
  /\ UNCHANGED <<ctx, cur, stubTodo, nxt, sem, wk, part, left, why, ch>>

PhaseOneOver ==
  /\ lpc = "stubs"
  /\ stubTodo = {} \/ ctx = "cancelled"
  /\ lpc' = "loop"
  /\ UNCHANGED <<ctx, cur, stubTodo, nxt, sem, wk, part, left, why, ch>>

\* The head of the loop of runEnrichersWith.
LoopHead ==
  /\ lpc = "loop"
  /\ lpc' = IF ctx = "cancelled" \/ nxt > Len(Parts) THEN "wait" ELSE "select"
  /\ UNCHANGED <<ctx, cur, stubTodo, nxt, sem, wk, part, left, why, ch>>

Spawn ==
  /\ wk' = [wk EXCEPT ![nxt] = "ready"]
  /\ nxt' = nxt + 1
  /\ lpc' = "loop"
  /\ UNCHANGED <<ctx, cur, stubTodo, part, left, why, ch>>

AcquireSlot ==
  /\ lpc = "select"
  /\ sem < EnrichCap
  /\ sem' = sem + 1
  /\ Spawn

\* The select's other case: its break leaves the select and not the loop,
\* so the goroutine is spawned without a token.
AcquireCancelled ==
  /\ lpc = "select"
  /\ ctx = "cancelled"
  /\ UNCHANGED sem
  /\ Spawn

\* Mutant of CloseChannel: closes without waiting for the WaitGroup.
CloseWithoutWait ==
  /\ lpc = "wait"
  /\ lpc' = "closed"
  /\ UNCHANGED <<ctx, cur, stubTodo, nxt, sem, wk, part, left, why, ch>>

\* wg.Wait returns, then the deferred close runs.
CloseChannel ==
  /\ lpc = "wait"
  /\ \A e \in Enricher : e < nxt => wk[e] = "done"
  /\ lpc' = "closed"
  /\ UNCHANGED <<ctx, cur, stubTodo, nxt, sem, wk, part, left, why, ch>>

Lister ==
  \/ SearchEmit \/ SearchDone \/ SearchFault \/ NextStubType \/ PhaseOneOver
  \/ LoopHead \/ AcquireSlot \/ AcquireCancelled \/ CloseChannel

-----------------------------------------------------------------------------
(* One enricher goroutine.                                                 *)

Listed(e) == Parts[e][part[e]]

\* The listings an enricher gives up when the one it is at fails.
GivenUp(e) ==
  IF e \in Tolerant
  THEN {Listed(e)}
  ELSE {Parts[e][k] : k \in {j \in DOMAIN Parts[e] : part[e] <= j}}

\* Mutant of EnrStart: the goroutine does not look at the context first.
EnrStartUnchecked(e) ==
  /\ wk[e] = "ready"
  /\ wk' = [wk EXCEPT ![e] = "run"]
  /\ UNCHANGED <<ctx, lpc, cur, stubTodo, nxt, sem, part, left, why, ch>>

EnrStart(e) ==
  /\ wk[e] = "ready"
  /\ wk' = [wk EXCEPT ![e] = IF ctx = "cancelled" THEN "release" ELSE "run"]
  /\ UNCHANGED <<ctx, lpc, cur, stubTodo, nxt, sem, part, left, why, ch>>

\* Mutant of EnrEmit: the enricher also emits stubs of what it only saw in
\* passing, as enrichVMs did for disks ("all disks 0 GB").
EnrEmitStubsToo(e) ==
  /\ wk[e] = "run"
  /\ \/ Hand(Listed(e), "full")
     \/ \E r \in Ref : Send(Found(r, "stub")) /\ UNCHANGED <<left, why>>
  /\ UNCHANGED <<ctx, lpc, cur, stubTodo, nxt, sem, wk, part>>

EnrEmit(e) ==
  /\ wk[e] = "run"
  /\ Hand(Listed(e), "full")
  /\ UNCHANGED <<ctx, lpc, cur, stubTodo, nxt, sem, wk, part>>

\* Go on with the next listing, or return from the enricher.
Advance(e, stop) ==
  IF part[e] = Len(Parts[e]) \/ stop
  THEN wk' = [wk EXCEPT ![e] = "release"] /\ UNCHANGED part
  ELSE part' = [part EXCEPT ![e] = @ + 1] /\ UNCHANGED wk

EnrDone(e) ==
  /\ wk[e] = "run"
  /\ left[Listed(e)] = {}
  /\ Advance(e, e \in Tolerant /\ ctx = "cancelled")
  /\ UNCHANGED <<ctx, lpc, cur, stubTodo, nxt, sem, left, why, ch>>

EnrFault(e) ==
  /\ wk[e] = "run"
  /\ \E f \in FaultsOf(Listed(e)) :
       /\ why' = [c \in Call |-> IF c \in GivenUp(e) THEN f ELSE why[c]]
       /\ Send(Failed(f))
  /\ Advance(e, e \notin Tolerant \/ ctx = "cancelled")
  /\ UNCHANGED <<ctx, lpc, cur, stubTodo, nxt, sem, left>>

\* The deferred <-sem, which blocks on an empty channel, then wg.Done.
EnrRelease(e) ==
  /\ wk[e] = "release"
  /\ sem > 0
  /\ sem' = sem - 1
  /\ wk' = [wk EXCEPT ![e] = "done"]
  /\ UNCHANGED <<ctx, lpc, cur, stubTodo, nxt, part, left, why, ch>>

EnricherStep(e) ==
  EnrStart(e) \/ EnrEmit(e) \/ EnrDone(e) \/ EnrFault(e) \/ EnrRelease(e)

-----------------------------------------------------------------------------
(* The environment: a signal, and a reader that keeps reading.             *)

Cancel ==
  /\ ctx = "live"
  /\ ctx' = "cancelled"
  /\ UNCHANGED <<lpc, cur, stubTodo, nxt, sem, wk, part, left, why, ch>>

Receive ==
  /\ ch # <<>>
  /\ ch' = Tail(ch)
  /\ UNCHANGED <<ctx, lpc, cur, stubTodo, nxt, sem, wk, part, left, why>>

PNext ==
  ListResources \/ Lister \/ (\E e \in Enricher : EnricherStep(e)) \/ Cancel \/ Receive

\* Goroutines are scheduled and remote calls answer or fail; nobody is
\* obliged to send a signal.
PFairness ==
  /\ WF_pvars(ListResources)
  /\ WF_pvars(Lister)
  /\ \A e \in Enricher : WF_pvars(EnricherStep(e))
  /\ WF_pvars(Receive)

PSpec == PInit /\ [][PNext]_pvars
PFairSpec == PSpec /\ PFairness

-----------------------------------------------------------------------------
(* Properties.                                                             *)

Running == {e \in Enricher : wk[e] = "run"}

\* However tokens are taken, lost to a cancelled spawn or released, no more
\* than EnrichCap enrichers call the provider's APIs at the same time
\* (runEnrichersWith, "The semaphore bounds in-flight work").
CapRespected == Cardinality(Running) <= EnrichCap

\* Once the channel is closed no goroutine of the scan can still send on it:
\* sending on a closed channel panics (runEnrichersWith's WaitGroup).
ClosedIsQuiet ==
  lpc = "closed" => \A e \in Enricher : wk[e] \in {"idle", "done"}

\* The goroutines spawned so far are those of the enrichers before nxt.
Spawned ==
  /\ lpc \in {"off", "search", "stubs"} => nxt = 1
  /\ \A e \in Enricher : e >= nxt <=> wk[e] = "idle"
  /\ lpc = "closed" => \A e \in Enricher : e < nxt => wk[e] = "done"

\* Spawned and not released.
Holding == {e \in Enricher : wk[e] \in {"ready", "run", "release"}}

\* Until the cancellation every goroutine holds a token of its own.
TokensMatch == ctx = "live" => Cardinality(Holding) = sem

PoolInv == Spawned /\ TokensMatch /\ CapRespected

\* Everything call c lists is handed over, or c has failed.
Settled(c) == left[c] = {} \/ why[c] # "none"

\* How far the calls are when nobody has cancelled.
Progress ==
  /\ lpc = "off" => cur = Strict
  /\ lpc \notin {"off", "search"} \/ cur # Strict => Settled(Strict)
  /\ \A s \in StubType : s \in stubTodo \/ Settled(s) \/ (lpc = "search" /\ s = cur)
  /\ lpc \in {"loop", "select", "wait", "closed"} => stubTodo = {}
  /\ lpc \in {"wait", "closed"} => nxt > Len(Parts)
  /\ \A e \in Enricher : wk[e] \in {"idle", "ready"} => part[e] = 1
  /\ \A e \in Enricher : \A k \in DOMAIN Parts[e] :
       \/ wk[e] \in {"release", "done"}
       \/ wk[e] = "run" /\ k < part[e]
       => Settled(Parts[e][k])

ProgressInv == ctx = "live" => Progress

\* When the channel of a scan that nobody cancelled is closed, every listing
\* of both phases was handed over to the end or has reported its failure: a
\* closed channel is a complete answer (ListResources, both phases).
ClosedIsComplete ==
  lpc = "closed" /\ ctx = "live" => \A c \in Call : Settled(c)

\* A reader sees every stub before any detailed row, whatever enrichers run
\* side by side: INSERT OR REPLACE would otherwise put a stub over a detail.
StubsBeforeDetails ==
  \A i, j \in DOMAIN ch : i < j /\ ch[i].det = "full" => ch[j].det # "stub"

\* A scan nobody cancels closes its channel, whichever listings fail and in
\* whatever order the enrichers finish, as long as its reader reads on.
ClosesUncancelled == [](ctx = "live") => <>(lpc = "closed")

\* "The channel closes when both phases complete or ctx is cancelled."
\* (ListResources)
ClosesWhenCancelled == (lpc # "off" /\ ctx = "cancelled") ~> (lpc = "closed")
=============================================================================
