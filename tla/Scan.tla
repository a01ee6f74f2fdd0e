-------------------------------- MODULE Scan --------------------------------
(***************************************************************************)
(* One scan of one scope (runScan, scanOneScope): the run row is opened,   *)
(* the provider's channel is drained into batches, every batch is written  *)
(* in one SQLite transaction, and the run row gets its final status.  The  *)
(* goroutines of Provider run beside it, and a signal may cancel the       *)
(* context between any two steps.                                          *)
(*                                                                         *)
(* rows and status are what the database file holds.  SQLite keeps them    *)
(* when the process is killed, so an invariant over them also holds of     *)
(* what a killed scan leaves behind.                                       *)
(***************************************************************************)
EXTENDS Provider, RunOutcome

CONSTANTS
  ScanBatch,   \* scanBatchSize: received resources that trigger a write
  StoreFaults  \* TRUE when a write to the database may fail

ASSUME ScanAssumption ==
  /\ ScanBatch \in Nat \ {0}
  /\ StoreFaults \in BOOLEAN

VARIABLES
  dpc,         \* where the scanning goroutine is
  after,       \* what follows the write in progress
  batch,       \* resources received and not written yet
  wi,          \* items of the batch inserted in the open transaction
  tx,          \* the table as the open transaction sees it
  rows,        \* the committed table of resources of this run
  status,      \* the status column of the run, "none" without a run row
  result,      \* what the scan returned
  got,         \* history: the best detail received of each resource
  broken       \* history: the database or a client constructor failed

dvars == <<dpc, after, batch, wi, tx, rows, status, result, got, broken>>
vars  == <<pvars, dvars>>

Level == {"none", "stub", "full"}
Table == [Ref -> Level]

\* have is at least as detailed as want.
Covers(have, want) ==
  \/ want = "none"
  \/ have = "full"
  \/ have = "stub" /\ want = "stub"

TypeOK ==
  /\ PTypeOK
  /\ dpc \in {"open", "list", "drain", "begin", "insert", "finish", "fail", "returned"}
  /\ after \in {"continue", "closed", "cancelled"}
  /\ batch \in Seq(Row)
  /\ Len(batch) <= ScanBatch
  /\ wi \in 0 .. Len(batch)
  /\ tx \in Table
  /\ rows \in Table
  /\ status \in {"none", "running", "ok", "failed"}
  /\ result \in {"none", "ok", "canceled", "error"}
  /\ got \in Table
  /\ broken \in BOOLEAN

Init ==
  /\ PInit
  /\ dpc = "open"
  /\ after = "continue"
  /\ batch = <<>>
  /\ wi = 0
  /\ tx = [r \in Ref |-> "none"]
  /\ rows = [r \in Ref |-> "none"]
  /\ status = "none"
  /\ result = "none"
  /\ got = [r \in Ref |-> "none"]
  /\ broken = FALSE

-----------------------------------------------------------------------------
(* Opening the run and starting the stream.                                *)

Return(res) == dpc' = "returned" /\ result' = res

\* A statement made with a cancelled context reports context.Canceled, or
\* ErrTxDone or an interrupted statement when it was under way.
ReturnRefused ==
  \E res \in {"error", "canceled"} :
    /\ res = "canceled" => ctx = "cancelled"
    /\ Return(res)

OpenRun ==
  /\ dpc = "open"
  /\ ctx = "live"
  /\ status' = "running"
  /\ dpc' = "list"
  /\ UNCHANGED <<pvars, after, batch, wi, tx, rows, result, got, broken>>

\* BeginTx or an insert fails: no run row is left.
OpenRunFails ==
  /\ dpc = "open"
  /\ StoreFaults \/ ctx = "cancelled"
  /\ ReturnRefused
  /\ broken' = (broken \/ ctx = "live")
  /\ UNCHANGED <<pvars, after, batch, wi, tx, rows, status, got>>

StartStream ==
  /\ dpc = "list"
  /\ ListResources
  /\ dpc' = "drain"
  /\ UNCHANGED <<after, batch, wi, tx, rows, status, result, got, broken>>

\* The Asset Inventory client cannot be built.
StartStreamFails ==
  /\ dpc = "list"
  /\ "fatal" \in ApiFault
  /\ dpc' = "fail"
  /\ broken' = TRUE
  /\ UNCHANGED <<pvars, after, batch, wi, tx, rows, status, result, got>>

-----------------------------------------------------------------------------
(* drainAndWrite: the select loop.                                         *)

Flush(next) ==
  /\ dpc' = "begin"
  /\ after' = next

\* Mutant of DrainCancelled: the select has no ctx.Done case.
DrainNeverCancelled == FALSE /\ UNCHANGED vars

\* case <-ctx.Done(): the batch is flushed with the cancelled context.
DrainCancelled ==
  /\ dpc = "drain"
  /\ ctx = "cancelled"
  /\ Flush("cancelled")
  /\ UNCHANGED <<pvars, batch, wi, tx, rows, status, result, got, broken>>

\* Mutant of DrainClosed: the run is finished before the last flush.
FinishBeforeFlush ==
  /\ dpc = "drain"
  /\ lpc = "closed"
  /\ ch = <<>>
  /\ Flush("closed")
  /\ status' = "ok"
  /\ UNCHANGED <<pvars, batch, wi, tx, rows, result, got, broken>>

DrainClosed ==
  /\ dpc = "drain"
  /\ lpc = "closed"
  /\ ch = <<>>
  /\ Flush("closed")
  /\ UNCHANGED <<pvars, batch, wi, tx, rows, status, result, got, broken>>

\* Mutant of DrainResource: off by one in the batch's limit.
DrainResourceLate ==
  /\ dpc = "drain"
  /\ Receive
  /\ Head(ch).err = "none"
  /\ batch' = Append(batch, Head(ch))
  /\ got' = [got EXCEPT ![Head(ch).ref] = IF @ = "full" THEN @ ELSE Head(ch).det]
  /\ IF Len(batch') > ScanBatch
     THEN Flush("continue")
     ELSE UNCHANGED <<dpc, after>>
  /\ UNCHANGED <<wi, tx, rows, status, result, broken>>

\* A resource arrives; the write starts when it fills the batch.
DrainResource ==
  /\ dpc = "drain"
  /\ Receive
  /\ Head(ch).err = "none"
  /\ batch' = Append(batch, Head(ch))
  /\ got' = [got EXCEPT ![Head(ch).ref] = IF @ = "full" THEN @ ELSE Head(ch).det]
  /\ IF Len(batch') >= ScanBatch
     THEN Flush("continue")
     ELSE UNCHANGED <<dpc, after>>
  /\ UNCHANGED <<wi, tx, rows, status, result, broken>>

\* Mutant of DrainSkip: a disabled API fails the scan.
DrainSkipFails ==
  /\ dpc = "drain"
  /\ Receive
  /\ Head(ch).err = "denied"
  /\ dpc' = "fail"
  /\ UNCHANGED <<after, batch, wi, tx, rows, status, result, got, broken>>

\* IsRecoverableScanErr: the kind is skipped.
DrainSkip ==
  /\ dpc = "drain"
  /\ Receive
  /\ Head(ch).err = "denied"
  /\ UNCHANGED dvars

\* Any other error ends the drain, and the batch is dropped.  What wraps
\* context.Canceled leaves the run row alone; a gRPC status does not.
DrainError ==
  /\ dpc = "drain"
  /\ Receive
  /\ Head(ch).err \notin {"none", "denied"}
  /\ IF Head(ch).err = "canceled"
     THEN Return("canceled")
     ELSE dpc' = "fail" /\ UNCHANGED result
  /\ UNCHANGED <<after, batch, wi, tx, rows, status, got, broken>>

-----------------------------------------------------------------------------
(* flush, WriteBatch and writeChunk.  A batch fits in one chunk, since     *)
(* scanBatchSize is below the store's batchSize.                           *)

\* What drainAndWrite does once the flush has succeeded.
AfterFlush ==
  CASE after = "continue"  -> dpc' = "drain" /\ UNCHANGED result
    [] after = "closed"    -> dpc' = "finish" /\ UNCHANGED result
    [] after = "cancelled" -> Return("canceled")

FlushEmpty ==
  /\ dpc = "begin"
  /\ batch = <<>>
  /\ AfterFlush
  /\ UNCHANGED <<pvars, after, batch, wi, tx, rows, status, got, broken>>

BeginChunk ==
  /\ dpc = "begin"
  /\ batch # <<>>
  /\ ctx = "live"
  /\ dpc' = "insert"
  /\ wi' = 0
  /\ tx' = rows
  /\ UNCHANGED <<pvars, after, batch, rows, status, result, got, broken>>

\* INSERT OR REPLACE of the next item.
InsertRow ==
  /\ dpc = "insert"
  /\ ctx = "live"
  /\ wi < Len(batch)
  /\ tx' = [tx EXCEPT ![batch[wi + 1].ref] = batch[wi + 1].det]
  /\ wi' = wi + 1
  /\ UNCHANGED <<pvars, dpc, after, batch, rows, status, result, got, broken>>

CommitChunk ==
  /\ dpc = "insert"
  /\ ctx = "live"
  /\ wi = Len(batch)
  /\ rows' = tx
  /\ batch' = <<>>
  /\ wi' = 0
  /\ AfterFlush
  /\ UNCHANGED <<pvars, after, tx, status, got, broken>>

\* The flush failed with an error that wraps context.Canceled or not.  The
\* deferred Rollback drops the transaction; the caller of drainAndWrite
\* leaves the run row alone, or marks it failed.
FlushFailed(wrapsCanceled) ==
  IF after = "cancelled" \/ wrapsCanceled
  THEN Return("canceled")
  ELSE dpc' = "fail" /\ UNCHANGED result

\* BeginTx refuses a cancelled context.  Later statements and Commit report
\* context.Canceled, or ErrTxDone once the driver has rolled back.
ChunkCancelled ==
  /\ dpc \in {"begin", "insert"}
  /\ batch # <<>>
  /\ ctx = "cancelled"
  /\ \E wrapsCanceled \in BOOLEAN :
       /\ dpc = "begin" => wrapsCanceled
       /\ FlushFailed(wrapsCanceled)
  /\ UNCHANGED <<pvars, after, batch, wi, tx, rows, status, got, broken>>

ChunkFails ==
  /\ dpc \in {"begin", "insert"}
  /\ batch # <<>>
  /\ StoreFaults
  /\ FlushFailed(FALSE)
  /\ broken' = TRUE
  /\ UNCHANGED <<pvars, after, batch, wi, tx, rows, status, got>>

-----------------------------------------------------------------------------
(* FinishRun.                                                              *)

\* Mutant of FinishOk: the status is written with context.Background().
FinishOkBackground ==
  /\ dpc = "finish"
  /\ status' = "ok"
  /\ Return("ok")
  /\ UNCHANGED <<pvars, after, batch, wi, tx, rows, got, broken>>

\* FinishRun(ctx, "ok").
FinishOk ==
  /\ dpc = "finish"
  /\ ctx = "live"
  /\ status' = "ok"
  /\ Return("ok")
  /\ UNCHANGED <<pvars, after, batch, wi, tx, rows, got, broken>>

\* Mutant of FinishOkFails: the error of FinishRun is dropped.
FinishOkUnchecked ==
  /\ dpc = "finish"
  /\ ctx = "cancelled" \/ StoreFaults
  /\ Return("ok")
  /\ broken' = (broken \/ ctx = "live")
  /\ UNCHANGED <<pvars, after, batch, wi, tx, rows, status, got>>

FinishOkFails ==
  /\ dpc = "finish"
  /\ ctx = "cancelled" \/ StoreFaults
  /\ ReturnRefused
  /\ broken' = (broken \/ ctx = "live")
  /\ UNCHANGED <<pvars, after, batch, wi, tx, rows, status, got>>

\* FinishRun(context.Background(), "failed"), whose own error is dropped.
FinishFailed ==
  /\ dpc = "fail"
  /\ status' \in {"failed"} \cup (IF StoreFaults THEN {status} ELSE {})
  /\ Return("error")
  /\ UNCHANGED <<pvars, after, batch, wi, tx, rows, got, broken>>

-----------------------------------------------------------------------------

Drain ==
  \/ OpenRun \/ OpenRunFails \/ StartStream \/ StartStreamFails
  \/ DrainCancelled \/ DrainClosed \/ DrainResource \/ DrainSkip \/ DrainError
  \/ FlushEmpty \/ BeginChunk \/ InsertRow \/ CommitChunk \/ ChunkCancelled \/ ChunkFails
  \/ FinishOk \/ FinishOkFails \/ FinishFailed

\* The provider's goroutines and the signal.
Beside ==
  /\ Lister \/ (\E e \in Enricher : EnricherStep(e)) \/ Cancel
  /\ UNCHANGED dvars

Next == Drain \/ Beside

\* Every goroutine is scheduled, every remote call and statement ends.
Fairness ==
  /\ WF_vars(Drain)
  /\ WF_vars(Lister /\ UNCHANGED dvars)
  /\ \A e \in Enricher : WF_vars(EnricherStep(e) /\ UNCHANGED dvars)

Spec == Init /\ [][Next]_vars
FairSpec == Spec /\ Fairness

-----------------------------------------------------------------------------
(* Properties.                                                             *)

\* The detail the rows of a call are to have.
Detail(c) == IF c \in EnrCall THEN "full" ELSE "stub"

\* The failures a finished scan may have skipped: an API that is not
\* enabled, and an asset type Asset Inventory cannot search.
Excused == {"denied", "invalid"}

\* A run with status "ok" holds every resource of every listing at the
\* listing's level of detail, except what a listing that was denied or not
\* searchable had left: no interrupt, error, full channel, failed write or
\* order of goroutines makes a partial run pass for a complete one
\* (drainAndWrite, FinishRun with the scan's own context).
OkRunComplete ==
  status = "ok" =>
    \A c \in Call :
      \/ why[c] \in Excused
      \/ why[c] = "none" /\ \A r \in Listing[c] : Covers(rows[r], Detail(c))

\* The abstract run that readers of the database see.
Ledger == INSTANCE RunLedger WITH Ref <- Ref, status <- status, rows <- rows

\* Seen from the database a scan is an opened run, rows that only gain
\* detail, and one final status that seals them: no write of a batch, failed
\* or late, comes after FinishRun.
ImplementsLedger == Ledger!LSpec

\* The detailed row of a resource is never replaced by a stub, neither in
\* one transaction nor in a later one, although INSERT OR REPLACE would
\* (enrichVMs, the "all disks 0 GB" bug).
NeverClobber ==
  [][\A r \in Ref : rows[r] = "full" => rows'[r] = "full"]_vars

\* However a scan ends, fewer received resources than fill a batch are not
\* in the table as received, or exactly the batch whose write failed
\* (scanBatchSize, "rather than holding them in memory").
AtMostOneBatchAtRisk ==
  Cardinality({r \in Ref : ~ Covers(rows[r], got[r])}) <= ScanBatch

\* A scan that nothing worse befalls than denied APIs and unsearchable asset
\* types ends with status "ok" (IsRecoverableScanErr: "keep scanning").
GracefulScanSucceeds ==
  [](/\ ctx = "live"
     /\ ~ broken
     /\ \A c \in Call : why[c] \in Excused \cup {"none"})
    => <>(status = "ok")

\* The command returns whatever happens: with the stream still open, with
\* its goroutines stuck, or with the database refusing every write.
ScanReturns == <>(dpc = "returned")

\* Whatever error of the API, the database or the context ends the scan, the
\* caller's view of it and the run row agree: no run is marked ok under an
\* error, and no error but a cancellation or a refused write leaves it
\* running (scanOneScope's switch).
ReturnsOutcome ==
  dpc = "returned" => Outcome(result, status) \in Outcomes(ctx = "cancelled", StoreFaults)

\* A run is not marked failed when nothing but the interrupt went wrong:
\* "The interrupted project's run row is left at status=running" (README).
InterruptLeavesRunning ==
  status = "failed" => broken \/ \E c \in Call : why[c] \in {"fatal", "denied", "invalid"}

\* "so a Ctrl-C during a slow Asset listing still commits recent rows rather
\* than holding them in memory" (scanBatchSize).
InterruptCommitsReceived ==
  result = "canceled" /\ ~ broken => \A r \in Ref : Covers(rows[r], got[r])

-----------------------------------------------------------------------------
(* The inductive invariant behind OkRunComplete and NeverClobber.          *)

NoStub(s)  == \A i \in DOMAIN s : s[i].det # "stub"
NoFull(s)  == \A i \in DOMAIN s : s[i].det # "full"
Ordered(s) == \A i, j \in DOMAIN s : i < j /\ s[i].det = "full" => s[j].det # "stub"

\* From the first detailed row on, no stub is on its way.
OrderInv ==
  /\ Ordered(ch) /\ Ordered(batch)
  /\ ~ NoFull(batch) => NoStub(ch)
  /\ (\E r \in Ref : rows[r] = "full") => NoStub(ch) /\ NoStub(batch)
  /\ lpc \in {"off", "search", "stubs"} =>
       NoFull(ch) /\ NoFull(batch) /\ \A r \in Ref : rows[r] # "full"

\* The open transaction holds the table and the items inserted so far.
TxInv ==
  dpc = "insert" =>
    /\ \A r \in Ref : \/ tx[r] = rows[r]
                      \/ \E i \in 1 .. wi : batch[i].ref = r /\ batch[i].det = tx[r]
    /\ \A r \in Ref : Covers(tx[r], rows[r])
    /\ \A i \in 1 .. wi : Covers(tx[batch[i].ref], batch[i].det)

\* Resource r is in the table, in the batch or in the channel, in detail d.
Carried(r, d) ==
  \/ Covers(rows[r], d)
  \/ \E i \in DOMAIN batch : batch[i].ref = r /\ Covers(batch[i].det, d)
  \/ \E i \in DOMAIN ch : ch[i].ref = r /\ Covers(ch[i].det, d)

\* Until a cancellation or an error, nothing listed is lost, and a failure
\* that is not excused is on its way to the drain.
NothingLost ==
  ctx = "live" /\ dpc \notin {"fail", "returned"} =>
    \A c \in Call :
      /\ why[c] = "none" => \A r \in Listing[c] : r \in left[c] \/ Carried(r, Detail(c))
      /\ why[c] \in Excused \cup {"none"} \/ \E i \in DOMAIN ch : ch[i].err = why[c]

\* The last flush and FinishRun come after the close and the last item.
LastFlush ==
  /\ dpc \in {"begin", "insert"} /\ after = "closed" => lpc = "closed" /\ ch = <<>>
  /\ dpc = "finish" => lpc = "closed" /\ ch = <<>> /\ batch = <<>>
  /\ status = "ok" => lpc = "closed" /\ dpc = "returned"

\* What was received is in the table or in the batch.
ReceivedKept ==
  \A r \in Ref :
    \/ Covers(rows[r], got[r])
    \/ \E i \in DOMAIN batch : batch[i].ref = r /\ Covers(batch[i].det, got[r])

\* The run row is there exactly while the code may finish it.
RunRow ==
  /\ dpc = "open" => status = "none" /\ \A r \in Ref : rows[r] = "none"
  /\ dpc \notin {"open", "returned"} => status = "running"

\* What is said of a cancellation is said after it.
CancelInv ==
  /\ \A i \in DOMAIN ch : ch[i].err = "canceled" => ctx = "cancelled"
  /\ dpc \in {"begin", "insert"} /\ after = "cancelled" => ctx = "cancelled"

ScanInv ==
  /\ PoolInv /\ ProgressInv
  /\ OrderInv /\ TxInv /\ NothingLost /\ LastFlush /\ ReceivedKept /\ RunRow
  /\ CancelInv
  /\ OkRunComplete
=============================================================================
