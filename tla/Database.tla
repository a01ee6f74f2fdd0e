------------------------------ MODULE Database ------------------------------
(***************************************************************************)
(* The database file (internal/store), statement by statement, under       *)
(* several processes that open it and scan into it: Open and migrate,      *)
(* OpenRun, writeChunk and FinishRun.  What a scan writes and when is      *)
(* Scan's; here it is any growth of its run's rows.                        *)
(*                                                                         *)
(* SQLite is external: a statement outside a transaction commits at once,  *)
(* a transaction holds the database's one write lock from its first write  *)
(* to its end, and a statement that finds the lock taken waits for it or   *)
(* fails.  A statement may fail for other reasons too, and a process may   *)
(* be killed between any two of them.                                      *)
(***************************************************************************)
EXTENDS Naturals, Sequences

CONSTANTS
  Proc,        \* places for processes
  NoProc,      \* stands for none
  Script,      \* what 0001_initial.sql creates before the row of the version
  Ref,         \* resources of a scan
  MaxScopes,   \* bound on the scopes one process scans, one after another
  MaxStarts,   \* bound on the processes started
  MaxRuns      \* bound on the runs inserted

ASSUME DatabaseAssumption ==
  /\ NoProc \notin Proc
  /\ Script \in Seq(STRING)
  /\ MaxScopes \in Nat /\ MaxStarts \in Nat /\ MaxRuns \in Nat

VARIABLES
  schema,   \* the tables there are
  version,  \* schema_version, 0 without the row
  runs,     \* runs in the order of their ids, with their scope and rows
  lock,     \* who has the write lock
  draft,    \* runs, as the transaction under way sees them
  pc, at,   \* the next statement of each process, and its place in Script
  run,      \* the run it scans into, 0 for none
  todo,     \* the scopes it has still to scan
  starts    \* processes started so far

dbvars == <<schema, version, runs, lock, draft, pc, at, run, todo, starts>>

Tables == {Script[n] : n \in DOMAIN Script}
Level == {"none", "stub", "full"}
RunRow == [status : {"running", "ok", "failed"}, scoped : BOOLEAN, rows : [Ref -> Level]]

NewRun == [status |-> "running", scoped |-> FALSE, rows |-> [r \in Ref |-> "none"]]

\* The statements of a transaction that has written.
InTx == {"scopeRow", "commitRun", "chunk"}
Opening == {"pragma", "version", "script", "versionRow", "record"}
Opened == {"open", "scan", "fail"} \cup InTx

DbTypeOK ==
  /\ schema \subseteq Tables
  /\ version \in {0, 1}
  /\ runs \in Seq(RunRow)
  /\ draft \in Seq(RunRow)
  /\ lock \in Proc \cup {NoProc}
  /\ pc \in [Proc -> {"off"} \cup Opening \cup Opened]
  /\ at \in [Proc -> Nat]
  /\ run \in [Proc -> Nat]
  /\ todo \in [Proc -> Nat]
  /\ starts \in Nat

DbInit ==
  /\ schema = {} /\ version = 0 /\ runs = <<>>
  /\ lock = NoProc /\ draft = <<>>
  /\ pc = [p \in Proc |-> "off"]
  /\ at = [p \in Proc |-> 1]
  /\ run = [p \in Proc |-> 0]
  /\ todo = [p \in Proc |-> 0]
  /\ starts = 0

Goto(p, next) == pc' = [pc EXCEPT ![p] = next]

\* A statement that commits by itself, when no transaction is in its way.
Autocommit(p, from) == pc[p] = from /\ lock = NoProc /\ UNCHANGED <<lock, draft, todo, starts>>

-----------------------------------------------------------------------------
(* Open.                                                                   *)

Start(p) ==
  /\ pc[p] = "off"
  /\ starts < MaxStarts
  /\ starts' = starts + 1
  /\ \E n \in 0 .. MaxScopes : todo' = [todo EXCEPT ![p] = n]
  /\ Goto(p, "pragma")
  /\ UNCHANGED <<schema, version, runs, lock, draft, at, run>>

Pragma(p) ==
  /\ pc[p] = "pragma"
  /\ Goto(p, "version")
  /\ UNCHANGED <<schema, version, runs, lock, draft, at, run, todo, starts>>

\* currentSchemaVersion: an error, whichever it is, means version 0.  The
\* script is skipped unless its number is above the version.
currentSchemaVersion(p) ==
  /\ pc[p] = "version"
  /\ \E current \in {0, version} : Goto(p, IF 1 <= current THEN "open" ELSE "script")
  /\ UNCHANGED <<schema, version, runs, lock, draft, at, run, todo, starts>>

\* CREATE TABLE IF NOT EXISTS.
CreateTable(p) ==
  /\ pc[p] = "script" /\ at[p] \in DOMAIN Script
  /\ Script[at[p]] \in schema \/ lock = NoProc
  /\ schema' = schema \cup {Script[at[p]]}
  /\ at' = [at EXCEPT ![p] = @ + 1]
  /\ UNCHANGED <<version, runs, lock, draft, pc, run, todo, starts>>

\* Mutant of VersionRow: the script begins with the row of the version.
VersionRowFirst(p) ==
  /\ Autocommit(p, "script") /\ at[p] = 1
  /\ version' = 1
  /\ UNCHANGED <<schema, runs, pc, at, run>>

\* INSERT OR IGNORE, which ends the script.
VersionRow(p) ==
  /\ Autocommit(p, "script") /\ at[p] = Len(Script) + 1
  /\ version' = IF version = 0 THEN 1 ELSE version
  /\ at' = [at EXCEPT ![p] = 1]
  /\ Goto(p, "record")
  /\ UNCHANGED <<schema, runs, run>>

\* INSERT OR REPLACE.
Record(p) ==
  /\ Autocommit(p, "record")
  /\ version' = 1
  /\ Goto(p, "open")
  /\ UNCHANGED <<schema, runs, at, run>>

-----------------------------------------------------------------------------
(* OpenRun.                                                                *)

\* Mutant of InsertRun: without BeginTx.
InsertRunAtOnce(p) ==
  /\ Autocommit(p, "open") /\ Len(runs) < MaxRuns
  /\ runs' = Append(runs, NewRun)
  /\ run' = [run EXCEPT ![p] = Len(runs) + 1]
  /\ Goto(p, "scan")
  /\ UNCHANGED <<schema, version, at>>

InsertRun(p) ==
  /\ pc[p] = "open"
  /\ lock = NoProc /\ todo[p] > 0 /\ Len(runs) < MaxRuns
  /\ todo' = [todo EXCEPT ![p] = @ - 1]
  /\ lock' = p
  /\ draft' = Append(runs, NewRun)
  /\ run' = [run EXCEPT ![p] = Len(runs) + 1]
  /\ Goto(p, "scopeRow")
  /\ UNCHANGED <<schema, version, runs, at, starts>>

InsertScope(p) ==
  /\ pc[p] = "scopeRow"
  /\ draft' = [draft EXCEPT ![run[p]].scoped = TRUE]
  /\ Goto(p, "commitRun")
  /\ UNCHANGED <<schema, version, runs, lock, at, run, todo, starts>>

Commit(p, next) ==
  /\ runs' = draft
  /\ lock' = NoProc /\ draft' = <<>>
  /\ Goto(p, next)
  /\ UNCHANGED <<schema, version, at, run, todo, starts>>

CommitRun(p) == pc[p] = "commitRun" /\ Commit(p, "scan")

\* Mutant of Rollback: the transaction is left to the garbage collector.
LeakTx == UNCHANGED <<lock, draft>>

\* The deferred Rollback.
Rollback == lock' = NoProc /\ draft' = <<>>

\* The next scope, if there is one, is scanned by the same process.
OpenRunFails(p) ==
  /\ pc[p] \in {"scopeRow", "commitRun"}
  /\ Rollback
  /\ run' = [run EXCEPT ![p] = 0]
  /\ Goto(p, "open")
  /\ UNCHANGED <<schema, version, runs, at, todo, starts>>

-----------------------------------------------------------------------------
(* writeChunk.  INSERT OR REPLACE of a row that gains detail: Scan shows   *)
(* that no write takes detail away, and a stream brings each row twice at  *)
(* most.                                                                   *)

Gains(rows, r) == [rows EXCEPT ![r] = IF @ = "none" THEN "stub" ELSE "full"]

InsertFirst(p) ==
  /\ pc[p] = "scan" /\ lock = NoProc
  /\ lock' = p
  /\ \E r \in Ref : draft' = [runs EXCEPT ![run[p]].rows = Gains(@, r)]
  /\ draft' # runs
  /\ Goto(p, "chunk")
  /\ UNCHANGED <<schema, version, runs, at, run, todo, starts>>

InsertRow(p) ==
  /\ pc[p] = "chunk"
  /\ \E r \in Ref : draft' = [draft EXCEPT ![run[p]].rows = Gains(@, r)]
  /\ draft' # draft
  /\ UNCHANGED <<schema, version, runs, lock, pc, at, run, todo, starts>>

CommitChunk(p) == pc[p] = "chunk" /\ Commit(p, "scan")

ChunkFails(p) ==
  /\ pc[p] = "chunk"
  /\ Rollback
  /\ Goto(p, "fail")
  /\ UNCHANGED <<schema, version, runs, at, run, todo, starts>>

-----------------------------------------------------------------------------
(* FinishRun, and the end of a scan.                                       *)

\* Mutant of SetStatus: UPDATE runs without the WHERE.
SetStatusOfAll(p, status) ==
  runs' = [n \in DOMAIN runs |-> [runs[n] EXCEPT !.status = status]]

SetStatus(p, status) == runs' = [runs EXCEPT ![run[p]].status = status]

Finish(p, from, status) ==
  /\ Autocommit(p, from)
  /\ SetStatus(p, status)
  /\ run' = [run EXCEPT ![p] = 0]
  /\ Goto(p, "open")
  /\ UNCHANGED <<schema, version, at>>

FinishRun(p) == Finish(p, "scan", "ok") \/ Finish(p, "fail", "failed")

\* The stream fails, or a chunk before its first row.
StreamFails(p) ==
  /\ pc[p] = "scan"
  /\ Goto(p, "fail")
  /\ UNCHANGED <<schema, version, runs, lock, draft, at, run, todo, starts>>

\* Cancelled, or FinishRun failed: the row stays as it is.
GiveUp(p) ==
  /\ pc[p] \in {"scan", "fail"}
  /\ run' = [run EXCEPT ![p] = 0]
  /\ Goto(p, "open")
  /\ UNCHANGED <<schema, version, runs, lock, draft, at, todo, starts>>

\* Nothing of a process outlives it but what it committed.
End(p) ==
  /\ Goto(p, "off")
  /\ at' = [at EXCEPT ![p] = 1]
  /\ run' = [run EXCEPT ![p] = 0]
  /\ todo' = [todo EXCEPT ![p] = 0]
  /\ IF lock = p THEN lock' = NoProc /\ draft' = <<>> ELSE UNCHANGED <<lock, draft>>
  /\ UNCHANGED <<schema, version, runs, starts>>

\* Out of scopes, or nothing to do but reading; also a failure of Open.
Exit(p) == pc[p] \in Opening \cup {"open"} /\ pc[p] # "version" /\ End(p)

\* Killed, between any two statements or within a transaction.
Crash(p) == pc[p] # "off" /\ End(p)

-----------------------------------------------------------------------------

\* What a process does of its own; the rest happens to it.
Statement(p) ==
  \/ Pragma(p) \/ currentSchemaVersion(p) \/ CreateTable(p) \/ VersionRow(p) \/ Record(p)
  \/ InsertRun(p) \/ InsertScope(p) \/ CommitRun(p) \/ OpenRunFails(p)
  \/ InsertFirst(p) \/ InsertRow(p) \/ CommitChunk(p) \/ ChunkFails(p)
  \/ FinishRun(p) \/ StreamFails(p) \/ GiveUp(p) \/ Exit(p)

DbNext == \E p \in Proc : Start(p) \/ Statement(p) \/ Crash(p)

DbSpec == DbInit /\ [][DbNext]_dbvars

-----------------------------------------------------------------------------
(* Properties.                                                             *)

\* A recorded version stands for the whole schema, and whoever got past Open
\* finds all of it: whatever process was killed or failed in the middle of
\* migrate, and whoever else was in it.
SchemaIsWhole ==
  /\ version # 0 => schema = Tables
  /\ \A p \in Proc : pc[p] \in Opened => schema = Tables

\* No one ever sees a run without its scope, and a run is written by the
\* process that inserted it and by no other.
RunsAreWhole ==
  /\ \A n \in DOMAIN runs : runs[n].scoped
  /\ \A p, q \in Proc : run[p] = run[q] /\ run[p] # 0 => p = q

\* The lock is held in a transaction only: no failed one is in the way of the
\* scopes and processes that come later.
LockIsBrief == lock # NoProc => pc[lock] \in InTx

\* Each run is opened once, grows while it is running and is sealed by its
\* status, whoever else writes and whoever dies.
StatusOf(n) == IF n \in DOMAIN runs THEN runs[n].status ELSE "none"
RowsOf(n) == IF n \in DOMAIN runs THEN runs[n].rows ELSE NewRun.rows
Ledger(n) == INSTANCE RunLedger WITH status <- StatusOf(n), rows <- RowsOf(n)

ImplementsLedgers ==
  /\ \A n \in 1 .. MaxRuns : Ledger(n)!LInit
  /\ [][\A n \in 1 .. MaxRuns :
          Ledger(n)!LNext \/ UNCHANGED <<StatusOf(n), RowsOf(n)>>]_dbvars
=============================================================================
