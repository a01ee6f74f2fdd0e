------------------------------- MODULE Bundle -------------------------------
(***************************************************************************)
(* --export-all (cmd/cloudcmder/exportall.go): a zip of the database's     *)
(* files, copied one after another while other processes may use it.       *)
(*                                                                         *)
(* How SQLite keeps a database in two files is external.  A commit goes to *)
(* the -wal file; a checkpoint brings the .db file up to date, after which *)
(* a commit may write the -wal file from its start; the last process to    *)
(* close the database checkpoints it and deletes the -wal file, a killed   *)
(* one does not.  What a copy has is told by what it lacks.                *)
(***************************************************************************)
EXTENDS Database

VARIABLES
  wal,       \* there is a -wal file
  behind,    \* the .db file lacks commits that the -wal file has
  bpc,       \* "idle", "list", "db", "wal", "saved" or "failed"
  listed,    \* the -wal file is among the entries
  lacks,     \* the copy of the .db file lacks commits made until now
  covered,   \* and the -wal file has all of them
  quiet      \* history: no process was there since the entries were listed

files == <<wal, behind>>
copy == <<bpc, listed, lacks, covered, quiet>>
bundlevars == <<dbvars, files, copy>>

BundleInit ==
  /\ DbInit
  /\ wal = FALSE /\ behind = FALSE
  /\ bpc = "idle" /\ listed = FALSE /\ lacks = FALSE /\ covered = TRUE /\ quiet = FALSE

Contents == <<schema, version, runs>>
Connected == {p \in Proc : pc[p] \notin {"off", "pragma"}}

-----------------------------------------------------------------------------
(* What the steps of the processes do to the files.                        *)

\* The commits the copy lacks are in the -wal file no longer.
Uncover == covered' = (covered /\ ~lacks)

Committed ==
  /\ wal' = TRUE /\ behind' = TRUE
  /\ lacks' = (bpc \in {"db", "wal"})
  /\ IF behind THEN UNCHANGED covered ELSE Uncover \/ UNCHANGED covered

\* The first statement of a process makes the -wal file.
Used == wal' = TRUE /\ UNCHANGED <<behind, lacks, covered>>

Closed(p) ==
  IF Connected = {p}
  THEN wal' = FALSE /\ behind' = FALSE /\ Uncover /\ UNCHANGED lacks
  ELSE UNCHANGED <<wal, behind, lacks, covered>>

Process(p) ==
  /\ \/ Start(p) /\ UNCHANGED <<wal, behind, lacks, covered>>
     \/ Crash(p) /\ UNCHANGED <<wal, behind, lacks, covered>>
     \/ /\ Statement(p)
        /\ \/ pc'[p] = "off" /\ Closed(p)
           \/ pc'[p] # "off" /\ Contents' # Contents /\ Committed
           \/ pc'[p] # "off" /\ Contents' = Contents /\ Used
  /\ quiet' = (quiet /\ \A q \in Proc : pc'[q] = "off")
  /\ UNCHANGED <<bpc, listed>>

Checkpoint ==
  /\ behind /\ Connected # {}
  /\ behind' = FALSE
  /\ UNCHANGED <<dbvars, wal, copy>>

-----------------------------------------------------------------------------
(* runExportAll.                                                           *)

\* Mutant of collectBundleEntries: the database is taken to be one file.
collectDatabaseOnly ==
  /\ bpc = "idle" /\ schema # {}
  /\ bpc' = "list"
  /\ listed' = FALSE
  /\ quiet' = (\A p \in Proc : pc[p] = "off")
  /\ UNCHANGED <<dbvars, files, lacks, covered>>

\* The files there are; a database without a table has nothing to lose.
collectBundleEntries ==
  /\ bpc = "idle" /\ schema # {}
  /\ bpc' = "list"
  /\ listed' = wal
  /\ quiet' = (\A p \in Proc : pc[p] = "off")
  /\ UNCHANGED <<dbvars, files, lacks, covered>>

\* addToZip, in the order of the entries.
CopyDb ==
  /\ bpc = "list"
  /\ bpc' = IF listed THEN "db" ELSE "wal"
  /\ lacks' = behind
  /\ covered' = TRUE
  /\ UNCHANGED <<dbvars, files, listed, quiet>>

\* os.Open fails when the file has gone.
CopyWal ==
  /\ bpc = "db"
  /\ bpc' = IF wal THEN "saved" ELSE "failed"
  /\ lacks' = (lacks /\ ~covered)
  /\ UNCHANGED <<dbvars, files, listed, covered, quiet>>

NoWal ==
  /\ bpc = "wal"
  /\ bpc' = "saved"
  /\ UNCHANGED <<dbvars, files, listed, lacks, covered, quiet>>

runExportAll == collectBundleEntries \/ CopyDb \/ CopyWal \/ NoWal

BundleNext == (\E p \in Proc : Process(p)) \/ Checkpoint \/ runExportAll

BundleSpec == BundleInit /\ [][BundleNext]_bundlevars

-----------------------------------------------------------------------------
(* Properties.                                                             *)

\* A bundle made while no process has the database open is made, and has
\* every commit, those of a killed scan too.
QuietBundleIsWhole ==
  /\ bpc = "failed" => ~quiet
  /\ bpc = "saved" /\ quiet => ~lacks

\* A bundle is the database as it was at some time, whatever scans meanwhile.
BundleIsAState == bpc = "saved" /\ listed => ~lacks
=============================================================================
