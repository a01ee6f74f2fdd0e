------------------------------ MODULE ScanMany ------------------------------
(***************************************************************************)
(* --scan-all and --scan-projects: the scopes are scanned one after the    *)
(* other.  Off a terminal runScanMany does it itself; on a terminal        *)
(* runScanManyUI starts a goroutine for it, which reports to a Bubble Tea  *)
(* program by messages, and the program's end is the command's end,        *)
(* whether the goroutine is done or not.                                   *)
(*                                                                         *)
(* One scan is its summary in RunOutcome.  Bubble Tea is modelled from     *)
(* its use: Send hands a message over to the event loop or, once the       *)
(* program is over or its context cancelled, drops it; tea.Quit is a       *)
(* message that is delivered some time later.                              *)
(***************************************************************************)
EXTENDS Naturals, Sequences, RunOutcome

CONSTANTS
  N,           \* the number of scopes
  StoreFaults, \* TRUE when a write to the database may fail
  RecentCap,   \* recentCap: completions the view lists
  MaxCount     \* bound on the resources a scope reports

ASSUME ScanManyAssumption ==
  /\ N \in Nat \ {0}
  /\ StoreFaults \in BOOLEAN
  /\ RecentCap \in Nat \ {0}
  /\ MaxCount \in Nat

Scope == 1 .. N

VARIABLES
  terminal,    \* isTerminal: the program runs
  failFast,    \* --fail-fast
  signal,      \* the command's context is cancelled
  stopped,     \* cancel() of the scan's own context was called
  gpc,         \* where the loop over the scopes is
  idx,         \* the scope the loop is at, 0 before the first
  res,         \* what the last scan returned
  status,      \* status[i]: the status in scope i's run row
  failed,      \* the plain loop's failed scopes
  upc,         \* the program: "loop", "quit" once tea.Quit is issued, "over"
  shown,       \* shown[i]: the status row i of the view shows
  count,       \* count[i]: the resources row i shows
  active,      \* activeIdx, 0 for none
  recent,      \* the last completed rows
  uiFailed,    \* the model's failed scopes
  db,          \* the database handle
  verdict,     \* the error the command is about to return
  exit,        \* the exit code
  quits,       \* history: a quit key was pressed
  broken       \* history: the database refused a write

uvars == <<shown, count, active, recent, uiFailed>>
vars  == <<terminal, failFast, signal, stopped, gpc, idx, res, status, failed,
           upc, uvars, db, verdict, exit, quits, broken>>

FlagsOK ==
  /\ terminal \in BOOLEAN
  /\ failFast \in BOOLEAN
  /\ signal \in BOOLEAN
  /\ stopped \in BOOLEAN
  /\ quits \in BOOLEAN
  /\ broken \in BOOLEAN

MTypeOK ==
  /\ FlagsOK
  /\ gpc \in {"loop", "start", "open", "scan", "done", "all", "end"}
  /\ idx \in 0 .. N
  /\ gpc \in {"start", "open", "scan", "done"} => idx \in Scope
  /\ res \in {"ok", "canceled", "error"}
  /\ status \in [Scope -> {"none", "running", "ok", "failed"}]
  /\ failed \subseteq Scope
  /\ upc \in {"loop", "quit", "over"}
  /\ shown \in [Scope -> {"queued", "running", "ok", "failed"}]
  /\ count \in [Scope -> 0 .. MaxCount]
  /\ active \in 0 .. N
  /\ recent \in Seq(Scope)
  /\ Len(recent) <= RecentCap
  /\ uiFailed \subseteq Scope
  /\ db \in {"open", "closed"}
  /\ verdict \in {"none", "zero", "nonzero"}
  /\ exit \in {"none", "zero", "nonzero"}

Init ==
  /\ terminal \in BOOLEAN
  /\ failFast \in BOOLEAN
  /\ signal = FALSE
  /\ stopped = FALSE
  /\ gpc = "loop"
  /\ idx = 0
  /\ res = "ok"
  /\ status = [i \in Scope |-> "none"]
  /\ failed = {}
  /\ upc = IF terminal THEN "loop" ELSE "over"
  /\ shown = [i \in Scope |-> "queued"]
  /\ count = [i \in Scope |-> 0]
  /\ active = 0
  /\ recent = <<>>
  /\ uiFailed = {}
  /\ db = "open"
  /\ verdict = "none"
  /\ exit = "none"
  /\ quits = FALSE
  /\ broken = FALSE

\* The context of the scans is cancelled.
Cancelled == signal \/ stopped

\* The process runs.
Alive == exit = "none"

-----------------------------------------------------------------------------
(* Messages to the program.                                                *)

\* Send: the event loop takes the message and updates the model, or nobody
\* does any more.
Deliver(update) ==
  \/ upc # "over" /\ update
  \/ (upc = "over" \/ signal) /\ UNCHANGED <<uvars, upc>>

ScopeStartMsg(i) ==
  /\ shown' = [shown EXCEPT ![i] = "running"]
  /\ active' = i
  /\ UNCHANGED <<count, recent, uiFailed, upc>>

ScanProgressMsg(i) ==
  /\ count' = [count EXCEPT ![i] = @ + 1]
  /\ UNCHANGED <<shown, active, recent, uiFailed, upc>>

\* The last RecentCap elements of s.
LastFew(s) ==
  SubSeq(s, IF Len(s) > RecentCap THEN Len(s) - RecentCap + 1 ELSE 1, Len(s))

\* Mutant of ScopeDoneMsg: the failed scope is not recorded.
ScopeDoneUnrecorded(i) ==
  /\ shown' = [shown EXCEPT ![i] = IF res = "ok" THEN "ok" ELSE "failed"]
  /\ recent' = LastFew(Append(recent, i))
  /\ active' = IF active = i THEN 0 ELSE active
  /\ UNCHANGED <<count, uiFailed, upc>>

\* Mutant of ScopeDoneMsg: the row stays the active one.
ScopeDoneStaysActive(i) ==
  /\ shown' = [shown EXCEPT ![i] = IF res = "ok" THEN "ok" ELSE "failed"]
  /\ uiFailed' = IF res = "ok" THEN uiFailed ELSE uiFailed \cup {i}
  /\ recent' = LastFew(Append(recent, i))
  /\ UNCHANGED <<count, active, upc>>

ScopeDoneMsg(i) ==
  /\ shown' = [shown EXCEPT ![i] = IF res = "ok" THEN "ok" ELSE "failed"]
  /\ uiFailed' = IF res = "ok" THEN uiFailed ELSE uiFailed \cup {i}
  /\ recent' = LastFew(Append(recent, i))
  /\ active' = IF active = i THEN 0 ELSE active
  /\ UNCHANGED <<count, upc>>

AllDoneMsg ==
  /\ upc' = "quit"
  /\ UNCHANGED uvars

-----------------------------------------------------------------------------
(* The loop over the scopes: the command itself, or the goroutine.         *)

\* The head of the loop.  The plain loop does not look at the context.
NextScope ==
  /\ gpc = "loop"
  /\ idx < N
  /\ terminal => ~ Cancelled
  /\ idx' = idx + 1
  /\ gpc' = IF terminal THEN "start" ELSE "open"
  /\ UNCHANGED <<terminal, failFast, signal, stopped, res, status, failed, upc, uvars,
                 db, verdict, exit, quits, broken>>

\* The loop is over: the goroutine announces it, the command returns.
LoopOver ==
  /\ gpc = "loop"
  /\ idx = N \/ (terminal /\ Cancelled)
  /\ gpc' = IF terminal THEN "all" ELSE "end"
  /\ verdict' = IF terminal THEN verdict
                ELSE IF failed = {} THEN "zero" ELSE "nonzero"
  /\ UNCHANGED <<terminal, failFast, signal, stopped, idx, res, status, failed, upc, uvars,
                 db, exit, quits, broken>>

SendStart ==
  /\ gpc = "start"
  /\ Deliver(ScopeStartMsg(idx))
  /\ gpc' = "open"
  /\ UNCHANGED <<terminal, failFast, signal, stopped, idx, res, status, failed,
                 db, verdict, exit, quits, broken>>

\* Mutant of OpenScope: the run is opened with context.Background().
OpenDetached ==
  /\ gpc = "open"
  /\ db = "open"
  /\ status' = [status EXCEPT ![idx] = "running"]
  /\ gpc' = "scan"
  /\ UNCHANGED <<terminal, failFast, signal, stopped, idx, res, failed, upc, uvars,
                 db, verdict, exit, quits, broken>>

\* scanOneScope begins: the run row is there.
OpenScope ==
  /\ gpc = "open"
  /\ db = "open"
  /\ ~ Cancelled
  /\ status' = [status EXCEPT ![idx] = "running"]
  /\ gpc' = "scan"
  /\ UNCHANGED <<terminal, failFast, signal, stopped, idx, res, failed, upc, uvars,
                 db, verdict, exit, quits, broken>>

\* scanOneScope ends with outcome o, as RunOutcome allows.
EndScan(o) ==
  /\ o \in Outcomes(Cancelled, StoreFaults \/ db = "closed")
  /\ res' = o.result
  /\ status' = [status EXCEPT ![idx] = o.status]
  /\ broken' = (broken \/ o \notin Outcomes(Cancelled, FALSE))
  /\ gpc' = "done"
  /\ UNCHANGED <<terminal, failFast, signal, stopped, idx, failed, upc, uvars,
                 db, verdict, exit, quits>>

OpenScopeFails ==
  /\ gpc = "open"
  /\ \E result \in {"error", "canceled"} : EndScan(Outcome(result, "none"))

ReportResource ==
  /\ terminal
  /\ gpc = "scan"
  /\ count[idx] < MaxCount
  /\ Deliver(ScanProgressMsg(idx))
  /\ UNCHANGED <<terminal, failFast, signal, stopped, gpc, idx, res, status, failed,
                 db, verdict, exit, quits, broken>>

\* A closed handle takes no status.
ScanReturns ==
  /\ gpc = "scan"
  /\ \E result \in {"ok", "error", "canceled"} :
       \E final \in {"running"} \cup (IF db = "open" THEN {"ok", "failed"} ELSE {}) :
         EndScan(Outcome(result, final))

\* Mutant of PlainScopeDone: --fail-fast is not looked at.
PlainFailFastForgotten ==
  /\ ~ terminal
  /\ gpc = "done"
  /\ failed' = IF res = "error" THEN failed \cup {idx} ELSE failed
  /\ IF res = "canceled"
     THEN gpc' = "end" /\ verdict' = "nonzero"
     ELSE gpc' = "loop" /\ UNCHANGED verdict
  /\ UNCHANGED <<terminal, failFast, signal, stopped, idx, res, status, upc, uvars,
                 db, exit, quits, broken>>

\* runScanMany's switch.
PlainScopeDone ==
  /\ ~ terminal
  /\ gpc = "done"
  /\ failed' = IF res = "error" THEN failed \cup {idx} ELSE failed
  /\ IF res = "canceled" \/ (res = "error" /\ failFast)
     THEN gpc' = "end" /\ verdict' = "nonzero"
     ELSE gpc' = "loop" /\ UNCHANGED verdict
  /\ UNCHANGED <<terminal, failFast, signal, stopped, idx, res, status, upc, uvars,
                 db, exit, quits, broken>>

\* Mutant of SendDone: fail-fast returns from the goroutine, which then
\* never announces its end.
SendDoneThenReturn ==
  /\ terminal
  /\ gpc = "done"
  /\ Deliver(ScopeDoneMsg(idx))
  /\ IF res # "ok" /\ failFast
     THEN gpc' = "end" /\ stopped' = TRUE
     ELSE gpc' = "loop" /\ UNCHANGED stopped
  /\ UNCHANGED <<terminal, failFast, signal, idx, res, status, failed,
                 db, verdict, exit, quits, broken>>

SendDone ==
  /\ terminal
  /\ gpc = "done"
  /\ Deliver(ScopeDoneMsg(idx))
  /\ IF res # "ok" /\ failFast
     THEN gpc' = "all" /\ stopped' = TRUE
     ELSE gpc' = "loop" /\ UNCHANGED stopped
  /\ UNCHANGED <<terminal, failFast, signal, idx, res, status, failed,
                 db, verdict, exit, quits, broken>>

SendAllDone ==
  /\ gpc = "all"
  /\ Deliver(AllDoneMsg)
  /\ gpc' = "end"
  /\ UNCHANGED <<terminal, failFast, signal, stopped, idx, res, status, failed,
                 db, verdict, exit, quits, broken>>

Loop ==
  \/ NextScope \/ LoopOver \/ SendStart \/ OpenScope \/ OpenScopeFails \/ ReportResource
  \/ ScanReturns \/ PlainScopeDone \/ SendDone \/ SendAllDone

-----------------------------------------------------------------------------
(* The program, the user, the signal, and the end of the process.          *)

\* q or ctrl+c: the scans are cancelled and the program is to quit.
QuitKey ==
  /\ upc # "over"
  /\ stopped' = TRUE
  /\ upc' = "quit"
  /\ quits' = TRUE
  /\ UNCHANGED <<terminal, failFast, signal, gpc, idx, res, status, failed, uvars,
                 db, verdict, exit, broken>>

Signal ==
  /\ ~ signal
  /\ signal' = TRUE
  /\ UNCHANGED <<terminal, failFast, stopped, gpc, idx, res, status, failed, upc, uvars,
                 db, verdict, exit, quits, broken>>

\* Run returns, with an error when the command's context is cancelled; the
\* failed scopes decide otherwise.  The deferred cancel runs.
RunReturns ==
  /\ upc = "quit" \/ (upc = "loop" /\ signal)
  /\ upc' = "over"
  /\ stopped' = TRUE
  /\ verdict' = IF signal \/ uiFailed # {} THEN "nonzero" ELSE "zero"
  /\ UNCHANGED <<terminal, failFast, signal, gpc, idx, res, status, failed, uvars,
                 db, exit, quits, broken>>

\* The deferred st.Close.
CloseStore ==
  /\ verdict # "none"
  /\ db = "open"
  /\ db' = "closed"
  /\ UNCHANGED <<terminal, failFast, signal, stopped, gpc, idx, res, status, failed, upc, uvars,
                 verdict, exit, quits, broken>>

\* The process ends, and with it the goroutine wherever it is.
Exit ==
  /\ db = "closed"
  /\ exit' = verdict
  /\ UNCHANGED <<terminal, failFast, signal, stopped, gpc, idx, res, status, failed, upc, uvars,
                 db, verdict, quits, broken>>

Program == RunReturns \/ CloseStore \/ Exit

Next == Alive /\ (Loop \/ Program \/ QuitKey \/ Signal)

\* The goroutine is scheduled and every scan returns (Scan's ScanReturns),
\* the event loop runs; nobody has to press a key or send a signal.
Fairness == WF_vars(Alive /\ Loop) /\ WF_vars(Alive /\ Program)

Spec == Init /\ [][Next]_vars
FairSpec == Spec /\ Fairness

-----------------------------------------------------------------------------
(* Properties.                                                             *)

\* An invocation leaves at most one run in status running, as long as the
\* database takes its writes, however the signal, the quit key and the end
\* of the process interleave with the loop ("the interrupted project's run
\* row").
OneInterrupted ==
  ~ broken => \A i, j \in Scope : status[i] = "running" /\ status[j] = "running" => i = j

\* With --fail-fast no scope after a failed one gets a run row ("abort on
\* the first project that errors"), although on a terminal the goroutine
\* keeps running beside the program.
FailFastStops ==
  failFast => \A i, j \in Scope : status[i] = "failed" /\ i < j => status[j] = "none"

\* Exit code 0 without a quit key means that every scope has a complete run:
\* no message of the goroutine is lost on the way to the exit code ("Exit
\* code is non-zero if any project failed").
ExitZeroMeansComplete ==
  exit = "zero" /\ ~ quits => \A i \in Scope : status[i] = "ok"

\* While messages are delivered the view follows the database: a scope shown
\* as ok has a complete run, one shown as queued has no run row, and a run
\* under way is shown as the active row.
ViewFollowsRuns ==
  /\ \A i \in Scope : shown[i] = "ok" => status[i] = "ok"
  /\ terminal /\ upc # "over" /\ ~ signal =>
       /\ \A i \in Scope :
            /\ shown[i] = "queued" => status[i] = "none"
            /\ i = active <=> shown[i] = "running"
       /\ \A k \in DOMAIN recent : shown[recent[k]] \in {"ok", "failed"}

\* The command comes to its end by itself: every Send is taken or dropped,
\* and the program hears that the loop is over.
CommandEnds == <>(exit # "none")

\* "Exit code is non-zero if any project failed" (README), whatever made
\* the command end.
ExitTellsFailure ==
  exit = "zero" => \A i \in Scope : status[i] # "failed"

-----------------------------------------------------------------------------
(* The inductive invariants behind them.                                   *)

\* Scope i has been scanned and reported.
Past(i) == i < idx \/ (i = idx /\ gpc \in {"loop", "all", "end"})

\* The run rows follow the loop.
LoopInv ==
  /\ \A i \in Scope : idx < i => status[i] = "none"
  /\ gpc \in {"start", "open"} => status[idx] = "none"
  /\ gpc = "scan" => status[idx] = "running"
  /\ gpc = "done" => (res = "ok" <=> status[idx] = "ok")
                     /\ (status[idx] = "failed" => res = "error")

FailFastInv ==
  failFast => \A i \in Scope : status[i] = "failed" =>
    i = idx /\ (gpc \in {"all", "end"} \/ (gpc = "done" /\ res = "error"))

InterruptInv ==
  \A i \in Scope : status[i] = "running" => broken \/ Cancelled \/ (i = idx /\ gpc = "scan")

\* The plain loop knows the scopes that have no complete run.
PlainInv ==
  ~ terminal =>
    /\ upc = "over"
    /\ gpc \notin {"start", "all"}
    /\ verdict = "none" <=> gpc # "end"
    /\ verdict = "none" => \A i \in Scope : Past(i) => status[i] = "ok" \/ i \in failed

\* So does the view's model, as long as its messages come through.
ViewInv ==
  terminal /\ upc # "over" =>
    /\ verdict = "none"
    /\ ~ signal /\ ~ quits =>
         /\ gpc # "end" => upc = "loop"
         /\ gpc \notin {"all", "end"} => ~ stopped
         /\ gpc \in {"all", "end"} => idx = N \/ uiFailed # {}
         /\ \A i \in Scope : Past(i) => status[i] = "ok" \/ i \in uiFailed

ExitInv ==
  /\ exit # "none" => exit = verdict
  /\ verdict = "zero" /\ ~ quits => gpc = "end" /\ \A i \in Scope : status[i] = "ok"

\* A row shown as ok is behind the loop, where nothing is written any more.
ShownInv == \A i \in Scope : shown[i] = "ok" => Past(i) /\ status[i] = "ok"

\* The scope of the loop has been announced and its end has not.
Underway == gpc \in {"open", "scan", "done"}

\* While messages are delivered the view is where the loop is.
FollowInv ==
  terminal /\ upc # "over" /\ ~ signal =>
    /\ active = IF Underway THEN idx ELSE 0
    /\ \A i \in Scope :
         /\ idx < i \/ (i = idx /\ gpc = "start") => shown[i] = "queued"
         /\ i = idx /\ Underway => shown[i] = "running"
         /\ Past(i) => shown[i] \in {"ok", "failed"}
    /\ \A k \in DOMAIN recent : Past(recent[k])

ScanManyInv ==
  /\ LoopInv /\ FailFastInv /\ InterruptInv /\ OneInterrupted
  /\ PlainInv /\ ViewInv /\ ExitInv /\ ShownInv /\ FollowInv
=============================================================================
