---------------------------- MODULE ScanManyProofs --------------------------
(***************************************************************************)
(* Proofs about ScanMany, for every number of scopes: type correctness,    *)
(* --fail-fast, the single interrupted run, and what exit code 0 means.    *)
(***************************************************************************)
EXTENDS ScanMany, TLAPS

USE DEF Scope

LEMMA TypeInit == Init => MTypeOK
<1>1. Init => FlagsOK
  BY DEF Init, FlagsOK
<1> QED
  BY <1>1, ScanManyAssumption DEF Init, MTypeOK

\* The mode never changes, and a flag that is raised stays raised.
LEMMA FlagsRise ==
  ASSUME [Next]_vars
  PROVE  /\ UNCHANGED <<terminal, failFast>>
         /\ signal' = signal \/ signal' = TRUE
         /\ stopped' = stopped \/ stopped' = TRUE
         /\ quits' = quits \/ quits' = TRUE
         /\ broken => broken'
<1>1. UNCHANGED <<terminal, failFast>>
  BY DEF Next, Loop, NextScope, LoopOver, SendStart, OpenScope, OpenScopeFails, EndScan,
     ReportResource, ScanReturns, PlainScopeDone, SendDone, SendAllDone, Program, RunReturns,
     CloseStore, Exit, QuitKey, Signal, vars
<1>2. signal' = signal \/ signal' = TRUE
  BY DEF Next, Loop, NextScope, LoopOver, SendStart, OpenScope, OpenScopeFails, EndScan,
     ReportResource, ScanReturns, PlainScopeDone, SendDone, SendAllDone, Program, RunReturns,
     CloseStore, Exit, QuitKey, Signal, vars
<1>3. stopped' = stopped \/ stopped' = TRUE
  BY DEF Next, Loop, NextScope, LoopOver, SendStart, OpenScope, OpenScopeFails, EndScan,
     ReportResource, ScanReturns, PlainScopeDone, SendDone, SendAllDone, Program, RunReturns,
     CloseStore, Exit, QuitKey, Signal, vars
<1>4. quits' = quits \/ quits' = TRUE
  BY DEF Next, Loop, NextScope, LoopOver, SendStart, OpenScope, OpenScopeFails, EndScan,
     ReportResource, ScanReturns, PlainScopeDone, SendDone, SendAllDone, Program, RunReturns,
     CloseStore, Exit, QuitKey, Signal, vars
<1>5. broken => broken'
  BY DEF Next, Loop, NextScope, LoopOver, SendStart, OpenScope, OpenScopeFails, EndScan,
     ReportResource, ScanReturns, PlainScopeDone, SendDone, SendAllDone, Program, RunReturns,
     CloseStore, Exit, QuitKey, Signal, vars
<1> QED
  BY <1>1, <1>2, <1>3, <1>4, <1>5

\* The flags stay flags.
LEMMA FlagsStep == FlagsOK /\ [Next]_vars => FlagsOK'
<1> SUFFICES ASSUME FlagsOK, [Next]_vars PROVE FlagsOK'
  OBVIOUS
<1>1. broken' \in BOOLEAN
  BY DEF FlagsOK, Next, Loop, NextScope, LoopOver, SendStart, OpenScope, OpenScopeFails, EndScan,
     ReportResource, ScanReturns, PlainScopeDone, SendDone, SendAllDone, Program, RunReturns,
     CloseStore, Exit, QuitKey, Signal, vars
<1> QED
  BY <1>1, FlagsRise DEF FlagsOK

\* What an outcome is.
LEMMA OutcomeFields ==
  ASSUME NEW c, NEW f, NEW o \in Outcomes(c, f)
  PROVE  /\ o.result \in {"ok", "canceled", "error"}
         /\ o.status \in {"none", "running", "ok", "failed"}
         /\ o.result = "ok" <=> o.status = "ok"
         /\ o.status = "failed" => o.result = "error"
BY DEF Outcomes, Outcome

\* The ring of completions keeps its length.
LEMMA LastFewType ==
  ASSUME NEW s \in Seq(Scope)
  PROVE  LastFew(s) \in Seq(Scope) /\ Len(LastFew(s)) <= RecentCap
BY ScanManyAssumption DEF LastFew

\* A message leaves the view well typed, taken or not.
LEMMA MessageType ==
  ASSUME MTypeOK, NEW i \in Scope,
         \/ Deliver(ScopeStartMsg(i))
         \/ Deliver(ScanProgressMsg(i)) /\ count[i] < MaxCount
         \/ Deliver(ScopeDoneMsg(i))
         \/ Deliver(AllDoneMsg)
  PROVE  /\ shown' \in [Scope -> {"queued", "running", "ok", "failed"}]
         /\ count' \in [Scope -> 0 .. MaxCount]
         /\ active' \in 0 .. N
         /\ recent' \in Seq(Scope) /\ Len(recent') <= RecentCap
         /\ uiFailed' \subseteq Scope
         /\ upc' \in {"loop", "quit", "over"}
<1>0. CASE UNCHANGED <<uvars, upc>>
  BY <1>0 DEF uvars, MTypeOK
<1>1. CASE Deliver(ScopeStartMsg(i))
  <2>1. CASE ScopeStartMsg(i)
    BY <2>1, ScanManyAssumption DEF ScopeStartMsg, MTypeOK
  <2> QED
    BY <1>0, <1>1, <2>1 DEF Deliver
<1>2. CASE Deliver(ScanProgressMsg(i)) /\ count[i] < MaxCount
  <2>1. CASE ScanProgressMsg(i)
    <3>1. count[i] + 1 \in 0 .. MaxCount
      BY <1>2, ScanManyAssumption DEF MTypeOK
    <3> QED
      BY <2>1, <3>1 DEF ScanProgressMsg, MTypeOK
  <2> QED
    BY <1>0, <1>2, <2>1 DEF Deliver
<1>3. CASE Deliver(ScopeDoneMsg(i))
  <2>1. CASE ScopeDoneMsg(i)
    <3>1. Append(recent, i) \in Seq(Scope)
      BY DEF MTypeOK
    <3>2. recent' \in Seq(Scope) /\ Len(recent') <= RecentCap
      BY <2>1, <3>1, LastFewType DEF ScopeDoneMsg
    <3> QED
      BY <2>1, <3>2, ScanManyAssumption DEF ScopeDoneMsg, MTypeOK
  <2> QED
    BY <1>0, <1>3, <2>1 DEF Deliver
<1>4. CASE Deliver(AllDoneMsg)
  BY <1>4 DEF Deliver, AllDoneMsg, uvars, MTypeOK
<1> QED
  BY <1>1, <1>2, <1>3, <1>4

\* AllDoneMsg has no scope.
LEMMA AllDoneType ==
  ASSUME MTypeOK, Deliver(AllDoneMsg)
  PROVE  UNCHANGED uvars /\ upc' \in {"loop", "quit", "over"}
BY DEF Deliver, AllDoneMsg, uvars, MTypeOK

LEMMA TypeStep == MTypeOK /\ [Next]_vars => MTypeOK'
<1> SUFFICES ASSUME MTypeOK, [Next]_vars PROVE MTypeOK'
  OBVIOUS
<1>0. N \in Nat /\ N >= 1 /\ MaxCount \in Nat /\ FlagsOK'
  BY ScanManyAssumption, FlagsStep DEF MTypeOK
<1>1. CASE NextScope
  BY <1>0, <1>1 DEF NextScope, uvars, MTypeOK
<1>2. CASE LoopOver
  BY <1>0, <1>2 DEF LoopOver, uvars, MTypeOK
<1>3. CASE SendStart
  <2>1. idx \in Scope
    BY <1>3 DEF SendStart, MTypeOK
  <2> QED
    BY <1>0, <1>3, <2>1, MessageType DEF SendStart, MTypeOK
<1>4. CASE OpenScope
  BY <1>0, <1>4 DEF OpenScope, uvars, MTypeOK
<1>5. ASSUME NEW o, EndScan(o), gpc \in {"open", "scan"} PROVE MTypeOK'
  BY <1>0, <1>5, OutcomeFields DEF EndScan, uvars, MTypeOK
<1>6. CASE OpenScopeFails \/ ScanReturns
  BY <1>5, <1>6 DEF OpenScopeFails, ScanReturns
<1>7. CASE ReportResource
  <2>1. idx \in Scope
    BY <1>7 DEF ReportResource, MTypeOK
  <2> QED
    BY <1>0, <1>7, <2>1, MessageType DEF ReportResource, MTypeOK
<1>8. CASE PlainScopeDone
  BY <1>0, <1>8 DEF PlainScopeDone, uvars, MTypeOK
<1>9. CASE SendDone
  <2>1. idx \in Scope
    BY <1>9 DEF SendDone, MTypeOK
  <2> QED
    BY <1>0, <1>9, <2>1, MessageType DEF SendDone, MTypeOK
<1>10. CASE SendAllDone
  BY <1>0, <1>10, AllDoneType DEF SendAllDone, uvars, MTypeOK
<1>11. CASE Program \/ QuitKey \/ Signal
  BY <1>0, <1>11 DEF Program, RunReturns, CloseStore, Exit, QuitKey, Signal, uvars, MTypeOK
<1>12. CASE UNCHANGED vars
  BY <1>0, <1>12 DEF vars, uvars, MTypeOK
<1> QED
  BY <1>1, <1>2, <1>3, <1>4, <1>6, <1>7, <1>8, <1>9, <1>10, <1>11, <1>12 DEF Next, Loop

\* Every reachable state of a command over any number of scopes is well typed.
THEOREM ScanManyTypeCorrect == Spec => []MTypeOK
BY TypeInit, TypeStep, PTL DEF Spec

-----------------------------------------------------------------------------
(* The loop and its run rows.                                              *)

\* A scan's end, with what its outcome says.
LEMMA ScanEnds ==
  ASSUME MTypeOK, NEW o, EndScan(o)
  PROVE  /\ o.result \in {"ok", "canceled", "error"}
         /\ o.status \in {"none", "running", "ok", "failed"}
         /\ o.result = "ok" <=> o.status = "ok"
         /\ o.status = "failed" => o.result = "error"
         /\ res' = o.result /\ gpc' = "done" /\ idx' = idx
         /\ status' = [status EXCEPT ![idx] = o.status]
         /\ UNCHANGED <<terminal, failFast, signal, stopped, failed, upc, uvars, db, verdict, exit,
                        quits>>
BY OutcomeFields DEF EndScan

\* Every step of the command but those of the loop leaves the loop alone.
LEMMA LoopFrame ==
  ASSUME Program \/ QuitKey \/ Signal \/ UNCHANGED vars
  PROVE  UNCHANGED <<terminal, failFast, gpc, idx, res, status, failed, uvars>>
BY DEF Program, RunReturns, CloseStore, Exit, QuitKey, Signal, vars

LEMMA LoopInit == Init => LoopInv
BY ScanManyAssumption DEF Init, LoopInv

LEMMA LoopStep ==
  ASSUME MTypeOK, LoopInv, [Next]_vars
  PROVE  LoopInv'
<1>0. N \in Nat /\ N >= 1 /\ idx \in 0 .. N
  BY ScanManyAssumption DEF MTypeOK
<1>1. CASE NextScope
  BY <1>0, <1>1 DEF NextScope, LoopInv
<1>2. CASE LoopOver \/ SendAllDone \/ ReportResource
  BY <1>0, <1>2 DEF LoopOver, SendAllDone, ReportResource, LoopInv
<1>3. CASE SendStart
  BY <1>0, <1>3 DEF SendStart, LoopInv
<1>4. CASE OpenScope
  BY <1>0, <1>4 DEF OpenScope, LoopInv, MTypeOK
<1>5. ASSUME NEW o, EndScan(o), gpc \in {"open", "scan"}
      PROVE  LoopInv'
  <2>1. /\ gpc' = "done" /\ idx' = idx /\ idx \in Scope /\ res' = o.result
        /\ status' = [status EXCEPT ![idx] = o.status]
    BY <1>5, ScanEnds DEF MTypeOK
  <2>2. status'[idx] = o.status /\ \A i \in Scope : idx < i => status'[i] = status[i]
    BY <1>0, <2>1 DEF MTypeOK
  <2> QED
    BY <1>5, <2>1, <2>2, ScanEnds DEF LoopInv
<1>6. CASE OpenScopeFails \/ ScanReturns
  BY <1>5, <1>6 DEF OpenScopeFails, ScanReturns
<1>7. CASE PlainScopeDone \/ SendDone
  BY <1>0, <1>7 DEF PlainScopeDone, SendDone, LoopInv
<1>8. CASE Program \/ QuitKey \/ Signal \/ UNCHANGED vars
  BY <1>8, LoopFrame DEF LoopInv
<1> QED
  BY <1>1, <1>2, <1>3, <1>4, <1>6, <1>7, <1>8 DEF Next, Loop

-----------------------------------------------------------------------------
(* --fail-fast.                                                            *)

LEMMA FailFastStep ==
  ASSUME MTypeOK, LoopInv, FailFastInv, [Next]_vars
  PROVE  FailFastInv'
<1>0. N \in Nat /\ N >= 1 /\ idx \in 0 .. N
  BY ScanManyAssumption DEF MTypeOK
<1>1. CASE NextScope \/ LoopOver \/ SendAllDone \/ ReportResource \/ SendStart
  BY <1>0, <1>1 DEF NextScope, LoopOver, SendAllDone, ReportResource, SendStart, FailFastInv
<1>2. CASE OpenScope
  BY <1>0, <1>2 DEF OpenScope, FailFastInv, MTypeOK
<1>3. ASSUME NEW o, EndScan(o), gpc \in {"open", "scan"}
      PROVE  FailFastInv'
  BY <1>0, <1>3, ScanEnds DEF FailFastInv, MTypeOK
<1>4. CASE OpenScopeFails \/ ScanReturns
  BY <1>3, <1>4 DEF OpenScopeFails, ScanReturns
<1>5. CASE PlainScopeDone \/ SendDone
  BY <1>0, <1>5 DEF PlainScopeDone, SendDone, FailFastInv
<1>6. CASE Program \/ QuitKey \/ Signal \/ UNCHANGED vars
  BY <1>6, LoopFrame DEF FailFastInv
<1> QED
  BY <1>1, <1>2, <1>4, <1>5, <1>6 DEF Next, Loop

\* Under --fail-fast no scope after a failed one gets a run row, with or
\* without a terminal and for any number of scopes.
THEOREM FailFastCorrect == Spec => []FailFastStops
<1> DEFINE Inv == MTypeOK /\ LoopInv /\ FailFastInv
<1>1. Init => Inv
  BY TypeInit, LoopInit DEF Init, FailFastInv
<1>2. Inv /\ [Next]_vars => Inv'
  BY TypeStep, LoopStep, FailFastStep
<1>3. Inv => FailFastStops
  BY DEF LoopInv, FailFastInv, FailFastStops
<1> QED
  BY <1>1, <1>2, <1>3, PTL DEF Spec

-----------------------------------------------------------------------------
(* The interrupted run.                                                    *)

\* A cancellation and a refused write are never taken back.
LEMMA CancelledStays ==
  ASSUME [Next]_vars
  PROVE  (Cancelled => Cancelled') /\ (broken => broken')
<1>1. /\ signal' = signal \/ signal' = TRUE
      /\ stopped' = stopped \/ stopped' = TRUE
      /\ broken => broken'
  BY FlagsRise
<1> QED
  BY <1>1 DEF Cancelled

\* Without a refused write only a cancelled scan leaves its run running.
LEMMA RunningOutcome ==
  ASSUME NEW o, EndScan(o), o.status = "running"
  PROVE  broken' \/ Cancelled
<1>1. CASE o \notin Outcomes(Cancelled, FALSE)
  BY <1>1 DEF EndScan
<1>2. CASE o \in Outcomes(Cancelled, FALSE)
  BY <1>2 DEF Outcomes, Outcome
<1> QED
  BY <1>1, <1>2

LEMMA InterruptStep ==
  ASSUME MTypeOK, LoopInv, InterruptInv, OneInterrupted, [Next]_vars
  PROVE  InterruptInv' /\ OneInterrupted'
<1>0. N \in Nat /\ N >= 1 /\ idx \in 0 .. N
  BY ScanManyAssumption DEF MTypeOK
<1>1. CASE OpenScope
  <2>1. ~ Cancelled /\ broken' = broken /\ gpc' = "scan" /\ gpc = "open" /\ idx' = idx /\ idx \in Scope
        /\ status' = [status EXCEPT ![idx] = "running"]
    BY <1>1 DEF OpenScope, MTypeOK
  <2>2. \A i \in Scope : status'[i] = "running" => broken \/ i = idx
    BY <2>1 DEF InterruptInv, MTypeOK
  <2> QED
    BY <2>1, <2>2 DEF InterruptInv, OneInterrupted
<1>2. ASSUME NEW o, EndScan(o), gpc \in {"open", "scan"}, gpc = "open" => o.status = "none"
      PROVE  InterruptInv' /\ OneInterrupted'
  <2>1. status' = [status EXCEPT ![idx] = o.status] /\ idx \in Scope /\ idx' = idx
    BY <1>2, ScanEnds DEF MTypeOK
  <2>2. \A i \in Scope : status'[i] = IF i = idx THEN o.status ELSE status[i]
    BY <2>1 DEF MTypeOK
  <2>3. \A i \in Scope : status'[i] = "running" => status[i] = "running"
    BY <1>2, <2>1, <2>2 DEF LoopInv
  <2>4. \A i \in Scope : status'[i] = "running" => broken' \/ Cancelled'
    BY <1>2, <2>1, <2>2, RunningOutcome, CancelledStays DEF InterruptInv
  <2>5. broken => broken'
    BY CancelledStays
  <2> QED
    BY <2>3, <2>4, <2>5 DEF InterruptInv, OneInterrupted
<1>3. CASE OpenScopeFails \/ ScanReturns
  BY <1>2, <1>3 DEF OpenScopeFails, ScanReturns, Outcome
<1>4. CASE \/ NextScope \/ LoopOver \/ SendStart \/ ReportResource \/ PlainScopeDone \/ SendDone
           \/ SendAllDone
  <2>1. status' = status /\ (gpc = "scan" => gpc' = "scan" /\ idx' = idx)
    BY <1>4 DEF NextScope, LoopOver, SendStart, ReportResource, PlainScopeDone, SendDone, SendAllDone
  <2> QED
    BY <2>1, CancelledStays DEF InterruptInv, OneInterrupted
<1>5. CASE Program \/ QuitKey \/ Signal \/ UNCHANGED vars
  BY <1>5, LoopFrame, CancelledStays DEF InterruptInv, OneInterrupted
<1> QED
  BY <1>1, <1>3, <1>4, <1>5 DEF Next, Loop

\* Whatever is pressed, signalled or torn down and whenever, the command
\* leaves at most one run in status running while the database takes writes.
THEOREM OneInterruptedCorrect == Spec => []OneInterrupted
<1> DEFINE Inv == MTypeOK /\ LoopInv /\ InterruptInv /\ OneInterrupted
<1>1. Init => Inv
  BY TypeInit, LoopInit DEF Init, InterruptInv, OneInterrupted
<1>2. Inv /\ [Next]_vars => Inv'
  BY TypeStep, LoopStep, InterruptStep
<1>3. Inv => OneInterrupted
  OBVIOUS
<1> QED
  BY <1>1, <1>2, <1>3, PTL DEF Spec

-----------------------------------------------------------------------------
(* The exit code.                                                          *)

\* What a message does to the view's knowledge of failures.
LEMMA MessageKnows ==
  ASSUME MTypeOK, upc # "over", ~ signal,
         NEW i, Deliver(ScopeStartMsg(i)) \/ Deliver(ScanProgressMsg(i))
  PROVE  UNCHANGED <<uiFailed, upc>>
BY DEF Deliver, ScopeStartMsg, ScanProgressMsg

LEMMA DoneKnows ==
  ASSUME MTypeOK, upc # "over", ~ signal, NEW i, Deliver(ScopeDoneMsg(i))
  PROVE  UNCHANGED upc /\ uiFailed' = IF res = "ok" THEN uiFailed ELSE uiFailed \cup {i}
BY DEF Deliver, ScopeDoneMsg

\* Nobody but the event loop ends the program.
LEMMA OverOnlyByRun ==
  ASSUME [Next]_vars, ~ RunReturns
  PROVE  upc = "over" <=> upc' = "over"
<1>1. ASSUME NEW i, \/ Deliver(ScopeStartMsg(i)) \/ Deliver(ScanProgressMsg(i))
                    \/ Deliver(ScopeDoneMsg(i)) \/ Deliver(AllDoneMsg)
      PROVE  upc = "over" <=> upc' = "over"
  BY <1>1 DEF Deliver, ScopeStartMsg, ScanProgressMsg, ScopeDoneMsg, AllDoneMsg
<1>2. CASE SendStart \/ ReportResource \/ SendDone \/ SendAllDone
  BY <1>1, <1>2 DEF SendStart, ReportResource, SendDone, SendAllDone
<1>3. CASE ~ (SendStart \/ ReportResource \/ SendDone \/ SendAllDone)
  BY <1>3 DEF Next, Loop, NextScope, LoopOver, OpenScope, OpenScopeFails, EndScan, ScanReturns,
     PlainScopeDone, Program, CloseStore, Exit, QuitKey, Signal, vars
<1> QED
  BY <1>2, <1>3

LEMMA PlainStep ==
  ASSUME MTypeOK, LoopInv, PlainInv, [Next]_vars
  PROVE  PlainInv'
<1> SUFFICES ASSUME ~ terminal' PROVE PlainInv'
  BY DEF PlainInv
<1>a. ~ terminal
  BY FlagsRise
<1>b. N \in Nat /\ N >= 1 /\ idx \in 0 .. N
  BY ScanManyAssumption DEF MTypeOK
<1>c. upc = "over" /\ gpc \notin {"start", "all"}
  BY <1>a DEF PlainInv
<1>0. N \in Nat /\ N >= 1 /\ idx \in 0 .. N /\ ~ terminal /\ upc = "over" /\ gpc \notin {"start", "all"}
  BY <1>a, <1>b, <1>c
<1>1. ~ RunReturns /\ ~ QuitKey
  BY <1>0 DEF RunReturns, QuitKey
<1>2. upc' = "over"
  BY <1>0, <1>1, OverOnlyByRun
<1>3. CASE NextScope
  BY <1>0, <1>2, <1>3 DEF NextScope, PlainInv, Past
<1>4. CASE LoopOver
  BY <1>0, <1>2, <1>4 DEF LoopOver, PlainInv
<1>5. CASE OpenScope
  BY <1>0, <1>2, <1>5 DEF OpenScope, PlainInv, Past, MTypeOK
<1>6. ASSUME NEW o, EndScan(o), gpc \in {"open", "scan"}
      PROVE  PlainInv'
  BY <1>0, <1>2, <1>6, ScanEnds DEF PlainInv, Past, MTypeOK
<1>7. CASE OpenScopeFails \/ ScanReturns
  BY <1>6, <1>7 DEF OpenScopeFails, ScanReturns
<1>8. CASE PlainScopeDone
  <2>1. res \in {"ok", "canceled", "error"} /\ (res = "ok" <=> status[idx] = "ok")
    BY <1>8 DEF PlainScopeDone, LoopInv, MTypeOK
  <2> QED
    BY <1>0, <1>2, <1>8, <2>1 DEF PlainScopeDone, PlainInv, Past
<1>9. CASE SendStart \/ ReportResource \/ SendDone \/ SendAllDone
  BY <1>0, <1>9 DEF SendStart, ReportResource, SendDone, SendAllDone
<1>10. CASE CloseStore \/ Exit \/ Signal \/ UNCHANGED vars
  <2>1. UNCHANGED <<gpc, idx, status, failed, verdict>>
    BY <1>10 DEF CloseStore, Exit, Signal, vars
  <2> QED
    BY <1>0, <1>2, <2>1 DEF PlainInv, Past
<1> QED
  BY <1>1, <1>3, <1>4, <1>5, <1>7, <1>8, <1>9, <1>10 DEF Next, Loop, Program

\* The part of ViewInv that holds until the quit key or the signal.
Knows ==
  /\ gpc # "end" => upc = "loop"
  /\ gpc \notin {"all", "end"} => ~ stopped
  /\ gpc \in {"all", "end"} => idx = N \/ uiFailed # {}
  /\ \A i \in Scope : Past(i) => status[i] = "ok" \/ i \in uiFailed

LEMMA KnowsStep ==
  ASSUME MTypeOK, LoopInv, Knows, terminal, ~ signal, ~ quits, upc # "over",
         [Next]_vars, ~ signal', ~ quits', upc' # "over"
  PROVE  Knows'
<1>0. N \in Nat /\ N >= 1 /\ idx \in 0 .. N
  BY ScanManyAssumption DEF MTypeOK
<1>1. ~ RunReturns /\ ~ QuitKey /\ ~ Signal
  BY DEF RunReturns, QuitKey, Signal
<1>2. CASE NextScope
  BY <1>0, <1>2 DEF NextScope, Knows, Past, uvars
<1>3. CASE LoopOver
  <2>1. idx = N /\ gpc = "loop" /\ gpc' = "all"
    BY <1>3 DEF LoopOver, Cancelled, Knows
  <2> QED
    BY <1>0, <1>3, <2>1 DEF LoopOver, Knows, Past, uvars
<1>4. CASE SendStart
  <2>1. UNCHANGED <<uiFailed, upc>>
    BY <1>4, MessageKnows DEF SendStart
  <2> QED
    BY <1>0, <1>4, <2>1 DEF SendStart, Knows, Past
<1>5. CASE ReportResource
  <2>1. UNCHANGED <<uiFailed, upc>>
    BY <1>5, MessageKnows DEF ReportResource
  <2> QED
    BY <1>0, <1>5, <2>1 DEF ReportResource, Knows, Past
<1>6. CASE OpenScope
  BY <1>0, <1>6 DEF OpenScope, Knows, Past, uvars, MTypeOK
<1>7. ASSUME NEW o, EndScan(o), gpc \in {"open", "scan"}
      PROVE  Knows'
  <2>1. /\ gpc' = "done" /\ idx' = idx /\ idx \in Scope /\ status' = [status EXCEPT ![idx] = o.status]
        /\ UNCHANGED <<stopped, upc, uiFailed>>
    BY <1>7, ScanEnds DEF uvars, MTypeOK
  <2>2. \A i \in Scope : i < idx => status'[i] = status[i]
    BY <1>0, <2>1 DEF MTypeOK
  <2>3. \A i \in Scope : Past(i)' => i < idx
    BY <2>1 DEF Past
  <2>4. \A i \in Scope : i < idx => status[i] = "ok" \/ i \in uiFailed
    BY DEF Knows, Past
  <2>5. ~ stopped /\ upc = "loop"
    BY <1>7 DEF Knows
  <2> QED
    BY <2>1, <2>2, <2>3, <2>4, <2>5 DEF Knows
<1>8. CASE OpenScopeFails \/ ScanReturns
  BY <1>7, <1>8 DEF OpenScopeFails, ScanReturns
<1>9. CASE PlainScopeDone
  BY <1>9 DEF PlainScopeDone
<1>10. CASE SendDone
  <2>1. idx \in Scope /\ res \in {"ok", "canceled", "error"} /\ (res = "ok" <=> status[idx] = "ok")
    BY <1>10 DEF SendDone, LoopInv, MTypeOK
  <2>2. UNCHANGED upc /\ uiFailed' = IF res = "ok" THEN uiFailed ELSE uiFailed \cup {idx}
    BY <1>10, DoneKnows DEF SendDone
  <2>3. gpc' = "all" => uiFailed' # {}
    BY <1>10, <2>2 DEF SendDone
  <2>4. gpc' = "loop" => stopped' = stopped
    BY <1>10 DEF SendDone
  <2>5. gpc' \in {"loop", "all"} /\ gpc = "done" /\ idx' = idx /\ status' = status
    BY <1>10 DEF SendDone
  <2>6. \A i \in Scope : Past(i)' => status[i] = "ok" \/ i \in uiFailed'
    BY <1>0, <2>1, <2>2, <2>5 DEF Knows, Past
  <2> QED
    BY <2>1, <2>2, <2>3, <2>4, <2>5, <2>6 DEF Knows
<1>11. CASE SendAllDone
  <2>1. uiFailed' = uiFailed
    BY <1>11 DEF SendAllDone, Deliver, AllDoneMsg, uvars
  <2> QED
    BY <1>0, <1>11, <2>1 DEF SendAllDone, Knows, Past
<1>12. CASE CloseStore \/ Exit \/ UNCHANGED vars
  <2>1. UNCHANGED <<gpc, idx, status, stopped, upc, uiFailed>>
    BY <1>12 DEF CloseStore, Exit, vars, uvars
  <2> QED
    BY <2>1 DEF Knows, Past
<1> QED
  BY <1>1, <1>2, <1>3, <1>4, <1>5, <1>6, <1>8, <1>9, <1>10, <1>11, <1>12 DEF Next, Loop, Program

LEMMA ViewStep ==
  ASSUME MTypeOK, LoopInv, ViewInv, [Next]_vars
  PROVE  ViewInv'
<1> SUFFICES ASSUME terminal', upc' # "over"
             PROVE  verdict' = "none" /\ (~ signal' /\ ~ quits' => Knows')
  BY DEF ViewInv, Knows, Past
<1>1. ~ RunReturns
  BY DEF RunReturns
<1>2. terminal
  BY FlagsRise
<1>3. upc # "over"
  BY <1>1, OverOnlyByRun
<1>4. verdict = "none" /\ (~ signal /\ ~ quits => Knows)
  BY <1>2, <1>3 DEF ViewInv, Knows
<1>5. verdict' = verdict
  BY <1>1, <1>2 DEF Next, Loop, NextScope, LoopOver, SendStart, OpenScope, OpenScopeFails, EndScan,
     ReportResource, ScanReturns, PlainScopeDone, SendDone, SendAllDone, Program, CloseStore, Exit,
     QuitKey, Signal, vars
<1>6. ~ signal' => ~ signal
  BY FlagsRise
<1>7. ~ quits' => ~ quits
  BY FlagsRise
<1> QED
  BY <1>2, <1>3, <1>4, <1>5, <1>6, <1>7, KnowsStep

\* A verdict is given once, by the end of the plain loop or by the end of
\* the program.
LEMMA VerdictGiven ==
  ASSUME [Next]_vars
  PROVE  \/ verdict' = verdict
         \/ ~ terminal /\ LoopOver
         \/ PlainScopeDone /\ verdict' = "nonzero"
         \/ RunReturns
BY DEF Next, Loop, NextScope, LoopOver, SendStart, OpenScope, OpenScopeFails, EndScan,
   ReportResource, ScanReturns, PlainScopeDone, SendDone, SendAllDone, Program, CloseStore, Exit,
   QuitKey, Signal, vars

\* A loop that is over stays over.
LEMMA LoopEnded ==
  ASSUME [Next]_vars, gpc = "end"
  PROVE  gpc' = "end" /\ status' = status
<1>1. ~ Loop
  BY DEF Loop, NextScope, LoopOver, SendStart, OpenScope, OpenScopeFails, ReportResource, ScanReturns,
     PlainScopeDone, SendDone, SendAllDone
<1> QED
  BY <1>1, LoopFrame DEF Next

LEMMA ExitStep ==
  ASSUME MTypeOK, LoopInv, PlainInv, ViewInv, ExitInv, [Next]_vars
  PROVE  ExitInv'
<1>0. N \in Nat /\ N >= 1 /\ idx \in 0 .. N
  BY ScanManyAssumption DEF MTypeOK
<1>1. exit' # "none" => exit' = verdict'
  <2>1. CASE UNCHANGED vars
    BY <2>1 DEF vars, ExitInv
  <2>2. CASE Exit
    BY <2>2 DEF Exit
  <2>3. CASE Next /\ ~ Exit
    BY <2>3 DEF Next, Alive, Loop, NextScope, LoopOver, SendStart, OpenScope, OpenScopeFails, EndScan,
       ReportResource, ScanReturns, PlainScopeDone, SendDone, SendAllDone, Program, RunReturns,
       CloseStore, QuitKey, Signal
  <2> QED
    BY <2>1, <2>2, <2>3
<1>2. ASSUME verdict' = "zero", ~ quits'
      PROVE  gpc' = "end" /\ \A i \in Scope : status'[i] = "ok"
  <2>1. ~ quits
    BY <1>2, FlagsRise
  <2>2. CASE verdict' = verdict
    BY <1>2, <2>1, <2>2, LoopEnded DEF ExitInv
  <2>3. CASE ~ terminal /\ LoopOver
    <3>1. gpc = "loop" /\ idx = N /\ gpc' = "end" /\ failed = {} /\ status' = status
      BY <1>2, <2>3 DEF LoopOver
    <3>2. verdict = "none"
      BY <2>3, <3>1 DEF PlainInv
    <3>3. \A i \in Scope : Past(i)
      BY <1>0, <3>1 DEF Past
    <3> QED
      BY <2>3, <3>1, <3>2, <3>3 DEF PlainInv
  <2>4. CASE RunReturns
    <3>1. upc # "over" /\ ~ signal /\ uiFailed = {} /\ upc = "quit" /\ gpc' = gpc /\ status' = status
      BY <1>2, <2>4 DEF RunReturns
    <3>2. terminal
      BY <3>1 DEF PlainInv
    <3>3. gpc = "end" /\ idx = N
      BY <2>1, <3>1, <3>2 DEF ViewInv
    <3>4. \A i \in Scope : Past(i)
      BY <1>0, <3>3 DEF Past
    <3> QED
      BY <2>1, <3>1, <3>2, <3>3, <3>4 DEF ViewInv
  <2> QED
    BY <1>2, <2>2, <2>3, <2>4, VerdictGiven
<1> QED
  BY <1>1, <1>2 DEF ExitInv

\* Exit code 0 without a quit key means that every one of the scopes has a
\* complete run: the verdict is given from a failure list that has heard of
\* every scan, in the plain loop and in the program's model.
THEOREM ExitZeroCorrect == Spec => []ExitZeroMeansComplete
<1> DEFINE Inv == MTypeOK /\ LoopInv /\ PlainInv /\ ViewInv /\ ExitInv
<1>1. Init => Inv
  <2>1. Init => PlainInv /\ ViewInv
    BY ScanManyAssumption DEF Init, PlainInv, ViewInv, Past
  <2>2. Init => ExitInv
    BY DEF Init, ExitInv
  <2> QED
    BY <2>1, <2>2, TypeInit, LoopInit
<1>2. Inv /\ [Next]_vars => Inv'
  BY TypeStep, LoopStep, PlainStep, ViewStep, ExitStep
<1>3. Inv => ExitZeroMeansComplete
  BY DEF ExitInv, ExitZeroMeansComplete
<1> QED
  BY <1>1, <1>2, <1>3, PTL DEF Spec

-----------------------------------------------------------------------------
(* The view.                                                               *)

\* What is behind the loop stays there, with its status.
LEMMA PastStays ==
  ASSUME MTypeOK, [Next]_vars, NEW i \in Scope, Past(i)
  PROVE  Past(i)' /\ status'[i] = status[i]
<1>0. N \in Nat /\ idx \in 0 .. N
  BY ScanManyAssumption DEF MTypeOK
<1>1. CASE NextScope \/ LoopOver \/ SendAllDone
  BY <1>0, <1>1 DEF NextScope, LoopOver, SendAllDone, Past
<1>2. CASE SendStart \/ ReportResource \/ PlainScopeDone \/ SendDone
  BY <1>0, <1>2 DEF SendStart, ReportResource, PlainScopeDone, SendDone, Past
<1>3. CASE OpenScope
  BY <1>0, <1>3 DEF OpenScope, Past, MTypeOK
<1>4. CASE OpenScopeFails \/ ScanReturns
  <2>1. gpc \in {"open", "scan"} /\ \E o : EndScan(o)
    BY <1>4 DEF OpenScopeFails, ScanReturns
  <2> QED
    BY <1>0, <2>1 DEF EndScan, Past, MTypeOK
<1>5. CASE Program \/ QuitKey \/ Signal \/ UNCHANGED vars
  BY <1>5, LoopFrame DEF Past
<1> QED
  BY <1>1, <1>2, <1>3, <1>4, <1>5 DEF Next, Loop

\* What is not a message leaves the view alone.
LEMMA ViewFrame ==
  ASSUME [Next]_vars, ~ SendStart, ~ ReportResource, ~ SendDone
  PROVE  UNCHANGED <<shown, active, recent>>
<1>1. CASE SendAllDone
  BY <1>1 DEF SendAllDone, Deliver, AllDoneMsg, uvars
<1>2. CASE ~ SendAllDone
  BY <1>2 DEF Next, Loop, NextScope, LoopOver, OpenScope, OpenScopeFails, EndScan,
     ScanReturns, PlainScopeDone, Program, RunReturns, CloseStore, Exit, QuitKey, Signal,
     uvars, vars
<1> QED
  BY <1>1, <1>2

LEMMA ShownStep ==
  ASSUME MTypeOK, LoopInv, ShownInv, [Next]_vars
  PROVE  ShownInv'
<1> SUFFICES ASSUME NEW i \in Scope, shown'[i] = "ok"
             PROVE  Past(i)' /\ status'[i] = "ok"
  BY DEF ShownInv
<1>1. CASE shown[i] = "ok"
  BY <1>1, PastStays DEF ShownInv
<1>2. CASE shown[i] # "ok"
  <2>1. CASE SendStart
    BY <1>2, <2>1 DEF SendStart, Deliver, ScopeStartMsg, uvars, MTypeOK
  <2>2. CASE ReportResource
    BY <1>2, <2>2 DEF ReportResource, Deliver, ScanProgressMsg, uvars
  <2>3. CASE SendDone
    <3>1. i = idx /\ res = "ok"
      BY <1>2, <2>3 DEF SendDone, Deliver, ScopeDoneMsg, uvars, MTypeOK
    <3> QED
      BY <2>3, <3>1 DEF SendDone, LoopInv, Past
  <2> QED
    BY <1>2, <2>1, <2>2, <2>3, ViewFrame
<1> QED
  BY <1>1, <1>2

\* A message reaches the view as long as nobody signals and the program runs.
LEMMA MessageArrives ==
  ASSUME MTypeOK, [Next]_vars, upc' # "over", ~ signal'
  PROVE  upc # "over" /\ ~ signal
<1>1. ~ signal
  BY FlagsRise DEF MTypeOK, FlagsOK
<1>2. ~ RunReturns
  BY DEF RunReturns
<1> QED
  BY <1>1, <1>2, OverOnlyByRun

LEMMA SubSeqElement ==
  ASSUME NEW S, NEW s \in Seq(S), NEW m \in 1 .. Len(s), NEW k \in 1 .. Len(s) - m + 1
  PROVE  SubSeq(s, m, Len(s))[k] = s[m + k - 1]
OBVIOUS

\* What the ring lists was behind the loop, or is the scope just reported.
LEMMA RecentStep ==
  ASSUME MTypeOK, ScopeDoneMsg(idx), idx \in Scope, NEW k \in DOMAIN recent'
  PROVE  recent'[k] = idx \/ \E j \in DOMAIN recent : recent'[k] = recent[j]
<1> DEFINE all == Append(recent, idx)
       m == IF Len(all) > RecentCap THEN Len(all) - RecentCap + 1 ELSE 1
<1>1. recent \in Seq(Scope) /\ all \in Seq(Scope) /\ Len(all) = Len(recent) + 1
  BY DEF MTypeOK
<1>2. m \in 1 .. Len(all) /\ recent' = SubSeq(all, m, Len(all))
  BY <1>1, ScanManyAssumption DEF ScopeDoneMsg, LastFew
<1> HIDE DEF m
<1> HIDE DEF all
<1>3. k + m - 1 \in 1 .. Len(all) /\ recent'[k] = all[k + m - 1]
  <2>1. DOMAIN recent' = 1 .. Len(all) - m + 1
    BY <1>1, <1>2
  <2>2. k \in 1 .. Len(all) - m + 1 /\ m \in Nat /\ k \in Nat /\ Len(all) \in Nat
    BY <1>1, <1>2, <2>1
  <2>3. k + m - 1 \in 1 .. Len(all)
    BY <1>2, <2>2
  <2>4. SubSeq(all, m, Len(all))[k] = all[m + k - 1]
    BY <1>1, <1>2, <2>2, SubSeqElement
  <2> QED
    BY <1>2, <2>2, <2>3, <2>4
<1> USE DEF all
<1>4. CASE k + m - 1 = Len(recent) + 1
  BY <1>1, <1>3, <1>4
<1>5. CASE k + m - 1 \in 1 .. Len(recent)
  BY <1>1, <1>3, <1>5
<1> QED
  BY <1>1, <1>3, <1>4, <1>5

LEMMA FollowInit == Init => FollowInv
BY ScanManyAssumption DEF Init, FollowInv, Past, Underway

LEMMA FollowStep ==
  ASSUME MTypeOK, FollowInv, [Next]_vars
  PROVE  FollowInv'
<1> SUFFICES ASSUME terminal', upc' # "over", ~ signal'
             PROVE  (/\ active = IF Underway THEN idx ELSE 0
                     /\ \A i \in Scope :
                          /\ idx < i \/ (i = idx /\ gpc = "start") => shown[i] = "queued"
                          /\ i = idx /\ Underway => shown[i] = "running"
                          /\ Past(i) => shown[i] \in {"ok", "failed"}
                     /\ \A k \in DOMAIN recent : Past(recent[k]))'
  BY DEF FollowInv
<1>0. /\ N \in Nat /\ idx \in 0 .. N /\ upc # "over" /\ ~ signal
      /\ terminal /\ recent \in Seq(Scope)
  BY ScanManyAssumption, MessageArrives, FlagsRise DEF MTypeOK
<1>1. /\ active = IF Underway THEN idx ELSE 0
      /\ \A i \in Scope :
           /\ idx < i \/ (i = idx /\ gpc = "start") => shown[i] = "queued"
           /\ i = idx /\ Underway => shown[i] = "running"
           /\ Past(i) => shown[i] \in {"ok", "failed"}
      /\ \A k \in DOMAIN recent : Past(recent[k])
  BY <1>0 DEF FollowInv
<1>2. \A i \in Scope : Past(i) => Past(i)'
  BY PastStays
<1> HIDE DEF Scope
<1>r. \A k \in DOMAIN recent : recent[k] \in Scope
  BY <1>0
<1>3. CASE SendStart
  <2>1. gpc = "start" /\ idx' = idx /\ gpc' = "open" /\ idx \in Scope
    BY <1>3 DEF SendStart, MTypeOK
  <2>2. shown' = [shown EXCEPT ![idx] = "running"] /\ active' = idx /\ recent' = recent
    BY <1>0, <1>3 DEF SendStart, Deliver, ScopeStartMsg
  <2> QED
    BY <1>0, <1>1, <1>2, <1>r, <2>1, <2>2 DEF Scope, MTypeOK, Underway, Past
<1>4. CASE ReportResource
  <2>1. UNCHANGED <<gpc, idx, shown, active, recent>>
    BY <1>0, <1>4 DEF ReportResource, Deliver, ScanProgressMsg
  <2> QED
    BY <1>1, <1>2, <1>r, <2>1 DEF Underway, Past
<1>5. CASE SendDone
  <2>1. gpc = "done" /\ idx' = idx /\ gpc' \in {"all", "loop"} /\ idx \in Scope
    BY <1>5 DEF SendDone, MTypeOK
  <2>2. ScopeDoneMsg(idx)
    BY <1>0, <1>5 DEF SendDone, Deliver
  <2>3. /\ shown' = [shown EXCEPT ![idx] = IF res = "ok" THEN "ok" ELSE "failed"]
        /\ active' = 0
    BY <1>1, <2>1, <2>2 DEF ScopeDoneMsg, Underway
  <2>4. ASSUME NEW k \in DOMAIN recent'
        PROVE  (Past(recent[k]))'
    <3>1. PICK i \in Scope : recent'[k] = i /\ (i = idx \/ Past(i))
      BY <1>1, <1>r, <2>1, <2>2, RecentStep
    <3>2. Past(i)'
      BY <1>2, <2>1, <3>1 DEF Past
    <3> QED
      BY <3>1, <3>2 DEF Past
  <2> QED
    BY <1>0, <1>1, <2>1, <2>3, <2>4 DEF Scope, MTypeOK, Underway, Past
<1>6. CASE ~ SendStart /\ ~ ReportResource /\ ~ SendDone
  <2>1. UNCHANGED <<shown, active, recent>>
    BY <1>6, ViewFrame
  <2>2. \/ UNCHANGED <<gpc, idx>>
        \/ gpc = "loop" /\ gpc' = "start" /\ idx' = idx + 1
        \/ gpc = "loop" /\ gpc' = "all" /\ idx' = idx
        \/ gpc = "all" /\ gpc' = "end" /\ idx' = idx
        \/ gpc \in {"open", "scan"} /\ gpc' \in {"scan", "done"} /\ idx' = idx
    <3>1. CASE NextScope \/ LoopOver \/ SendAllDone \/ OpenScope \/ PlainScopeDone
      BY <1>0, <3>1 DEF NextScope, LoopOver, SendAllDone, OpenScope, PlainScopeDone
    <3>2. CASE OpenScopeFails \/ ScanReturns
      BY <3>2 DEF OpenScopeFails, ScanReturns, EndScan
    <3>3. CASE Program \/ QuitKey \/ Signal \/ UNCHANGED vars
      BY <3>3, LoopFrame
    <3> QED
      BY <1>6, <3>1, <3>2, <3>3 DEF Next, Loop
  <2> QED
    BY <1>0, <1>1, <1>2, <1>r, <2>1, <2>2 DEF Scope, Underway, Past
<1> QED
  BY <1>3, <1>4, <1>5, <1>6

\* While messages are delivered the view says of every scope what its run row
\* says, for any number of scopes; and what it ever showed as complete is.
THEOREM ViewCorrect == Spec => []ViewFollowsRuns
<1> DEFINE Inv == MTypeOK /\ LoopInv /\ ShownInv /\ FollowInv
<1>1. Init => Inv
  BY TypeInit, LoopInit, FollowInit DEF Init, ShownInv
<1>2. Inv /\ [Next]_vars => Inv'
  BY TypeStep, LoopStep, ShownStep, FollowStep
<1>3. Inv => ViewFollowsRuns
  <2> SUFFICES ASSUME Inv PROVE ViewFollowsRuns
    OBVIOUS
  <2>1. N \in Nat /\ idx \in 0 .. N /\ recent \in Seq(Scope)
    BY ScanManyAssumption DEF MTypeOK
  <2>2. ASSUME terminal, upc # "over", ~ signal, NEW i \in Scope
        PROVE  /\ shown[i] = "queued" => status[i] = "none"
               /\ i = active <=> shown[i] = "running"
    <3>1. Past(i) \/ idx < i \/ (i = idx /\ (gpc = "start" \/ Underway))
      BY <2>1 DEF Past, Underway, MTypeOK
    <3> QED
      BY <2>1, <2>2, <3>1 DEF FollowInv, LoopInv, Past, Underway
  <2>3. ASSUME terminal, upc # "over", ~ signal, NEW k \in DOMAIN recent
        PROVE  shown[recent[k]] \in {"ok", "failed"}
    BY <2>1, <2>3 DEF FollowInv
  <2> QED
    BY <2>2, <2>3 DEF ShownInv, ViewFollowsRuns
<1> QED
  BY <1>1, <1>2, <1>3, PTL DEF Spec
=============================================================================
