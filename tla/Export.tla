------------------------------- MODULE Export -------------------------------
(***************************************************************************)
(* Workbooks.  An export picks runs (runExport, resolveRunsForExport of    *)
(* cmd/cloudcmder/main.go) and fills the sheets of one run (WriteWorkbook) *)
(* or of several (WriteMultiWorkbook) by one query after another, without  *)
(* a transaction around them, while other processes scan into the same     *)
(* database.  What a scan does to its run is what RunLedger allows: rows   *)
(* and edges are added while it is running and sealed by its final status. *)
(* A resource is in a run or not here; its details are left out, and so    *)
(* are columns, layout and saving the file.                                *)
(***************************************************************************)
EXTENDS Naturals, Sequences, FiniteSets

CONSTANTS
  Scope,      \* projects
  Resource,   \* resources a run may have
  KindOf,     \* the kind of each
  KindOrder,  \* kindSheets: the kinds in the order of their sheets
  Link,       \* edges, pairs of resources
  Instant,    \* times a run may start at, in hundredths of a second
  MaxRuns,    \* bound on the runs of the database
  MaxRows     \* bound on its rows: runs, resources and edges

Kind == {KindOrder[n] : n \in DOMAIN KindOrder}

ASSUME ExportAssumption ==
  /\ KindOrder \in Seq(STRING) /\ KindOf \in [Resource -> Kind]
  /\ IsFiniteSet(Resource)
  /\ Link \subseteq Resource \X Resource
  /\ Instant \subseteq Nat /\ MaxRuns \in Nat /\ MaxRows \in Nat

VARIABLES
  runs,   \* the database: its runs in the order of their ids
  pc,     \* "start", "resolve", "read", "saved" or "failed"
  ask,    \* what remains to resolve
  todo,   \* queries that remain
  book    \* the workbook

vars == <<runs, pc, ask, todo, book>>

-----------------------------------------------------------------------------
(***************************************************************************)
(* Runs are ordered by the text of their start, which ends in the digits   *)
(* of the fraction without trailing zeros, and then Z, which comes after   *)
(* every digit and after the point: .1Z follows .12Z.                      *)
(***************************************************************************)
Second(t) == t \div 100
Digits(t) ==
  LET tenth == (t \div 10) % 10   hundredth == t % 10
  IN  IF hundredth # 0 THEN <<tenth, hundredth>> ELSE IF tenth # 0 THEN <<tenth>> ELSE <<>>

IsPrefix(d, e) == Len(d) < Len(e) /\ \A n \in DOMAIN d : d[n] = e[n]

\* The text of t is greater than the text of u.
TextAfter ==
  [t \in Instant |-> [u \in Instant |->
     \/ Second(t) > Second(u)
     \/ /\ Second(t) = Second(u)
        /\ \/ IsPrefix(Digits(t), Digits(u))
           \/ \E n \in DOMAIN Digits(t) \cap DOMAIN Digits(u) :
                /\ Digits(t)[n] > Digits(u)[n]
                /\ \A m \in 1 .. n - 1 : Digits(t)[m] = Digits(u)[m]]]

\* ORDER BY started_at DESC, id DESC.
Before(i, j) ==
  \/ TextAfter[runs[i].started][runs[j].started]
  \/ runs[i].started = runs[j].started /\ i > j

ListRuns ==
  [n \in DOMAIN runs |->
     CHOOSE i \in DOMAIN runs : Cardinality({j \in DOMAIN runs : Before(j, i)}) = n - 1]

\* LatestRunForScope: the first of the scope, if there is one.
LatestRunForScope(s) ==
  {i \in DOMAIN runs :
     /\ runs[i].scope = s
     /\ \A j \in DOMAIN runs \ {i} : runs[j].scope = s => Before(i, j)}

\* A RunSummary, as it was read; a workbook never reads it again.
Summary(i) == [id |-> i, scope |-> runs[i].scope, status |-> runs[i].status]

-----------------------------------------------------------------------------
(***************************************************************************)
(* Picking runs.  A question is answered by the runs one query returns.    *)
(***************************************************************************)
\* Mutant of Seen: only the run taken last is looked at.
SeenLast(out, s) == out # <<>> /\ runs[out[Len(out)]].scope = s

\* seen[s]: a run of the scope was taken.
Seen(out, s) == \E n \in DOMAIN out : runs[out[n]].scope = s

\* The first of each scope in the list; walk[n] is what its first n runs give.
EveryScope ==
  LET list == ListRuns
      walk[n \in 0 .. Len(runs)] ==
        IF n = 0 THEN <<>>
        ELSE IF Seen(walk[n - 1], runs[list[n]].scope) THEN walk[n - 1]
        ELSE Append(walk[n - 1], list[n])
  IN  walk[Len(runs)]

Every      == [type |-> "every"]
Newest     == [type |-> "newest"]
OfScope(s) == [type |-> "scope", scope |-> s]
Exactly(i) == [type |-> "run", id |-> i]

Answers(q) ==
  CASE q.type = "every"  -> {EveryScope}
    [] q.type = "newest" -> {IF runs = <<>> THEN <<>> ELSE <<ListRuns[1]>>}
    [] q.type = "run"    -> {<<q.id>>}
    [] q.type = "scope"  -> IF LatestRunForScope(q.scope) = {} THEN {<<>>}
                            ELSE {<<i>> : i \in LatestRunForScope(q.scope)}

(***************************************************************************)
(* What a workbook is read by: counts, a sheet for each kind, edges, in    *)
(* this order and each for one run after another.  The sheet Scopes, read  *)
(* after the counts, has what OpenRun inserted and no one changes; it is   *)
(* left out.                                                               *)
(***************************************************************************)
Counts(i)  == [type |-> "counts", pick |-> i]
Rows(k, i) == [type |-> "rows", kind |-> k, pick |-> i]
Edges(i)   == [type |-> "edges", pick |-> i]

Queries(n) ==
  [i \in 1 .. n |-> Counts(i)] \o
  [j \in 1 .. n * Len(KindOrder) |->
     Rows(KindOrder[1 + ((j - 1) \div n)], 1 + ((j - 1) % n))] \o
  [i \in 1 .. n |-> Edges(i)]

NoBook == [multi |-> FALSE, picks |-> <<>>, counts |-> <<>>, rows |-> {}, edges |-> {}]

Init ==
  /\ runs = <<>>
  /\ pc = "start"
  /\ ask = <<>>
  /\ todo = <<>>
  /\ book = NoBook

-----------------------------------------------------------------------------
(***************************************************************************)
(* Scans, by other processes.  A start is taken before its row is inserted *)
(* (OpenRun), so that of two processes either may insert first.            *)
(***************************************************************************)
RowsOfRun(i) == 1 + Cardinality(runs[i].rows) + Cardinality(runs[i].edges)
HasRoom ==
  LET total[i \in 0 .. Len(runs)] == IF i = 0 THEN 0 ELSE total[i - 1] + RowsOfRun(i)
  IN  total[Len(runs)] < MaxRows

OpenRun(s, t) ==
  /\ HasRoom /\ Len(runs) < MaxRuns
  /\ runs' = Append(runs, [scope |-> s, started |-> t, status |-> "running",
                           rows |-> {}, edges |-> {}])
  /\ UNCHANGED <<pc, ask, todo, book>>

\* Mutant of Running: a run is written to whatever its status.
RunningOrEnded(i) == i \in DOMAIN runs
Running(i) == i \in DOMAIN runs /\ runs[i].status = "running"

WriteRow(i, r) ==
  /\ HasRoom /\ Running(i)
  /\ runs' = [runs EXCEPT ![i].rows = @ \cup {r}]
  /\ UNCHANGED <<pc, ask, todo, book>>

\* The edges of a resource come with its row, or later with its details.
WriteEdges(i, r) ==
  /\ HasRoom /\ Running(i)
  /\ r \in runs[i].rows
  /\ runs' = [runs EXCEPT ![i].edges = @ \cup {l \in Link : l[1] = r}]
  /\ UNCHANGED <<pc, ask, todo, book>>

FinishRun(i) ==
  /\ Running(i)
  /\ \E status \in {"ok", "failed"} : runs' = [runs EXCEPT ![i].status = status]
  /\ UNCHANGED <<pc, ask, todo, book>>

-----------------------------------------------------------------------------
(***************************************************************************)
(* The export.                                                             *)
(***************************************************************************)
Start(multi, questions) ==
  /\ pc = "start"
  /\ pc' = "resolve"
  /\ ask' = questions
  /\ book' = [NoBook EXCEPT !.multi = multi]
  /\ UNCHANGED <<runs, todo>>

\* --export with and without a run and the interface's key e; --export-multi
\* with two runs, with two scopes, and without either.
StartExport ==
  \/ \E q \in {Newest} \cup {Exactly(i) : i \in DOMAIN runs} : Start(FALSE, <<q>>)
  \/ Start(TRUE, <<Every>>)
  \/ \E s, t \in Scope : s # t /\ Start(TRUE, <<OfScope(s), OfScope(t)>>)
  \/ \E i, j \in DOMAIN runs : Start(TRUE, <<Exactly(i), Exactly(j)>>)

Resolve ==
  /\ pc = "resolve" /\ ask # <<>>
  /\ \E found \in Answers(Head(ask)) :
       book' = [book EXCEPT !.picks = @ \o [n \in DOMAIN found |-> Summary(found[n])]]
  /\ ask' = Tail(ask)
  /\ UNCHANGED <<runs, pc, todo>>

Resolved ==
  /\ pc = "resolve" /\ ask = <<>>
  /\ IF book.picks = <<>> THEN pc' = "failed" /\ UNCHANGED todo
     ELSE pc' = "read" /\ todo' = Queries(Len(book.picks))
  /\ UNCHANGED <<runs, ask, book>>

\* A combined workbook shows counts and rows of the runs that were ok.
Shown(i) == ~book.multi \/ book.picks[i].status = "ok"

Has(i) == runs[book.picks[i].id]

CountResourcesByKind(i) ==
  [k \in Kind |-> Cardinality({r \in Has(i).rows : KindOf[r] = k})]

NoCounts == [k \in Kind |-> 0]

\* One query and what it puts into the workbook.
Read(type, filled) ==
  /\ pc = "read" /\ todo # <<>> /\ Head(todo).type = type
  /\ todo' = Tail(todo)
  /\ book' = filled
  /\ UNCHANGED <<runs, pc, ask>>

ReadCounts ==
  LET i == Head(todo).pick
  IN  Read("counts", [book EXCEPT !.counts =
                        Append(@, IF Shown(i) THEN CountResourcesByKind(i) ELSE NoCounts)])

ReadRows ==
  LET i == Head(todo).pick   k == Head(todo).kind
  IN  Read("rows", [book EXCEPT !.rows =
                      @ \cup (IF Shown(i) THEN {<<i, r>> : r \in {x \in Has(i).rows : KindOf[x] = k}}
                              ELSE {})])

ReadEdges ==
  LET i == Head(todo).pick
  IN  Read("edges", [book EXCEPT !.edges = @ \cup {<<i, l>> : l \in Has(i).edges}])

Save ==
  /\ pc = "read" /\ todo = <<>>
  /\ pc' = "saved"
  /\ UNCHANGED <<runs, ask, todo, book>>

\* A query or the saving fails, or the context is cancelled: no workbook.
Fail ==
  /\ pc \in {"resolve", "read"}
  /\ pc' = "failed"
  /\ UNCHANGED <<runs, ask, todo, book>>

Next ==
  \/ \E s \in Scope, t \in Instant : OpenRun(s, t)
  \/ \E i \in DOMAIN runs :
       \/ FinishRun(i)
       \/ \E r \in Resource : WriteRow(i, r) \/ WriteEdges(i, r)
  \/ StartExport \/ Resolve \/ Resolved
  \/ ReadCounts \/ ReadRows \/ ReadEdges \/ Save \/ Fail

Spec == Init /\ [][Next]_vars

-----------------------------------------------------------------------------
Question ==
  {Every, Newest} \cup {OfScope(s) : s \in Scope} \cup {Exactly(i) : i \in DOMAIN runs}

Query ==
  LET pick == DOMAIN book.picks
  IN  {Counts(i) : i \in pick} \cup {Rows(k, i) : k \in Kind, i \in pick}
        \cup {Edges(i) : i \in pick}

ExportTypeOK ==
  /\ runs \in Seq([scope : Scope, started : Instant, status : {"running", "ok", "failed"},
                   rows : SUBSET Resource, edges : SUBSET Link])
  /\ pc \in {"start", "resolve", "read", "saved", "failed"}
  /\ ask \in Seq(Question)
  /\ todo \in Seq(Query)
  /\ DOMAIN book = {"multi", "picks", "counts", "rows", "edges"}
  /\ book.multi \in BOOLEAN
  /\ book.picks \in Seq([id : DOMAIN runs, scope : Scope, status : {"running", "ok", "failed"}])
  /\ book.counts \in Seq([Kind -> Nat])
  /\ book.rows \subseteq (DOMAIN book.picks) \X Resource
  /\ book.edges \subseteq (DOMAIN book.picks) \X Link

RowsOf(i) == {r \in Resource : <<i, r>> \in book.rows}
CountOf(i, k) == Cardinality({r \in RowsOf(i) : KindOf[r] = k})

\* A saved workbook that shows a run as ended shows all of it, and its counts
\* are those of its sheets, whatever scans did between the queries.
EndedRunIsWhole ==
  pc = "saved" =>
    \A i \in DOMAIN book.picks :
      Shown(i) /\ book.picks[i].status # "running" =>
        /\ RowsOf(i) = Has(i).rows
        /\ {l \in Link : <<i, l>> \in book.edges} = Has(i).edges
        /\ \A k \in Kind : book.counts[i][k] = CountOf(i, k)

\* Of a run that was still running the sheets have at least what was counted:
\* they are read later, and scans only add.
CountsAreOnSheets ==
  pc = "saved" =>
    \A i \in DOMAIN book.picks : \A k \in Kind : book.counts[i][k] <= CountOf(i, k)

\* In a combined workbook every row belongs to a run that was ok, so to a scan
\* that was complete.
OnlyOkRowsCombined ==
  book.multi =>
    \A i \in DOMAIN book.picks : RowsOf(i) # {} => book.picks[i].status = "ok"

\* What a saved workbook may promise.
BookIsSound == EndedRunIsWhole /\ CountsAreOnSheets /\ OnlyOkRowsCombined

\* The inductive invariant: what remains to ask is the end of the list of
\* queries, and the workbook has what the queries asked so far found, or more
\* in the database by now where the run had not ended when it was picked.
Ended(i) == book.picks[i].status # "running"
OfKind(k, rows) == {r \in rows : KindOf[r] = k}
LinksOf(i) == {l \in Link : <<i, l>> \in book.edges}

Asked == Queries(Len(book.picks))
At == Len(Asked) - Len(todo)
Done(q) == \E n \in 1 .. At : Asked[n] = q

Progress ==
  /\ book.picks # <<>>
  /\ At \in 0 .. Len(Asked)
  /\ \A n \in 1 .. Len(todo) : todo[n] = Asked[At + n]
  /\ Len(book.counts) = IF At < Len(book.picks) THEN At ELSE Len(book.picks)

CountsAgree(i) ==
  i <= Len(book.counts) =>
    \A k \in Kind :
      LET now == Cardinality(OfKind(k, Has(i).rows))
      IN  IF Shown(i)
          THEN book.counts[i][k] <= now /\ (Ended(i) => book.counts[i][k] = now)
          ELSE book.counts[i][k] = 0

SheetsAgree(i) ==
  /\ \A k \in Kind :
       Done(Rows(k, i)) /\ Shown(i) =>
         /\ book.counts[i][k] <= CountOf(i, k)
         /\ Ended(i) => OfKind(k, Has(i).rows) \subseteq RowsOf(i)
  /\ Done(Edges(i)) /\ Ended(i) => Has(i).edges \subseteq LinksOf(i)

NothingElse(i) ==
  /\ RowsOf(i) \subseteq (IF Shown(i) THEN Has(i).rows ELSE {})
  /\ LinksOf(i) \subseteq Has(i).edges
  /\ Ended(i) => Has(i).status = book.picks[i].status

ExportInv ==
  /\ ExportTypeOK
  /\ \A i \in DOMAIN book.picks : NothingElse(i)
  /\ pc \in {"start", "resolve"} => book.counts = <<>> /\ book.rows = {} /\ book.edges = {}
  /\ pc = "start" => book = NoBook
  /\ pc \in {"read", "saved"} =>
       Progress /\ \A i \in DOMAIN book.picks : CountsAgree(i) /\ SheetsAgree(i)
  /\ pc = "saved" => todo = <<>>

\* Walking the list newest-first and taking each scope when it is first seen
\* gives the run that LatestRunForScope finds, for each scope once; and that run
\* started last, but where the digits of its start begin those of the later one.
LatestIsOne ==
  LET list == EveryScope
  IN  /\ \A n \in DOMAIN list : list[n] \in LatestRunForScope(runs[list[n]].scope)
      /\ \A s \in Scope :
           /\ Cardinality({n \in DOMAIN list : runs[list[n]].scope = s}) =
                Cardinality(LatestRunForScope(s))
           /\ \A i \in LatestRunForScope(s) : \A j \in DOMAIN runs :
                runs[j].scope = s /\ runs[j].started > runs[i].started =>
                  /\ Second(runs[i].started) = Second(runs[j].started)
                  /\ IsPrefix(Digits(runs[i].started), Digits(runs[j].started))

\* The comment of ListRuns and of resolveRunsForExport: newest first.
NewestFirst ==
  \A m, n \in DOMAIN runs :
    m < n => runs[ListRuns[m]].started >= runs[ListRuns[n]].started
=============================================================================
