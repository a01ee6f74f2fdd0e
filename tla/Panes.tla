------------------------------- MODULE Panes --------------------------------
(***************************************************************************)
(* The parts the terminal screens are built from: Overview, ResourceList   *)
(* and Detail of internal/tui/screens.  A part is a record, each of its    *)
(* handlers an operator from the record to the record (or to the set of    *)
(* records) it may become.                                                 *)
(*                                                                         *)
(* A row is the number of a resource within its kind, and the same number  *)
(* in two runs is one resource seen twice: its reference is equal.  The    *)
(* cursor of a bubbles table is external: SetRows leaves it on any row or  *)
(* on none (0), SetCursor puts it where it is told.                        *)
(***************************************************************************)
EXTENDS Naturals

CONSTANTS
  Run,     \* the runs in the database
  Kind,    \* the kinds of resources
  NoRun,   \* stands for a run where there is none
  NoKind,  \* stands for a kind where there is none; the kind of an Overview
  Size     \* Size[r][k]: how many resources of kind k run r has

ASSUME PanesAssumption ==
  /\ NoRun \notin Run
  /\ NoKind \notin Kind
  /\ Size \in [Run -> [Kind -> Nat]]

MaybeRun == Run \cup {NoRun}
MaybeKind == Kind \cup {NoKind}

\* The rows LoadResources answers, and the kinds KindStats has a line for.
Rows(r, k) == 1 .. Size[r][k]
AnyRow == UNION {Rows(r, k) : r \in Run, k \in Kind}
Stats(r) == {k \in Kind : Size[r][k] > 0}

-----------------------------------------------------------------------------
(***************************************************************************)
(* A left pane: an Overview (kind is NoKind) or a ResourceList.  run and   *)
(* kind are what it was built for, src is what the rows it holds were      *)
(* loaded for.  visible is the filtered list, cursor the table's, filter   *)
(* says that the filter input has the keys, hides are the rows that the    *)
(* text in that input does not match (it keeps its text when it is         *)
(* closed), jump is pendingJumpID (0 for none).  goal is a history         *)
(* variable: the row the palette asked for, until the user moves the       *)
(* cursor, filters or sorts.                                               *)
(***************************************************************************)
Source == [run : MaybeRun, kind : MaybeKind]
Nothing == [run |-> NoRun, kind |-> NoKind]

Pane == [run : Run, kind : MaybeKind, loaded : BOOLEAN, src : Source,
         visible : SUBSET Nat, cursor : Nat, filter : BOOLEAN,
         hides : SUBSET Nat, jump : Nat, goal : Nat]

NewOverview(r) ==
  [run |-> r, kind |-> NoKind, loaded |-> FALSE, src |-> Nothing,
   visible |-> {}, cursor |-> 0, filter |-> FALSE, hides |-> {}, jump |-> 0,
   goal |-> 0]

\* NewResourceList, with QueueJump when j is a row.
NewResourceList(r, k, j) ==
  [NewOverview(r) EXCEPT !.kind = k, !.jump = j, !.goal = j]

IsOverview(p) == p.kind = NoKind

\* overviewLoadedMsg for an Overview.
TakeOverview(p, s) == [p EXCEPT !.loaded = TRUE, !.src = s]

\* The rows of an answer: none when the query failed.
Answered(s) == IF s = Nothing THEN {} ELSE Rows(s.run, s.kind)

\* Mutant of TakeRows: the pending jump is cleared before it is applied.
TakeRowsNoJump(p, s) ==
  IF IsOverview(p) THEN {p}
  ELSE {[p EXCEPT !.loaded = TRUE, !.src = s, !.visible = Answered(s),
                  !.jump = 0, !.cursor = c] : c \in Answered(s) \cup {0}}

\* resourcesLoadedMsg: applyFilter(""), then JumpTo once; an Overview ignores it.
TakeRows(p, s) ==
  IF IsOverview(p) THEN {p}
  ELSE {[p EXCEPT !.loaded = TRUE, !.src = s, !.visible = Answered(s),
                  !.jump = 0, !.cursor = c] :
          c \in IF p.jump \in Answered(s) THEN {p.jump} ELSE Answered(s) \cup {0}}

\* SelectedResource and the reference it has; NoRef for nil.
NoRef == [kind |-> NoKind, row |-> 0]
Ref == [kind : MaybeKind, row : Nat]
SelectedRef(p) ==
  IF p.cursor \in p.visible THEN [kind |-> p.src.kind, row |-> p.cursor]
                            ELSE NoRef

\* SelectedKind, wherever the Overview's own cursor is.
SelectedKinds(p) ==
  IF IsOverview(p) /\ p.src # Nothing THEN Stats(p.src.run) ELSE {}

\* The keys of ResourceList.Update while the filter input is closed.
Moved(p) == {[p EXCEPT !.cursor = c, !.goal = 0] : c \in p.visible}
FilterOpened(p) == [p EXCEPT !.filter = TRUE, !.hides = {}, !.goal = 0]

\* applyFilter: v becomes visible; SetRows may leave the cursor on any row.
Filtered(p, v) == {[p EXCEPT !.visible = v, !.cursor = c] : c \in v \cup {0}}

\* updateFilter: a key that edits the pattern; Esc; Enter.
FilterTyped(p) ==
  UNION {Filtered([p EXCEPT !.hides = h], Answered(p.src) \ h) :
           h \in SUBSET AnyRow}
FilterClosed(p) == Filtered([p EXCEPT !.filter = FALSE], Answered(p.src))
FilterKept(p) == [p EXCEPT !.filter = FALSE]

\* updateFilter for any other message: the text in the input is applied again,
\* which changes something after "/" and after an answer.
Refiltered(p) ==
  IF p.filter /\ p.visible # Answered(p.src) \ p.hides
  THEN Filtered(p, Answered(p.src) \ p.hides)
  ELSE {p}

\* cycleSort: the cursor keeps its place, not its row, and what the closed
\* input holds is applied again.
Sorted(p) == Filtered([p EXCEPT !.goal = 0], Answered(p.src) \ p.hides)

\* What a key does to a left pane that has it.
LeftKeys(p) ==
  CASE IsOverview(p) -> {p}
    [] ~IsOverview(p) /\ p.filter ->
         FilterTyped(p) \cup FilterClosed(p) \cup {FilterKept(p)}
    [] OTHER -> Moved(p) \cup Sorted(p) \cup {FilterOpened(p)}

-----------------------------------------------------------------------------
(***************************************************************************)
(* A Detail: the run it was built with, the reference and the source of    *)
(* its row, and the run its edges were loaded for.  NoDetail is nil.       *)
(***************************************************************************)
Detail == [run : MaybeRun, ref : Ref, src : Source, loaded : BOOLEAN,
           edges : MaybeRun]

NoDetail == [run |-> NoRun, ref |-> NoRef, src |-> Nothing, loaded |-> FALSE,
             edges |-> NoRun]

NewDetail(r, p) ==
  [NoDetail EXCEPT !.run = r, !.ref = SelectedRef(p), !.src = p.src]

\* edgesLoadedMsg; r is NoRun when the query failed.
TakeEdges(d, r) ==
  IF d = NoDetail THEN d ELSE [d EXCEPT !.loaded = TRUE, !.edges = r]
=============================================================================
