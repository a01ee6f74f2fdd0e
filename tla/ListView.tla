------------------------------ MODULE ListView ------------------------------
(***************************************************************************)
(* ResourceList (internal/tui/screens/resources.go) with what Panes leaves *)
(* out: the order of the rows, the column they are sorted by, the text of  *)
(* the filter, the cursor as a place in the list, and the widths of the    *)
(* columns.                                                                *)
(*                                                                         *)
(* Rows are numbered in the order LoadResources answers them.  A place is  *)
(* counted from 1; 0 is the table's cursor -1, none.  Fuzzy search, Go's   *)
(* stable sort and the bubbles table are external.                         *)
(***************************************************************************)
EXTENDS Panes, Integers, Sequences, FiniteSetsExt, Functions

CONSTANTS
  Pattern,     \* texts of the filter
  NoText,      \* the empty text
  Score,       \* Score[p][i]: how well row i matches p, 0 for not at all
  Cell,        \* Cell[c][i]: column c of row i, as its place among all texts
  Natural      \* Natural[c]: the width column c would like to have

Column == DOMAIN Natural

ASSUME ListViewAssumption ==
  /\ NoText \notin Pattern
  /\ Natural \in Seq(Nat) /\ Natural # <<>>

VARIABLES
  own,         \* the run and kind the list was built for
  src,         \* what its rows were loaded for, Nothing when there are none
  loaded,
  visible,     \* the rows in the table, in order
  cursor,      \* the table's cursor
  filterOn, filterIn,
  sort,        \* the column, 0 for none, and the direction
  pending,     \* pendingJumpID, 0 for none
  height,      \* what the list was told by tea.WindowSizeMsg, 0 before
  tall,        \* the lines of the table
  innerWidth, widths,
  shown,       \* history: the pattern applied last
  goal         \* history: the row the palette asked for (see Panes)

lvars == <<own, src, loaded, visible, cursor, filterOn, filterIn, sort, pending,
           height, tall, innerWidth, widths, shown, goal>>

Text == Pattern \cup {NoText}
Unsorted == [column |-> 0, desc |-> FALSE]
Order == [column : Column, desc : BOOLEAN] \cup {Unsorted}

-----------------------------------------------------------------------------
(* The order of the rows.                                                  *)

\* The rows as the store answers them.
Stored(s) ==
  IF s = Nothing THEN <<>> ELSE [i \in 1 .. Size[s.run][s.kind] |-> i]

Before(v, i, j) == \E a, b \in DOMAIN v : a < b /\ v[a] = i /\ v[b] = j

\* i comes before j: by score under a pattern, else by the cells of the column.
Less(p, o, i, j) ==
  CASE p # NoText   -> Score[p][i] > Score[p][j]
    [] p = NoText /\ o.column = 0 -> FALSE
    [] p = NoText /\ o.column # 0 /\ o.desc  -> Cell[o.column][i] > Cell[o.column][j]
    [] OTHER        -> Cell[o.column][i] < Cell[o.column][j]

Matches(i, p) == p = NoText \/ Score[p][i] > 0
Matching(s, p) == {i \in Answered(s) : Matches(i, p)}

\* The sequences of all of S; with as many places as members each is there once.
Orderings(S) == {w \in [1 .. Cardinality(S) -> S] : Range(w) = S}

\* matchRows and applySort: a stable sort of v, the rows as they were.
Arranged(v, s, p, o) ==
  {w \in Orderings(Matching(s, p)) :
     \A i, j \in Matching(s, p) :
       Less(p, o, i, j) \/ (~Less(p, o, j, i) /\ Before(v, i, j)) => Before(w, i, j)}

cycleSort(o) ==
  CASE o.column = 0                      -> [column |-> 1, desc |-> FALSE]
    [] o.column # 0 /\ ~o.desc           -> [o EXCEPT !.desc = TRUE]
    [] o.desc /\ o.column + 1 \in Column -> [column |-> o.column + 1, desc |-> FALSE]
    [] OTHER                             -> Unsorted

-----------------------------------------------------------------------------
(* The table.                                                              *)

clampCursor(c, n) ==
  CASE c < 1 -> 1
    [] c > n -> n
    [] OTHER -> c

\* SetCursor: a cursor outside the table is put inside it; none when it is empty.
SetCursor(c, n) == IF n = 0 THEN 0 ELSE clampCursor(c, n)

\* SetRows: a cursor beyond the rows goes to the last of them, or is lost.
AfterSetRows(c, n) == IF c <= n THEN {c} ELSE {0, n}

\* As many lines as the rows and the header need, or as the window leaves.
tableHeight(n, h) == Max({3, Min({n + 1, h - 6})})

\* Mutant of applyFilter: the rows in the table are sorted where they are.
applyFilterInPlace(s, p, o) ==
  /\ visible' \in Arranged(visible, s, p, o)
  /\ shown' = p
  /\ tall' = IF height > 0 THEN tableHeight(Len(visible'), height) ELSE tall

\* applyFilter: always from the stored rows, never from those sorted before.
applyFilter(s, p, o) ==
  /\ visible' \in Arranged(Stored(s), s, p, o)
  /\ shown' = p
  /\ tall' = IF height > 0 THEN tableHeight(Len(visible'), height) ELSE tall

\* The width of columns of widths f, without their borders.
Total(f) == MapThenSumSet(LAMBDA c : f[c], Column)

\* Each column's share of budget cells, at least four.
Scaled(budget) ==
  LET sum == Total(Natural)
  IN  [c \in Column |-> Max({4, (Natural[c] * budget) \div sum})]

\* A table as wide as it likes fits, or there is no room to share out.
FitsAsIs(budget) == budget <= 4 * Cardinality(Column) \/ Total(Natural) <= budget

\* Mutant of fitColumnWidths: what rounding leaves over is not spent.
fitColumnWidthsRounded(w) ==
  LET budget == w - 2 * Cardinality(Column)
  IN  IF FitsAsIs(budget) THEN Natural ELSE Scaled(budget)

\* What rounding leaves over goes to the first column.
fitColumnWidths(w) ==
  LET budget == w - 2 * Cardinality(Column)
      scaled == Scaled(budget)
      used   == Total(scaled)
  IN  IF FitsAsIs(budget) THEN Natural
      ELSE IF used < budget THEN [scaled EXCEPT ![1] = @ + (budget - used)]
      ELSE scaled

halfPage == CASE height = 0 -> 10
              [] height = 1 -> 1
              [] OTHER      -> height \div 2

-----------------------------------------------------------------------------
(* NewResourceList, with a jump when j is a row (QueueJump), in a window it *)
(* is told of when h is a height (initLeftWithSize).                       *)
NewList(r, k, j, h) ==
  /\ own' = [run |-> r, kind |-> k]
  /\ src' = Nothing
  /\ loaded' = FALSE
  /\ visible' = <<>>
  /\ cursor' = 1
  /\ filterOn' = FALSE
  /\ filterIn' = NoText
  /\ sort' = Unsorted
  /\ pending' = j
  /\ height' = h
  /\ tall' = IF h > 0 THEN tableHeight(0, h) ELSE 15
  /\ innerWidth' = 0
  /\ widths' = Natural
  /\ shown' = NoText
  /\ goal' = j

ListInit ==
  \E r \in Run, k \in Kind :
    /\ own = [run |-> r, kind |-> k]
    /\ src = Nothing /\ loaded = FALSE /\ visible = <<>> /\ cursor = 1
    /\ filterOn = FALSE /\ filterIn = NoText /\ shown = NoText
    /\ sort = Unsorted
    /\ pending = 0 /\ goal = 0
    /\ height = 0 /\ tall = 15 /\ innerWidth = 0 /\ widths = Natural

\* Mutant of TakeLoad: the jump stays pending when its row is not found.
TakeLoadKeepsJump(s) ==
  /\ loaded' = TRUE
  /\ src' = s
  /\ applyFilter(s, NoText, sort)
  /\ LET found == {i \in DOMAIN visible' : visible'[i] = pending}
     IN  IF found = {}
         THEN cursor' \in AfterSetRows(cursor, Len(visible')) /\ pending' = pending
         ELSE cursor' \in found /\ pending' = 0
  /\ UNCHANGED <<own, filterOn, filterIn, sort, height, innerWidth, widths, goal>>

\* resourcesLoadedMsg, of this list or of another, or with an error: Nothing.
\* An open filter keeps its text, although all rows are shown.
TakeLoad(s) ==
  /\ loaded' = TRUE
  /\ src' = s
  /\ applyFilter(s, NoText, sort)
  /\ \E c \in AfterSetRows(cursor, Len(visible')) :
       LET found == {i \in DOMAIN visible' : visible'[i] = pending}
       IN  cursor' \in IF found = {} THEN {c} ELSE found
  /\ pending' = 0
  /\ UNCHANGED <<own, filterOn, filterIn, sort, height, innerWidth, widths, goal>>

\* The list as an object, and list l on the screen as it was left.
This == [own |-> own, src |-> src, loaded |-> loaded, visible |-> visible,
         cursor |-> cursor, filterOn |-> filterOn, filterIn |-> filterIn,
         sort |-> sort, pending |-> pending, height |-> height, tall |-> tall,
         innerWidth |-> innerWidth, widths |-> widths, shown |-> shown, goal |-> goal]

Show(l) ==
  /\ own' = l.own /\ src' = l.src /\ loaded' = l.loaded /\ visible' = l.visible
  /\ cursor' = l.cursor /\ filterOn' = l.filterOn /\ filterIn' = l.filterIn
  /\ sort' = l.sort /\ pending' = l.pending /\ height' = l.height /\ tall' = l.tall
  /\ innerWidth' = l.innerWidth /\ widths' = l.widths
  /\ shown' = l.shown /\ goal' = l.goal

\* tea.WindowSizeMsg.
Resize(h) ==
  /\ height' = h
  /\ tall' = tableHeight(Len(visible), h)
  /\ UNCHANGED <<own, src, loaded, visible, cursor, filterOn, filterIn, sort,
                 pending, innerWidth, widths, shown, goal>>

\* SetInnerWidth, called whenever the Frame is drawn.
SetInnerWidth(w) ==
  /\ w # innerWidth /\ w > 0
  /\ innerWidth' = w
  /\ widths' = fitColumnWidths(w)
  /\ cursor' \in AfterSetRows(cursor, Len(visible))
  /\ UNCHANGED <<own, src, loaded, visible, filterOn, filterIn, sort, pending,
                 height, tall, shown, goal>>

\* The rows and the cursor, and nothing else, after text t was applied.
Reapply(t) ==
  /\ applyFilter(src, t, sort')
  /\ cursor' \in AfterSetRows(cursor, Len(visible'))
  /\ UNCHANGED <<own, src, loaded, pending, height, innerWidth, widths>>

-----------------------------------------------------------------------------
(* updateFilter.                                                           *)

\* A key the input takes, or another message, after which its text is t.
FilterText(t) ==
  /\ filterOn
  /\ filterIn' = t
  /\ UNCHANGED <<filterOn, sort, goal>>
  /\ Reapply(t)

FilterEsc ==
  /\ filterOn
  /\ filterOn' = FALSE
  /\ UNCHANGED <<filterIn, sort, goal>>
  /\ Reapply(NoText)

FilterEnter ==
  /\ filterOn
  /\ filterOn' = FALSE
  /\ UNCHANGED <<own, src, loaded, visible, cursor, filterIn, sort, pending,
                 height, tall, innerWidth, widths, shown, goal>>

-----------------------------------------------------------------------------
(* The keys of the list itself.                                            *)

\* The input is emptied, the rows stay as its old text left them.
Slash ==
  /\ ~filterOn
  /\ filterOn' = TRUE
  /\ filterIn' = NoText
  /\ goal' = 0
  /\ UNCHANGED <<own, src, loaded, visible, cursor, sort, pending, height,
                 tall, innerWidth, widths, shown>>

SortKey ==
  /\ ~filterOn
  /\ sort' = cycleSort(sort)
  /\ goal' = 0
  /\ UNCHANGED <<filterOn, filterIn>>
  /\ Reapply(filterIn)

CursorTo(c) ==
  /\ cursor' = SetCursor(c, Len(visible))
  /\ goal' = IF cursor' \in DOMAIN visible THEN 0 ELSE goal
  /\ UNCHANGED <<own, src, loaded, visible, filterOn, filterIn, sort, pending,
                 height, tall, innerWidth, widths, shown>>

Top == ~filterOn /\ CursorTo(1)
Bottom == ~filterOn /\ visible # <<>> /\ CursorTo(Len(visible))
Down == ~filterOn /\ cursor < Len(visible) /\ CursorTo(cursor + 1)
Up == ~filterOn /\ cursor > 1 /\ CursorTo(cursor - 1)
HalfDown == ~filterOn /\ CursorTo(clampCursor(cursor + halfPage, Len(visible)))
HalfUp == ~filterOn /\ CursorTo(clampCursor(cursor - halfPage, Len(visible)))

\* Keys of the bubbles table.
TableKey == ~filterOn /\ \E c \in DOMAIN visible : CursorTo(c)

ListKey ==
  \/ (\E t \in Text : FilterText(t)) \/ FilterEsc \/ FilterEnter
  \/ Slash \/ SortKey
  \/ Top \/ Bottom \/ Down \/ Up \/ HalfDown \/ HalfUp \/ TableKey

\* Any message that is neither a key nor the list's own.
OtherMessage == FilterText(filterIn)

\* What else may happen to a list on the screen.
ListMessage ==
  \/ \E s \in [run : Run, kind : Kind] \cup {Nothing} : TakeLoad(s)
  \/ OtherMessage

-----------------------------------------------------------------------------
(* Properties.                                                             *)

ListTypeOK ==
  /\ own \in [run : Run, kind : Kind]
  /\ src \in [run : Run, kind : Kind] \cup {Nothing}
  /\ loaded \in BOOLEAN /\ filterOn \in BOOLEAN
  /\ visible \in Seq(AnyRow) /\ cursor \in Nat
  /\ filterIn \in Text /\ shown \in Text /\ sort \in Order
  /\ pending \in AnyRow \cup {0} /\ goal \in AnyRow \cup {0}
  /\ height \in Nat /\ tall \in Int /\ innerWidth \in Nat /\ widths \in Seq(Nat)

\* The list l as the models of the screens have it.
PaneOf(l) ==
  [run |-> l.own.run, kind |-> l.own.kind, loaded |-> l.loaded, src |-> l.src,
   visible |-> Range(l.visible),
   cursor |-> IF l.cursor \in DOMAIN l.visible THEN l.visible[l.cursor] ELSE 0,
   filter |-> l.filterOn, hides |-> {i \in AnyRow : ~Matches(i, l.filterIn)},
   jump |-> l.pending, goal |-> l.goal]

\* The rows on the screen are the stored rows that match what was applied
\* last, in the order of the sort and ties in the order of the store: neither
\* an answer nor a key leaves rows, or their order, of before.
RowsAreCurrent == visible \in Arranged(Stored(src), src, shown, sort)

\* The columns of a narrowed table use what the pane offers, to the last cell,
\* but for the floor of four cells for each.
ColumnsFillPane ==
  LET used == Total(widths) + 2 * Cardinality(Column)
  IN  widths # Natural =>
        used = innerWidth \/ (used > innerWidth /\ \E c \in Column : widths[c] = 4)

\* "fitColumnWidths shrinks the per-column Width values so the rendered table
\* fits inside availableWidth" (columns.go).
ColumnsFit ==
  widths # Natural =>
    Total(widths) + 2 * Cardinality(Column) <= innerWidth

\* The inductive invariant: with the rows, where the cursor may be, and what
\* the columns and the lines of the table were last computed from.
ListInv ==
  /\ ListTypeOK /\ RowsAreCurrent
  /\ visible = <<>> \/ cursor <= Len(visible)
  /\ widths = Natural \/ widths = fitColumnWidths(innerWidth)
  /\ height > 0 => tall = tableHeight(Len(visible), height)

\* The same of a list that is not on the screen.
ListState ==
  [own : [run : Run, kind : Kind], src : [run : Run, kind : Kind] \cup {Nothing},
   loaded : BOOLEAN, visible : Seq(AnyRow), cursor : Nat,
   filterOn : BOOLEAN, filterIn : Text, sort : Order,
   pending : AnyRow \cup {0}, height : Nat, tall : Int,
   innerWidth : Nat, widths : Seq(Nat), shown : Text, goal : AnyRow \cup {0}]

ListOK(l) ==
  /\ l \in ListState
  /\ l.visible \in Arranged(Stored(l.src), l.src, l.shown, l.sort)
  /\ l.visible = <<>> \/ l.cursor <= Len(l.visible)
  /\ l.widths = Natural \/ l.widths = fitColumnWidths(l.innerWidth)
  /\ l.height > 0 => l.tall = tableHeight(Len(l.visible), l.height)

\* "Re-runs applyFilter so the visible rows pick up the new ordering"
\* (cycleSort): sorting hides no row.
SortHidesNothing ==
  [][sort' # sort /\ own' = own => Range(visible') = Range(visible)]_lvars

\* Rows are hidden only while the screen says which filter hides them.
NothingHiddenSilently ==
  Range(visible) # Answered(src) => filterOn \/ filterIn # NoText
=============================================================================
