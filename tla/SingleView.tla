----------------------------- MODULE SingleView -----------------------------
(***************************************************************************)
(* The single-screen mode: SingleView of internal/tui/screens/singleview.go *)
(* and its ScopeListPane, as the root of App's stack.  Four panes cascade:  *)
(* the scope under the cursor decides the overview, the overview's kind the *)
(* list, the list's row the Detail.  A pane is replaced when a message says *)
(* so, and the message is sent when, after any other message or key, a pane *)
(* is found not to follow the one before it (syncFromSelections).           *)
(*                                                                         *)
(* A scope is identified with its latest run, the only run of it this mode *)
(* shows.  At most one screen is above, a GraphView or the scopes modal;   *)
(* what else such a screen may open is in Tui.  Left out: what Tui leaves  *)
(* out, and the totals of the status bar.                                  *)
(***************************************************************************)
EXTENDS Panes, Sequences, Bags

CONSTANTS
  ReadFaults,  \* TRUE when a query may fail
  Patient,     \* TRUE: the user waits until nothing is pending
  MaxPending   \* bound on the messages pending when a key is pressed, or a
               \* tick is taken that sends more

ASSUME SingleViewAssumption ==
  {ReadFaults, Patient} \subseteq BOOLEAN /\ MaxPending \in Nat

\* There are finitely many kinds: one of those a run has comes first.
ASSUME FirstKindAssumption ==
  \A r \in Run : Stats(r) # {} =>
    \E k \in Stats(r) : \A j \in Stats(r) : Size[r][j] <= Size[r][k]

VARIABLES
  sv,      \* the SingleView
  above,   \* the screen above it, "none" when there is none
  bar,     \* the palette is open
  corpus,  \* the run whose resources the palette suggests
  msgs,    \* commands running and messages not yet handled, a bag of sequences
  over     \* the program has ended

vars == <<sv, above, bar, corpus, msgs, over>>

-----------------------------------------------------------------------------
(***************************************************************************)
(* What a handler returns: a bag of sequences.  tea.Sequence sends a       *)
(* message once the one before it has been taken; a single command is a    *)
(* sequence of one, a batch are several.  A tick does not say of which     *)
(* spinner it is: one of a pane replaced since only adds a tick.           *)
(***************************************************************************)
Tick(f)             == [type |-> "tick", pane |-> f]
Resolve(r)          == [type |-> "resolve", run |-> r]
KindSelected(k)     == [type |-> "kind", kind |-> k]
ResourceSelected(s) == [type |-> "resource", row |-> s]
ScopesLoad          == [type |-> "scopes"]
OverviewLoad(r)     == [type |-> "overview", run |-> r]
RowsLoad(r, k)      == [type |-> "rows", run |-> r, kind |-> k]
EdgesLoad(r)        == [type |-> "edges", run |-> r]
SwitchRun(r)        == [type |-> "switch", run |-> r]
SwapLeft(k, i)      == [type |-> "swap", kind |-> k, row |-> i]
Submit(k, i)        == [type |-> "submit", kind |-> k, row |-> i]
Push(screen)        == [type |-> "push", screen |-> screen]
OpenScopesModal     == [type |-> "scopesAlias"]
Pop                 == [type |-> "pop"]
Quit                == [type |-> "quit"]

None == EmptyBag
InOrder(s) == IF s = <<>> THEN None ELSE SetToBag({s})
One(m) == InOrder(<<m>>)

\* A pane's Init: its load, and the first tick of its spinner.
Loads(m, f) == One(m) (+) One(Tick(f))

Idle == msgs = EmptyBag

-----------------------------------------------------------------------------
(***************************************************************************)
(* The panes.  NoPane is a nil *Overview or *ResourceList.  A selection is *)
(* a row with what it was loaded for, the identity Ref.String() gives it.  *)
(***************************************************************************)
NoPane == NewOverview(NoRun)
NoSelection == [src |-> Nothing, row |-> 0]

\* picked is the kind under the Overview's cursor; wanted is a history
\* variable: the kind the palette asked for, until a cursor above the list
\* moves.
NewSingleView ==
  [scopes    |-> [loaded |-> FALSE, rows |-> {}, cursor |-> NoRun, last |-> NoRun],
   run       |-> NoRun,
   overview  |-> NoPane,      picked    |-> NoKind,
   list      |-> NoPane,      listFor   |-> NoKind,
   detail    |-> NoDetail,    detailFor |-> NoSelection,
   focus     |-> "scopes",    wanted    |-> NoKind]

SelectedResource(p) ==
  IF SelectedRef(p) = NoRef THEN NoSelection ELSE [src |-> p.src, row |-> p.cursor]

\* The first line of KindStats: the kind with the most resources.
FirstKind(r) ==
  IF Stats(r) = {} THEN NoKind
  ELSE CHOOSE k \in Stats(r) : \A j \in Stats(r) : Size[r][j] <= Size[r][k]

(***************************************************************************)
(* syncFromSelections.                                                     *)
(***************************************************************************)
ScopeMoved(w) == w.scopes.cursor \in w.scopes.rows \ {w.scopes.last}
KindMoved(w) == w.picked \notin {NoKind, w.listFor}
ResourceMoved(w) == SelectedResource(w.list) \notin {NoSelection, w.detailFor}

Synced(w) == IF ScopeMoved(w) THEN [w EXCEPT !.scopes.last = w.scopes.cursor] ELSE w

\* Mutant of Cascade: the kind under the cursor is not looked at.
CascadeSkipsKind(w) ==
  (IF ScopeMoved(w) THEN <<Resolve(w.scopes.cursor)>> ELSE <<>>) \o
  (IF ResourceMoved(w) THEN <<ResourceSelected(SelectedResource(w.list))>> ELSE <<>>)

Cascade(w) ==
  (IF ScopeMoved(w) THEN <<Resolve(w.scopes.cursor)>> ELSE <<>>) \o
  (IF KindMoved(w) THEN <<KindSelected(w.picked)>> ELSE <<>>) \o
  (IF ResourceMoved(w) THEN <<ResourceSelected(SelectedResource(w.list))>> ELSE <<>>)

(***************************************************************************)
(* The handlers of the cascade's messages.                                 *)
(***************************************************************************)
WithoutList(w) ==
  [w EXCEPT !.list = NoPane, !.listFor = NoKind,
            !.detail = NoDetail, !.detailFor = NoSelection]

\* Mutant of ScopeSelected: the list below stays.
ScopeSelectedKeepsList(w, r) ==
  IF r = NoRun THEN [WithoutList(w) EXCEPT !.run = r, !.overview = NoPane, !.picked = NoKind]
  ELSE [w EXCEPT !.run = r, !.overview = NewOverview(r), !.picked = NoKind]

\* handleScopeSelected; r is NoRun when the query failed.
ScopeSelected(w, r) ==
  [WithoutList(w) EXCEPT
     !.run = r, !.picked = NoKind,
     !.overview = IF r = NoRun THEN NoPane ELSE NewOverview(r)]

\* A new list of kind k, its cursor to land on row i.
WithList(w, k, i) ==
  [WithoutList(w) EXCEPT !.list = NewResourceList(w.run, k, i), !.listFor = k]

\* handleResourceSelected.
WithDetail(w, s) ==
  [w EXCEPT !.detailFor = s,
            !.detail = [NoDetail EXCEPT !.run = w.run, !.src = s.src,
                                        !.ref = [kind |-> s.src.kind, row |-> s.row]]]

\* handleSwapLeftPane.
SwappedLeft(w, k, i) == [WithList(w, k, i) EXCEPT !.focus = "list", !.wanted = k]

(***************************************************************************)
(* Focus.                                                                  *)
(***************************************************************************)
Panel == {"scopes", "overview", "list", "detail"}
FocusOrder == <<"scopes", "overview", "list", "detail">>

PaneReady(w, f) ==
  CASE f = "scopes"   -> TRUE
    [] f = "overview" -> w.overview # NoPane
    [] f = "list"     -> w.list # NoPane
    [] f = "detail"   -> w.detail # NoDetail

\* cycleFocus: n steps onward (or back) is the first pane that is there.
Cycled(w, forward) ==
  LET pos   == CHOOSE i \in 1 .. 4 : FocusOrder[i] = w.focus
      At(n) == FocusOrder[1 + ((IF forward THEN pos - 1 + n ELSE pos + 3 - n) % 4)]
      first == CHOOSE i \in 1 .. 4 :
                 PaneReady(w, At(i)) /\ \A j \in 1 .. i - 1 : ~PaneReady(w, At(j))
  IN  [w EXCEPT !.focus = At(first)]

ActivePaneAbsorbing(w) == w.focus = "list" /\ w.list.filter

-----------------------------------------------------------------------------
Init ==
  /\ sv = NewSingleView
  /\ above = "none"
  /\ bar = FALSE
  /\ corpus = NoRun
  /\ msgs = Loads(ScopesLoad, "scopes")
  /\ over = FALSE

\* The head of a pending sequence is taken, and the next of it is sent.
Take(m, cmds) ==
  /\ ~over
  /\ \E q \in DOMAIN msgs :
       /\ Head(q) = m
       /\ msgs' = (msgs (-) SetToBag({q})) (+) InOrder(Tail(q)) (+) cmds

Return(cmds) == msgs' = msgs (+) cmds

(***************************************************************************)
(* Messages App.Update handles itself.                                     *)
(***************************************************************************)
PushScreen ==
  \E screen \in {"scopes", "graph"} :
    /\ Take(Push(screen), IF screen = "scopes" THEN Loads(ScopesLoad, "scopes") ELSE None)
    /\ above' = screen
    /\ UNCHANGED <<sv, bar, corpus, over>>

PopScreen ==
  /\ IF above = "none" THEN Take(Pop, One(Quit)) /\ UNCHANGED above
                       ELSE Take(Pop, None) /\ above' = "none"
  /\ UNCHANGED <<sv, bar, corpus, over>>

TakeQuit ==
  /\ Take(Quit, None)
  /\ over' = TRUE
  /\ UNCHANGED <<sv, above, bar, corpus>>

\* CmdSubmitMsg and CmdJumpResourceMsg; without a current run, a toast.
SubmitScopes ==
  /\ Take(OpenScopesModal, One(Push("scopes")))
  /\ UNCHANGED <<sv, above, bar, corpus, over>>

SubmitKind ==
  /\ \E k \in Kind : \E i \in {0} \cup UNION {Rows(r, k) : r \in Run} :
       Take(Submit(k, i), IF sv.run # NoRun THEN One(SwapLeft(k, i)) ELSE None)
  /\ UNCHANGED <<sv, above, bar, corpus, over>>

(***************************************************************************)
(* Messages for the SingleView: an open palette swallows them, and so does *)
(* a screen above.  Each handler may send more.                            *)
(***************************************************************************)
Reached == above = "none" /\ ~bar

\* A handler of a message the SingleView knows: no pane is told.
Handle(m, w, cmds) ==
  /\ Reached
  /\ Take(m, cmds)
  /\ sv' = w
  /\ UNCHANGED <<above, bar, corpus, over>>

TakeScopeSelected(r, ok) ==
  LET run == IF ok THEN r ELSE NoRun
  IN  Handle(Resolve(r), ScopeSelected(sv, run),
            IF ok THEN Loads(OverviewLoad(r), "overview") ELSE None)

\* Mutant of TakeKindSelected: the load is for the kind before.
TakeKindSelectedLate(k) ==
  IF sv.run = NoRun THEN Handle(KindSelected(k), sv, None)
  ELSE Handle(KindSelected(k), WithList(sv, k, 0),
              Loads(RowsLoad(sv.run, IF sv.listFor = NoKind THEN k ELSE sv.listFor), "list"))

TakeKindSelected(k) ==
  IF sv.run = NoRun THEN Handle(KindSelected(k), sv, None)
  ELSE Handle(KindSelected(k), WithList(sv, k, 0), Loads(RowsLoad(sv.run, k), "list"))

TakeResourceSelected(s) ==
  IF sv.run = NoRun THEN Handle(ResourceSelected(s), sv, None)
  ELSE Handle(ResourceSelected(s), WithDetail(sv, s), Loads(EdgesLoad(sv.run), "detail"))

TakeSwapLeft(k, i) ==
  IF sv.run = NoRun THEN Handle(SwapLeft(k, i), sv, None)
  ELSE Handle(SwapLeft(k, i), SwappedLeft(sv, k, i), Loads(RowsLoad(sv.run, k), "list"))

\* broadcastNonKey: every pane is told, then the cascade looks at them.
Broadcast(m, w) == Handle(m, Synced(w), InOrder(Cascade(w)))

\* A list with an open filter applies it at every message.
Refilters(p) == IF p = NoPane THEN {p} ELSE Refiltered(p)

\* scopesLoadedMsg.  The table keeps a cursor that still has a row.
ScopesLoaded(s, rows) ==
  {[s EXCEPT !.loaded = TRUE, !.rows = rows, !.cursor = c] :
     c \in IF s.cursor \in rows THEN {s.cursor} ELSE rows \cup {NoRun}}

TakeScopesLoad(ok) ==
  \E s \in ScopesLoaded(sv.scopes, IF ok THEN Run ELSE {}), p \in Refilters(sv.list) :
    Broadcast(ScopesLoad, [sv EXCEPT !.scopes = s, !.list = p])

TakeOverviewLoad(r, ok) ==
  \E p \in Refilters(sv.list) :
    Broadcast(OverviewLoad(r),
      IF sv.overview = NoPane THEN [sv EXCEPT !.list = p]
      ELSE [sv EXCEPT !.overview =
                        TakeOverview(@, IF ok THEN [run |-> r, kind |-> NoKind] ELSE Nothing),
                      !.picked = IF ok THEN FirstKind(r) ELSE NoKind,
                      !.list = p])

TakeRowsLoad(r, k, ok) ==
  \E p \in IF sv.list = NoPane THEN {NoPane}
           ELSE TakeRows(sv.list, IF ok THEN [run |-> r, kind |-> k] ELSE Nothing) :
    Broadcast(RowsLoad(r, k), [sv EXCEPT !.list = p])

TakeEdgesLoad(r, ok) ==
  \E p \in Refilters(sv.list) :
    Broadcast(EdgesLoad(r),
      [sv EXCEPT !.list = p, !.detail = TakeEdges(@, IF ok THEN r ELSE NoRun)])

\* Mutant of StillLoading: a spinner never stops.
StillLoadingForever(w, f) == PaneReady(w, f)

\* The tick of a spinner: a pane that is still loading asks for the next one.
StillLoading(w, f) ==
  CASE f = "scopes"   -> ~w.scopes.loaded
    [] f = "overview" -> w.overview # NoPane /\ ~w.overview.loaded
    [] f = "list"     -> w.list # NoPane /\ ~w.list.loaded
    [] f = "detail"   -> w.detail # NoDetail /\ ~w.detail.loaded

TakeTick(f) ==
  \E p \in Refilters(sv.list) :
    LET w    == [sv EXCEPT !.list = p]
        more == InOrder(Cascade(w)) (+) IF StillLoading(w, f) THEN One(Tick(f)) ELSE None
    IN  /\ more = None \/ BagCardinality(msgs) <= MaxPending
        /\ Handle(Tick(f), Synced(w), more)

\* SwitchRunMsg refreshes the palette's corpus even when that is open; the
\* SingleView, which the Pop before it has uncovered, does not know the
\* message and tells the panes.
TakeSwitchRun ==
  \E r \in Run, p \in Refilters(sv.list) :
    LET w == [sv EXCEPT !.list = p]
    IN  /\ Take(SwitchRun(r), InOrder(Cascade(w)))
        /\ corpus' \in IF ReadFaults THEN {r, NoRun} ELSE {r}
        /\ sv' = Synced(w)
        /\ UNCHANGED <<above, bar, over>>

Succeeds == IF ReadFaults THEN BOOLEAN ELSE {TRUE}

ForScreen ==
  {"resolve", "kind", "resource", "swap", "scopes", "overview", "rows", "edges", "tick"}

\* The palette, or the screen above, gets the message and has no use for it;
\* but the scopes modal shows the projects it asked for.
Swallowed ==
  /\ ~Reached
  /\ \E m \in {Head(q) : q \in DOMAIN msgs} :
       /\ m.type \in ForScreen
       /\ Take(m, None)
       /\ above' = IF m = ScopesLoad /\ above = "scopes" /\ ~bar
                   THEN "scopesLoaded" ELSE above
       /\ UNCHANGED <<sv, bar, corpus, over>>

Message ==
  \/ PushScreen \/ PopScreen \/ TakeQuit \/ SubmitScopes \/ SubmitKind
  \/ TakeSwitchRun \/ Swallowed
  \/ \E f \in Panel : TakeTick(f)
  \/ \E k \in Kind :
       \/ TakeKindSelected(k)
       \/ \E i \in {0} \cup UNION {Rows(r, k) : r \in Run} : TakeSwapLeft(k, i)
       \/ \E r \in Run, i \in UNION {Rows(x, k) : x \in Run} :
            TakeResourceSelected([src |-> [run |-> r, kind |-> k], row |-> i])
  \/ \E ok \in Succeeds :
       \/ TakeScopesLoad(ok)
       \/ \E r \in Run : \/ TakeScopeSelected(r, ok)
                         \/ TakeOverviewLoad(r, ok)
                         \/ TakeEdgesLoad(r, ok)
                         \/ \E k \in Kind : TakeRowsLoad(r, k, ok)

-----------------------------------------------------------------------------
(***************************************************************************)
(* Keys.                                                                   *)
(***************************************************************************)
Press ==
  /\ ~over
  /\ Patient => Idle
  /\ BagCardinality(msgs) <= MaxPending

\* At most one screen is above, and a run is picked only for the SingleView.
Opening == \E q \in DOMAIN msgs :
             \E i \in 1 .. Len(q) : q[i].type \in {"push", "scopesAlias", "switch"}

OnlyReturns(cmds) == Return(cmds) /\ UNCHANGED <<sv, above, bar, corpus, over>>

QuitKey == Press /\ ~bar /\ OnlyReturns(One(Quit))

OpenBar == Press /\ ~bar /\ bar' = TRUE /\ UNCHANGED <<sv, above, corpus, msgs, over>>

CloseBar(cmds) ==
  Press /\ bar /\ bar' = FALSE /\ Return(cmds) /\ UNCHANGED <<sv, above, corpus, over>>

BarEsc == CloseBar(None)

\* Enter: "scopes", the alias of a kind, or a resource of the corpus.
BarEnter ==
  \/ above = "none" /\ ~Opening /\ CloseBar(One(OpenScopesModal))
  \/ \E k \in Kind : CloseBar(One(Submit(k, 0)))
  \/ \E k \in Kind : corpus # NoRun /\ \E i \in Rows(corpus, k) : CloseBar(One(Submit(k, i)))

\* The screen above: Esc closes it, Enter in the scopes modal picks a run.
AboveEsc == Press /\ ~bar /\ above # "none" /\ OnlyReturns(One(Pop))
AboveEnter ==
  /\ Press /\ ~bar /\ above = "scopesLoaded"
  /\ \E r \in Run : OnlyReturns(InOrder(<<Pop, SwitchRun(r)>>))

\* SingleView's own keys, unless the focused pane absorbs them.
OwnKey == Press /\ Reached /\ ~ActivePaneAbsorbing(sv)

Tab == /\ OwnKey
       /\ \E forward \in BOOLEAN : sv' = Cycled(sv, forward)
       /\ UNCHANGED <<above, bar, corpus, msgs, over>>

Esc == OwnKey /\ OnlyReturns(One(Pop))

\* dispatchKey: the focused pane has the key and may return a command; then
\* the cascade looks.
Dispatch(w, first) ==
  /\ Press /\ Reached
  /\ sv' = Synced(w)
  /\ Return(InOrder(first \o Cascade(w)))
  /\ UNCHANGED <<above, bar, corpus, over>>

ScopesKey ==
  /\ sv.focus = "scopes"
  /\ \E r \in sv.scopes.rows :
       Dispatch([sv EXCEPT !.scopes.cursor = r,
                           !.wanted = IF r = sv.scopes.cursor THEN @ ELSE NoKind], <<>>)

OverviewKey ==
  /\ sv.focus = "overview"
  /\ \E k \in SelectedKinds(sv.overview) :
       Dispatch([sv EXCEPT !.picked = k,
                           !.wanted = IF k = sv.picked THEN @ ELSE NoKind], <<>>)

ListKey ==
  /\ sv.focus = "list"
  /\ sv.list # NoPane
  /\ \E p \in LeftKeys(sv.list) : Dispatch([sv EXCEPT !.list = p], <<>>)

\* "g" in the Detail.
GraphKey ==
  /\ sv.focus = "detail"
  /\ sv.detail # NoDetail
  /\ ~Opening
  /\ Dispatch(sv, <<Push("graph")>>)

\* A key the focused pane has no use for, or one for a pane that is nil.
OtherKey == Dispatch(sv, <<>>)

Key ==
  \/ QuitKey \/ OpenBar \/ BarEsc \/ BarEnter \/ AboveEsc \/ AboveEnter
  \/ Tab \/ Esc \/ ScopesKey \/ OverviewKey \/ ListKey \/ GraphKey \/ OtherKey

-----------------------------------------------------------------------------
Next == Message \/ Key

Spec == Init /\ [][Next]_vars

\* Queries end and the event loop takes what was sent; the user is free.
FairSpec == Spec /\ WF_vars(Message)

-----------------------------------------------------------------------------
Selection == [src : Source, row : Nat]

SvTypeOK ==
  /\ sv.scopes \in [loaded : BOOLEAN, rows : SUBSET Run, cursor : MaybeRun, last : MaybeRun]
  /\ sv.run \in MaybeRun
  /\ {sv.overview, sv.list} \subseteq Pane \cup {NoPane}
  /\ {sv.picked, sv.listFor, sv.wanted} \subseteq MaybeKind
  /\ sv.detail \in Detail
  /\ sv.detailFor \in Selection
  /\ sv.focus \in Panel
  /\ above \in {"none", "graph", "scopes", "scopesLoaded"}
  /\ corpus \in MaybeRun
  /\ {bar, over} \subseteq BOOLEAN
  /\ IsABag(msgs)

(***************************************************************************)
(* For any user.                                                           *)
(***************************************************************************)
\* Whatever order the cascade's messages come in, the panes below the scope
\* are built for the run the view says it shows, and none is there without
\* a run.
PanesAreOneRun ==
  /\ \A p \in {sv.overview, sv.list} : p # NoPane => p.run = sv.run
  /\ sv.detail # NoDetail => sv.detail.run = sv.run
  /\ sv.list.kind = sv.listFor

(***************************************************************************)
(* For a patient user.                                                     *)
(***************************************************************************)
\* A cascade reaches the bottom: once nothing is pending, every pane follows
\* the cursor above it and has loaded.
CascadeSettles ==
  Idle =>
    /\ sv.scopes.loaded
    /\ sv.scopes.cursor # NoRun => sv.run \in {sv.scopes.cursor, NoRun}
    /\ \A p \in {sv.overview, sv.list} : p # NoPane => p.loaded
    /\ sv.detail # NoDetail => sv.detail.loaded
    /\ sv.picked # NoKind => sv.listFor = sv.picked
    /\ SelectedResource(sv.list) # NoSelection =>
         sv.detailFor = SelectedResource(sv.list) /\ sv.detail # NoDetail

\* What a pane shows is what it was built for, as long as the palette has not
\* swapped the list.
SvShowsItsOwn ==
  Idle /\ sv.wanted = NoKind =>
  /\ \A p \in {sv.overview, sv.list} :
       p.src \in {Nothing, [run |-> p.run, kind |-> p.kind]}
  /\ sv.detail # NoDetail =>
       sv.detail.src.run = sv.run /\ sv.detail.edges \in {NoRun, sv.run}

\* Nil panes are skipped: the focus is on a pane that is there.
FocusIsOnPane == PaneReady(sv, sv.focus)

\* A cascade ends: it does not set itself off again.
CascadeEnds == []<>(Idle \/ over)

(***************************************************************************)
(* What the documentation says of the program and the program does not do. *)
(***************************************************************************)
\* `:alias` jumps the resource pane to that kind.
AliasStays == Idle /\ sv.wanted # NoKind => sv.listFor = sv.wanted
=============================================================================
