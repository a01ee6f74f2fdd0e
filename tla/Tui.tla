-------------------------------- MODULE Tui ---------------------------------
(***************************************************************************)
(* The terminal program: App.Update of internal/tui/app.go, which routes   *)
(* every message, over a stack of screens: Scopes (the root, or a modal),  *)
(* Frame, RunHistory and GraphView.  Bubble Tea runs the program: a        *)
(* handler returns commands, each runs in a goroutine of its own, and its  *)
(* result comes back as a message, in any order (msgs), between keys.      *)
(*                                                                         *)
(* A result names neither the pane that asked for it nor what was asked:   *)
(* the run and kind in a message below is what the rows in it are of.      *)
(* Left out: sizes, help, toasts and what only makes a toast, exports, the *)
(* text typed in the palette, a Detail's tabs, and sorting.                *)
(***************************************************************************)
EXTENDS Panes, Sequences, Bags

CONSTANTS
  Scope,       \* the projects
  ScopeOf,     \* ScopeOf[r]: the project run r is of
  Latest,      \* the newest run of each project (uniqueScopes)
  ReadFaults,  \* TRUE when a query may fail
  Patient,     \* TRUE: the user waits until nothing is pending
  MayQuit,     \* FALSE: the user never presses the quit key
  MaxPending,  \* bound on the messages pending when a key is pressed
  MaxStack,    \* bound on the screens, pushed and pending, when a key is pressed
  MaxHistory   \* bound on leftHistory when a key is pressed

ASSUME TuiAssumption ==
  /\ ScopeOf \in [Run -> Scope]
  /\ Latest \subseteq Run
  /\ ReadFaults \in BOOLEAN
  /\ {Patient, MayQuit} \subseteq BOOLEAN
  /\ {MaxPending, MaxStack, MaxHistory} \subseteq Nat

VARIABLES
  stack,   \* App.stack, the top last
  bar,     \* App.cmdbar: open, and the run whose resources it suggests
  corpus,  \* the run of the cmdbar's corpus
  msgs,    \* commands running and messages not yet handled, a bag
  asked,   \* history: where the quit key was pressed, "no" before
  over     \* the program has ended

vars == <<stack, bar, corpus, msgs, asked, over>>

-----------------------------------------------------------------------------
(***************************************************************************)
(* Screens.                                                                *)
(***************************************************************************)
NewScopes(modal) == [scr |-> "scopes", modal |-> modal, rows |-> "loading"]
NewRunHistory(s) ==
  [scr |-> "history", scope |-> s, loaded |-> FALSE, rows |-> {}]
\* loaded is a history variable: the edges had been loaded by then.
NewGraphView(d) ==
  [scr |-> "graph", run |-> d.run, edges |-> d.edges, loaded |-> d.loaded]
\* counted is the run totalResources and kindCount were counted for.
NewFrame(r) ==
  [scr |-> "frame", run |-> r, counted |-> r, left |-> NewOverview(r),
   leftHistory |-> <<>>, right |-> NoDetail, focus |-> "left", zoomed |-> FALSE]

ScopesScreen ==
  [scr : {"scopes"}, modal : BOOLEAN, rows : {"loading", "failed", "loaded"}]
HistoryScreen ==
  [scr : {"history"}, scope : Scope, loaded : BOOLEAN, rows : SUBSET Run]
GraphScreen ==
  [scr : {"graph"}, run : MaybeRun, edges : MaybeRun, loaded : BOOLEAN]
FrameScreen ==
  [scr : {"frame"}, run : Run, counted : Run, left : Pane,
   leftHistory : Seq(Pane), right : Detail, focus : {"left", "right"}, zoomed : BOOLEAN]
Screen == ScopesScreen \cup HistoryScreen \cup GraphScreen \cup FrameScreen

Top == stack[Len(stack)]
OnTop(s) == stack' = [stack EXCEPT ![Len(stack)] = s]
IsFrame(s) == s.scr = "frame"
RunsOf(s) == {r \in Run : ScopeOf[r] = s}

(***************************************************************************)
(* Messages.                                                               *)
(***************************************************************************)
Push(s)           == [type |-> "push", screen |-> s]
Pop               == [type |-> "pop"]
PopThenSwitch(r)  == [type |-> "popThenSwitch", run |-> r]
SwitchRun(r)      == [type |-> "switch", run |-> r]
OpenScopesModal   == [type |-> "scopesAlias"]
Submit(k)         == [type |-> "submit", kind |-> k]
JumpTo(k, i)      == [type |-> "jump", kind |-> k, row |-> i]
SwapLeft(k, i)    == [type |-> "swap", kind |-> k, row |-> i]
Quit              == [type |-> "quit"]
OverviewLoad(r)   == [type |-> "overview", run |-> r]
RowsLoad(r, k)    == [type |-> "rows", run |-> r, kind |-> k]
EdgesLoad(r)      == [type |-> "edges", run |-> r]
ScopesLoad        == [type |-> "scopes"]
RunsLoad(s)       == [type |-> "runs", scope |-> s]

Message ==
  {Pop, OpenScopesModal, Quit, ScopesLoad}
    \cup [type : {"push"}, screen : Screen]
    \cup [type : {"popThenSwitch", "switch", "overview", "edges"}, run : Run]
    \cup [type : {"submit"}, kind : Kind]
    \cup [type : {"jump", "swap"}, kind : Kind, row : Nat]
    \cup [type : {"rows"}, run : Run, kind : Kind]
    \cup [type : {"runs"}, scope : Scope]

None == EmptyBag
One(m) == SetToBag({m})
Return(cmds) == msgs' = msgs (+) cmds

\* Screen.Init.
InitOf(s) ==
  CASE s.scr = "scopes"  -> One(ScopesLoad)
    [] s.scr = "history" -> One(RunsLoad(s.scope))
    [] s.scr = "graph"   -> None
    [] s.scr = "frame"   -> One(OverviewLoad(s.run))

Init ==
  /\ stack = <<NewScopes(FALSE)>>
  /\ bar = [open |-> FALSE, run |-> NoRun]
  /\ corpus = NoRun
  /\ msgs = InitOf(NewScopes(FALSE))
  /\ asked = "no"
  /\ over = FALSE

-----------------------------------------------------------------------------
(***************************************************************************)
(* Frame.                                                                  *)
(***************************************************************************)
\* Mutant of WithLeft: the Detail of the old pane stays.
WithLeftOnly(f, p) == [f EXCEPT !.left = p]

\* A new left pane: nothing is selected yet, so there is no Detail.
WithLeft(f, p) == [f EXCEPT !.left = p, !.right = NoDetail]

\* SwapLeftPaneMsg.
Swapped(f, k, i) ==
  [WithLeft(f, NewResourceList(f.run, k, i)) EXCEPT
     !.leftHistory = Append(@, f.left), !.zoomed = FALSE]

\* Mutants of Switched: the history, or the Detail, of the old run stays.
SwitchedKeepsHistory(f, r) ==
  [WithLeft(f, NewOverview(r)) EXCEPT !.run = r, !.zoomed = FALSE]
SwitchedKeepsDetail(f, r) ==
  [f EXCEPT !.left = NewOverview(r), !.run = r, !.leftHistory = <<>>,
            !.zoomed = FALSE]

\* SwitchRunMsg.
Switched(f, r) ==
  [WithLeft(f, NewOverview(r)) EXCEPT
     !.run = r, !.leftHistory = <<>>, !.zoomed = FALSE]

\* handleEnter on a kind.
Drilled(f, k) ==
  [WithLeft(f, NewResourceList(f.run, k, 0)) EXCEPT
     !.leftHistory = Append(@, f.left)]

\* Esc with a history: the previous pane as it was left.
Restored(f) ==
  [WithLeft(f, f.leftHistory[Len(f.leftHistory)]) EXCEPT
     !.leftHistory = SubSeq(@, 1, Len(@) - 1)]

\* toggleFocus.
Toggled(f) ==
  [f EXCEPT !.focus = IF f.focus = "left" /\ f.right # NoDetail
                      THEN "right" ELSE "left"]

\* syncRightWithSelection: the Frame and the command it returns.
Stale(f) ==
  /\ SelectedRef(f.left) # NoRef
  /\ f.right = NoDetail \/ f.right.ref # SelectedRef(f.left)
Synced(f) ==
  CASE SelectedRef(f.left) = NoRef -> [f EXCEPT !.right = NoDetail]
    [] Stale(f) -> [f EXCEPT !.right = NewDetail(f.run, f.left)]
    [] OTHER    -> f
\* Mutant of SyncLoads: Detail.Init is not called.
SyncLoadsForgotten(f) == None
SyncLoads(f) == IF Stale(f) THEN One(EdgesLoad(f.run)) ELSE None

-----------------------------------------------------------------------------
(***************************************************************************)
(* Messages App.Update handles itself, whatever is on top and whether the  *)
(* palette is open or not.                                                 *)
(***************************************************************************)
Take(m, cmds) ==
  /\ ~over
  /\ BagIn(m, msgs)
  /\ msgs' = (msgs (-) One(m)) (+) cmds

\* refreshCmdbarCorpus: without its query's answer the palette has aliases only.
RefreshCorpus(r) ==
  corpus' \in IF ReadFaults THEN {r, NoRun} ELSE {r}

PushScreen(s) ==
  /\ Take(Push(s), InitOf(s))
  /\ stack' = Append(stack, s)
  /\ IF IsFrame(s) THEN RefreshCorpus(s.run) ELSE UNCHANGED corpus
  /\ UNCHANGED <<bar, asked, over>>

PopScreen ==
  /\ IF Len(stack) > 1
     THEN Take(Pop, None) /\ stack' = SubSeq(stack, 1, Len(stack) - 1)
     ELSE Take(Pop, One(Quit)) /\ UNCHANGED stack
  /\ UNCHANGED <<bar, corpus, asked, over>>

\* tea.Sequence(PopScreenCmd(), SwitchRunCmd(r)): its second message is sent
\* once the first has been taken.
PopInSequence(r) ==
  /\ IF Len(stack) > 1
     THEN /\ Take(PopThenSwitch(r), One(SwitchRun(r)))
          /\ stack' = SubSeq(stack, 1, Len(stack) - 1)
     ELSE Take(PopThenSwitch(r), One(SwitchRun(r)) (+) One(Quit)) /\ UNCHANGED stack
  /\ UNCHANGED <<bar, corpus, asked, over>>

\* SwitchRunMsg goes to the top screen: a Frame switches, Scopes pushes a new
\* Frame, any other screen ignores it.
SwitchOnTop(r) ==
  /\ RefreshCorpus(r)
  /\ CASE IsFrame(Top) -> /\ Take(SwitchRun(r), One(OverviewLoad(r)))
                          /\ OnTop(Switched(Top, r))
       [] Top.scr = "scopes" -> /\ Take(SwitchRun(r), One(Push(NewFrame(r))))
                                /\ UNCHANGED stack
       [] OTHER -> Take(SwitchRun(r), None) /\ UNCHANGED stack
  /\ UNCHANGED <<bar, asked, over>>

HasRun == \E i \in 1 .. Len(stack) : IsFrame(stack[i])

\* CmdSubmitMsg and CmdJumpResourceMsg; without a current run, a toast.
SubmitScopes ==
  /\ Take(OpenScopesModal, One(Push(NewScopes(TRUE))))
  /\ UNCHANGED <<stack, bar, corpus, asked, over>>

SubmitAlias(k) ==
  /\ Take(Submit(k), IF HasRun THEN One(SwapLeft(k, 0)) ELSE None)
  /\ UNCHANGED <<stack, bar, corpus, asked, over>>

SubmitJump(k, i) ==
  /\ Take(JumpTo(k, i), IF HasRun THEN One(SwapLeft(k, i)) ELSE None)
  /\ UNCHANGED <<stack, bar, corpus, asked, over>>

TakeQuit ==
  /\ Take(Quit, None)
  /\ over' = TRUE
  /\ UNCHANGED <<stack, bar, corpus, asked>>

AppMessage ==
  \/ \E m \in DOMAIN msgs : m.type = "push" /\ PushScreen(m.screen)
  \/ PopScreen
  \/ \E r \in Run : PopInSequence(r) \/ SwitchOnTop(r)
  \/ SubmitScopes
  \/ \E k \in Kind : \/ SubmitAlias(k)
                     \/ \E i \in UNION {Rows(r, k) : r \in Run} : SubmitJump(k, i)
  \/ TakeQuit

-----------------------------------------------------------------------------
(***************************************************************************)
(* Every other message: an open palette swallows it, else it is for the    *)
(* top screen, whichever that is by now.                                   *)
(***************************************************************************)
ForScreen(m) == m.type \in {"swap", "overview", "rows", "edges", "scopes", "runs"}

BarSwallows ==
  /\ bar.open
  /\ \E m \in DOMAIN msgs : ForScreen(m) /\ Take(m, None)
  /\ bar' = [bar EXCEPT !.run = corpus]
  /\ UNCHANGED <<stack, corpus, asked, over>>

Succeeds == IF ReadFaults THEN BOOLEAN ELSE {TRUE}

\* SwapLeftPaneMsg: only a Frame knows it.
TakeSwap(k, i) ==
  IF IsFrame(Top)
  THEN /\ Take(SwapLeft(k, i), One(RowsLoad(Top.run, k)))
       /\ OnTop(Swapped(Top, k, i))
  ELSE Take(SwapLeft(k, i), None) /\ UNCHANGED stack

\* A message that is not a key and not Frame's own: a Frame hands it to both
\* of its panes and looks at the selection.  lefts and right are what the
\* panes make of it.
FrameTakes(m, lefts, right) ==
  IF IsFrame(Top)
  THEN \E p \in lefts :
         LET f == [Top EXCEPT !.left = p, !.right = right]
         IN  Take(m, SyncLoads(f)) /\ OnTop(Synced(f))
  ELSE Take(m, None) /\ UNCHANGED stack

TakeOverviewLoad(r, ok) ==
  LET src == IF ok THEN [run |-> r, kind |-> NoKind] ELSE Nothing
  IN  FrameTakes(OverviewLoad(r),
                 IF IsOverview(Top.left) THEN {TakeOverview(Top.left, src)}
                                         ELSE Refiltered(Top.left), Top.right)

TakeRowsLoad(r, k, ok) ==
  LET src == IF ok THEN [run |-> r, kind |-> k] ELSE Nothing
  IN  FrameTakes(RowsLoad(r, k), TakeRows(Top.left, src), Top.right)

TakeEdgesLoad(r, ok) ==
  FrameTakes(EdgesLoad(r), Refiltered(Top.left),
             TakeEdges(Top.right, IF ok THEN r ELSE NoRun))

TakeScopesLoad(ok) ==
  IF Top.scr = "scopes"
  THEN /\ Take(ScopesLoad, None)
       /\ OnTop([Top EXCEPT !.rows = IF ok THEN "loaded" ELSE "failed"])
  ELSE FrameTakes(ScopesLoad, Refiltered(Top.left), Top.right)

TakeRunsLoad(s, ok) ==
  IF Top.scr = "history"
  THEN /\ Take(RunsLoad(s), None)
       /\ OnTop([Top EXCEPT !.loaded = TRUE, !.rows = IF ok THEN RunsOf(s) ELSE {}])
  ELSE FrameTakes(RunsLoad(s), Refiltered(Top.left), Top.right)

ScreenMessage ==
  \/ BarSwallows
  \/ /\ ~bar.open
     /\ \/ \E k \in Kind : \E i \in {0} \cup UNION {Rows(r, k) : r \in Run} :
             TakeSwap(k, i)
        \/ \E ok \in Succeeds :
             \/ TakeScopesLoad(ok)
             \/ \E s \in Scope : TakeRunsLoad(s, ok)
             \/ \E r \in Run : \/ TakeOverviewLoad(r, ok)
                               \/ TakeEdgesLoad(r, ok)
                               \/ \E k \in Kind : TakeRowsLoad(r, k, ok)
     /\ UNCHANGED <<bar, corpus, asked, over>>

-----------------------------------------------------------------------------
(***************************************************************************)
(* Keys.  The palette has them all while it is open; then App takes q, ?   *)
(* and :, and the rest goes to the top screen.                             *)
(***************************************************************************)
Press ==
  /\ ~over
  /\ Patient => msgs = EmptyBag
  /\ BagCardinality(msgs) < MaxPending

RoomToPush == Len(stack) + BagCardinality(msgs) < MaxStack
RoomToSwap ==
  \A i \in 1 .. Len(stack) :
    IsFrame(stack[i]) => Len(stack[i].leftHistory) < MaxHistory

\* q and Ctrl+C.
QuitKey ==
  /\ Press
  /\ MayQuit /\ asked = "no"
  /\ IF bar.open
     THEN /\ asked' = "bar"
          /\ bar' = [bar EXCEPT !.run = corpus]
          /\ UNCHANGED msgs
     ELSE /\ asked' = IF IsFrame(Top) /\ Top.left.filter THEN "filter" ELSE "plain"
          /\ Return(One(Quit))
          /\ UNCHANGED bar
  /\ UNCHANGED <<stack, corpus, over>>

\* ":" opens the palette; what is typed finds suggestions in the corpus.
OpenBar ==
  /\ Press
  /\ ~bar.open
  /\ bar' = [open |-> TRUE, run |-> corpus]
  /\ UNCHANGED <<stack, corpus, msgs, asked, over>>

TypeInBar ==
  /\ Press
  /\ bar.open
  /\ bar' = [bar EXCEPT !.run = corpus]
  /\ UNCHANGED <<stack, corpus, msgs, asked, over>>

Closed == [open |-> FALSE, run |-> NoRun]

BarEsc ==
  /\ Press
  /\ bar.open
  /\ bar' = Closed
  /\ UNCHANGED <<stack, corpus, msgs, asked, over>>

\* Enter: "scopes", the alias of a kind, or a resource of the corpus.
BarEnter ==
  /\ Press
  /\ bar.open
  /\ bar' = Closed
  /\ \/ RoomToPush /\ Return(One(OpenScopesModal))
     \/ /\ RoomToSwap
        /\ \E k \in Kind :
             \/ Return(One(Submit(k)))
             \/ bar.run # NoRun /\ \E i \in Rows(bar.run, k) : Return(One(JumpTo(k, i)))
  /\ UNCHANGED <<stack, corpus, asked, over>>

-----------------------------------------------------------------------------
OnScreen(scr) == Press /\ ~bar.open /\ Top.scr = scr
OnlyReturns(cmds) == Return(cmds) /\ UNCHANGED <<stack, bar, corpus, asked, over>>

ScopesEnter ==
  /\ OnScreen("scopes")
  /\ Top.rows = "loaded"
  /\ \E r \in Latest :
       IF Top.modal THEN OnlyReturns(One(PopThenSwitch(r)))
                    ELSE RoomToPush /\ OnlyReturns(One(Push(NewFrame(r))))

ScopesHistory ==
  /\ OnScreen("scopes")
  /\ Top.rows = "loaded"
  /\ RoomToPush
  /\ \E r \in Latest : OnlyReturns(One(Push(NewRunHistory(ScopeOf[r]))))

\* Mutant of ScopesEsc: Esc pops the root as well.
ScopesEscAnywhere == OnScreen("scopes") /\ OnlyReturns(One(Pop))

ScopesEsc == OnScreen("scopes") /\ Top.modal /\ OnlyReturns(One(Pop))

HistoryEnter ==
  OnScreen("history") /\ \E r \in Top.rows : OnlyReturns(One(PopThenSwitch(r)))

HistoryEsc == OnScreen("history") /\ OnlyReturns(One(Pop))

GraphEsc == OnScreen("graph") /\ OnlyReturns(One(Pop))

\* Frame's own keys, which it takes unless the left pane absorbs keys.
FrameKey == OnScreen("frame") /\ ~Top.left.filter

FrameBecomes(f, cmds) ==
  OnTop(f) /\ Return(cmds) /\ UNCHANGED <<bar, corpus, asked, over>>

FrameTab == FrameKey /\ FrameBecomes(Toggled(Top), None)

FrameEnterKind ==
  /\ FrameKey
  /\ Top.focus = "left"
  /\ RoomToSwap
  /\ \E k \in SelectedKinds(Top.left) :
       FrameBecomes(Drilled(Top, k), One(RowsLoad(Top.run, k)))

FrameEnterRow ==
  /\ FrameKey
  /\ Top.focus = "left"
  /\ SelectedRef(Top.left) # NoRef
  /\ FrameBecomes([Top EXCEPT !.zoomed = TRUE], None)

FrameEsc ==
  /\ FrameKey
  /\ CASE Top.zoomed -> FrameBecomes([Top EXCEPT !.zoomed = FALSE], None)
       [] ~Top.zoomed /\ Top.leftHistory # <<>> -> FrameBecomes(Restored(Top), None)
       [] OTHER -> OnlyReturns(One(Pop))

\* "g": Frame's key, or the Detail's when the left pane absorbs keys and the
\* Detail has the focus.
FrameGraph ==
  /\ OnScreen("frame")
  /\ Top.left.filter => Top.focus = "right"
  /\ Top.right # NoDetail
  /\ RoomToPush
  /\ OnlyReturns(One(Push(NewGraphView(Top.right))))

FrameHistory ==
  /\ FrameKey
  /\ RoomToPush
  /\ OnlyReturns(One(Push(NewRunHistory(ScopeOf[Top.run]))))

\* Keys for the left pane when it has the focus; the Detail follows.
FrameLeftKey ==
  /\ OnScreen("frame")
  /\ Top.focus = "left"
  /\ \E p \in LeftKeys(Top.left) :
       LET f == [Top EXCEPT !.left = p]
       IN  FrameBecomes(Synced(f), SyncLoads(f))

\* A key for the Detail, or one nobody knows: Frame looks at the selection.
FrameOtherKey ==
  OnScreen("frame") /\ FrameBecomes(Synced(Top), SyncLoads(Top))

Key ==
  \/ QuitKey \/ OpenBar \/ TypeInBar \/ BarEsc \/ BarEnter
  \/ ScopesEnter \/ ScopesHistory \/ ScopesEsc
  \/ HistoryEnter \/ HistoryEsc \/ GraphEsc
  \/ FrameTab \/ FrameEnterKind \/ FrameEnterRow \/ FrameEsc
  \/ FrameGraph \/ FrameHistory \/ FrameLeftKey \/ FrameOtherKey

-----------------------------------------------------------------------------
\* The tick of a spinner, which outlives the load it was started for: the
\* panes ignore it, but Frame treats it as any message.  A patient user has
\* waited for it too; it finds nothing to do before that.
Tick ==
  /\ ~over
  /\ ~Patient
  /\ ~bar.open
  /\ IsFrame(Top)
  /\ \E p \in Refiltered(Top.left) :
       LET f == [Top EXCEPT !.left = p]
       IN  FrameBecomes(Synced(f), SyncLoads(f))

Next == AppMessage \/ ScreenMessage \/ Key \/ Tick

Spec == Init /\ [][Next]_vars

\* Queries end and the event loop takes what was sent; the user is free.
FairSpec == Spec /\ WF_vars(AppMessage \/ ScreenMessage)

-----------------------------------------------------------------------------
(***************************************************************************)
(* Types.  The bounds on keys bound neither stack nor msgs as such.        *)
(***************************************************************************)
TuiTypeOK ==
  /\ stack \in Seq(Screen)
  /\ bar \in [open : BOOLEAN, run : MaybeRun]
  /\ corpus \in MaybeRun
  /\ IsABag(msgs) /\ DOMAIN msgs \subseteq Message
  /\ asked \in {"no", "plain", "bar", "filter"}
  /\ over \in BOOLEAN

Frames == {stack[i] : i \in {j \in 1 .. Len(stack) : IsFrame(stack[j])}}
PanesOf(f) == {f.left} \cup {f.leftHistory[i] : i \in 1 .. Len(f.leftHistory)}
Idle == msgs = EmptyBag

(***************************************************************************)
(* For any user.                                                           *)
(***************************************************************************)
\* The root is never popped, however many pops and switches are pending:
\* findCurrentRun, Update and View index the stack without a check.
RootStays == Len(stack) > 0 /\ stack[1].scr = "scopes" /\ ~stack[1].modal

\* Every pane of a Frame, those in its history and its Detail included, was
\* built for the run the Frame shows: Esc after a switch of runs never brings
\* back the run before.
FrameIsOneRun ==
  \A f \in Frames : /\ \A p \in PanesOf(f) : p.run = f.run
                    /\ f.right # NoDetail => f.right.run = f.run

\* The Detail beside a list is the Detail of the row the cursor is on.
DetailIsSelected ==
  \A f \in Frames : f.right # NoDetail => f.right.ref = SelectedRef(f.left)

(***************************************************************************)
(* For a patient user; a hasty one can break each of them.                 *)
(***************************************************************************)
\* Once nothing is pending, nothing is "loading...": async load results
\* reach their owner.
EveryLoadArrives ==
  Idle => /\ \A i \in 1 .. Len(stack) :
               /\ stack[i].scr = "scopes" => stack[i].rows # "loading"
               /\ stack[i].scr = "history" => stack[i].loaded
          /\ \A f \in Frames : /\ \A p \in PanesOf(f) : p.loaded
                               /\ f.right # NoDetail => f.right.loaded

\* A part shows what it was built for: a list its run's rows of its kind, a
\* history its project's runs, a Detail a row and the edges of its run.
PartsShowTheirOwn ==
  /\ \A i \in 1 .. Len(stack) :
       stack[i].scr = "history" => stack[i].rows \in {{}, RunsOf(stack[i].scope)}
  /\ \A f \in Frames :
       /\ \A p \in PanesOf(f) :
            p.src \in {Nothing, [run |-> p.run, kind |-> p.kind]}
       /\ f.right # NoDetail => /\ f.right.src.run = f.run
                                /\ f.right.edges \in {NoRun, f.run}

\* The cursor lands on the row the palette asked for, once the list has it.
JumpLands ==
  \A f \in Frames : \A p \in PanesOf(f) :
    LET own == [run |-> p.run, kind |-> p.kind]
    IN  p.goal # 0 /\ p.src = own /\ p.goal \in Rows(p.run, p.kind) => p.cursor = p.goal

\* A graph is drawn from loaded edges: it never loads any itself.
GraphIsLoaded ==
  \A i \in 1 .. Len(stack) : stack[i].scr = "graph" => stack[i].loaded

\* The program ends only after the quit key.
EndsOnlyWhenAsked == over => asked # "no"

(***************************************************************************)
(* What the documentation says of the program and the program does not do. *)
(***************************************************************************)
\* The quit key always wins, even with the palette open.
QuitAlwaysWins == (asked # "no") ~> over

\* The user can type freely into the filter: a typed q does not end anything.
FilterKeepsKeys == over => asked # "filter"

\* A pane whose filter input is open has the focus, so that Esc or Enter can
\* close it.
AbsorbingPaneHasFocus == \A f \in Frames : f.left.filter => f.focus = "left"

\* SwapLeftPaneMsg finds any Frame on the stack.
SwapReachesFrame ==
  [][(HasRun /\ \E m \in DOMAIN msgs : m.type = "swap" /\ m \notin DOMAIN msgs')
       => stack' # stack]_vars

\* The status bar shows the totals of the run it names.
StatusbarIsLive == \A f \in Frames : f.counted = f.run

\* The Detail on the right is live: with a row under the cursor there is one.
DetailIsLive ==
  Idle => \A f \in Frames : SelectedRef(f.left) # NoRef => f.right # NoDetail

\* The palette points at the active run's resources.
ActiveRun ==
  LET frames == {i \in 1 .. Len(stack) : IsFrame(stack[i])}
  IN  stack[CHOOSE i \in frames : \A j \in frames : j <= i].run
CorpusFollowsRun == Idle /\ HasRun => corpus \in {ActiveRun, NoRun}

\* A run is switched in place: there is never a second Frame.
OneFrame == \A i, j \in 1 .. Len(stack) :
              IsFrame(stack[i]) /\ IsFrame(stack[j]) => i = j
=============================================================================
