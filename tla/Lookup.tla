------------------------------- MODULE Lookup -------------------------------
(***************************************************************************)
(* A Frame with a resource list, and the command bar over it: App.Update   *)
(* routes keys and messages between the two, and hands the window's size   *)
(* down to the list.  An open bar has every key and every message but      *)
(* those of the router.  A committed suggestion puts a new list in the     *)
(* place of the old one (the messages in between are those of Tui), which  *)
(* Esc brings back.                                                        *)
(***************************************************************************)
EXTENDS ListView, Palette

CONSTANTS
  Window,          \* the sizes of the terminal
  MaxHistory       \* bound on leftHistory when a suggestion is committed

ASSUME LookupAssumption ==
  /\ Window \subseteq [width : Nat \ {0}, height : Nat \ {0}]
  /\ MaxHistory \in Nat

VARIABLES
  window,          \* App's width and height, NoWindow before the first message
  lastBodyShrink,  \* the lines the bar had when the screen was told a size
  frame,           \* the size the Frame was told
  leftHistory,     \* the lists left for the one on the screen, above the Overview
  sizedFor         \* history: the window of the last size the list was told

fvars == <<window, lastBodyShrink, frame, leftHistory, sizedFor>>
vars == <<own, src, loaded, visible, cursor, filterOn, filterIn, sort, pending,
          height, tall, innerWidth, widths, shown, goal,
          open, text, resources, suggestions, selected, offset,
          window, lastBodyShrink, frame, leftHistory, sizedFor>>

NoWindow == [width |-> 0, height |-> 0]

Init ==
  /\ ListInit /\ BarInit /\ resources = own.run
  /\ window = NoWindow /\ lastBodyShrink = 0 /\ frame = NoWindow
  /\ leftHistory = <<>> /\ sizedFor = NoWindow

-----------------------------------------------------------------------------
(* Sizes.                                                                  *)

\* Cmdbar.RenderHeight.
RenderHeight(o) == IF o THEN 1 + visibleWindow ELSE 0

\* What crumbs, bar, footer and the status bar of a run leave of window w.
bodyBudget(w, o) == Max({5, w.height - 3 - RenderHeight(o)})

\* Frame.Update on a size of window w that leaves its body h lines: the lists
\* in leftHistory are not told.
TellFrame(w, h) ==
  /\ frame' = [width |-> w.width, height |-> h] /\ sizedFor' = w
  /\ Resize(h)
  /\ UNCHANGED leftHistory

\* tea.WindowSizeMsg, bar open or not.
WindowSize ==
  \E w \in Window :
    /\ window' = w
    /\ lastBodyShrink' = RenderHeight(open)
    /\ TellFrame(w, bodyBudget(w, open))
    /\ UNCHANGED bvars

\* syncBodyShrink finds that the bar has opened or closed.
Shrunk ==
  /\ window # NoWindow
  /\ RenderHeight(open') # lastBodyShrink

\* syncBodyShrink, the list staying as it is otherwise.
syncBodyShrink ==
  /\ UNCHANGED window
  /\ IF Shrunk
     THEN /\ lastBodyShrink' = RenderHeight(open')
          /\ TellFrame(window, bodyBudget(window, open'))
     ELSE UNCHANGED <<lvars, lastBodyShrink, frame, leftHistory, sizedFor>>

\* Mutant of SyncedHeight: the Frame tells a new list the size it had itself
\* before the bar closed.
SyncedHeightBefore == frame.height

\* The Frame's height once the bar has closed.
SyncedHeight == IF Shrunk THEN bodyBudget(window, open') ELSE frame.height

\* Frame.View: the list has three fifths of a wide window, and all columns of
\* a narrow one.
Draw ==
  /\ SetInnerWidth(IF frame.width >= 100
                   THEN ((frame.width - 1) * 60) \div 100 - 2
                   ELSE frame.width - 2)
  /\ UNCHANGED <<bvars, fvars>>

-----------------------------------------------------------------------------
\* Keys and messages while the bar is closed.
ToList == ~open /\ (ListKey \/ ListMessage) /\ UNCHANGED <<bvars, fvars>>

\* The same while it is open: it swallows what is not its own.
ToBar ==
  /\ \/ \E t \in Typed \cup {Blank} : Input(t)
     \/ BarUp \/ BarDown \/ Esc
  /\ syncBodyShrink

\* The colon is the router's, whatever the list does.
OpenBar == Open /\ syncBodyShrink

\* Mutant of Told: the list is left before the bar's closing reaches it.
ToldLate == This

\* The list on the screen once it has been told that the bar closed.
Told ==
  IF Shrunk THEN [This EXCEPT !.height = SyncedHeight,
                              !.tall = tableHeight(Len(visible), SyncedHeight)]
            ELSE This

\* The list on the screen is kept, or it was the Overview that was, after an
\* Esc on the last list.
Leave ==
  \/ /\ Len(leftHistory) < MaxHistory
     /\ leftHistory' =
          Append(leftHistory, [list |-> Told, sizedFor |-> IF Shrunk THEN window ELSE sizedFor])
  \/ leftHistory = <<>> /\ UNCHANGED leftHistory

\* A kind's list, or the list with a jump, in the room the closed bar leaves.
CommitList(s) ==
  /\ IF IsAlias(s) THEN NewList(own.run, s.alias, 0, SyncedHeight)
                   ELSE NewList(own.run, s.kind, s.row, SyncedHeight)
  /\ Leave
  /\ lastBodyShrink' = IF Shrunk THEN RenderHeight(open') ELSE lastBodyShrink
  /\ frame' = [frame EXCEPT !.height = SyncedHeight]
  /\ sizedFor' = window
  /\ UNCHANGED window

\* Enter: nothing is highlighted, or what commit returns.
Commit ==
  /\ Enter
  /\ \/ commit = {} /\ syncBodyShrink
     \/ \E s \in commit : CommitList(s)

\* Esc that the list does not absorb: the list left last is on the screen
\* again, and is told no size.  (A zoomed Detail goes first, unseen by lists.)
FrameEsc ==
  /\ ~open /\ ~filterOn /\ leftHistory # <<>>
  /\ LET last == leftHistory[Len(leftHistory)]
     IN  Show(last.list) /\ sizedFor' = last.sizedFor
  /\ leftHistory' = SubSeq(leftHistory, 1, Len(leftHistory) - 1)
  /\ UNCHANGED <<bvars, window, lastBodyShrink, frame>>

\* Esc on the last list and Enter on a kind of the Overview under it.
DrillAgain ==
  /\ ~open /\ ~filterOn /\ leftHistory = <<>>
  /\ \E k \in Kind : NewList(own.run, k, 0, frame.height)
  /\ sizedFor' = window
  /\ UNCHANGED <<bvars, window, lastBodyShrink, frame, leftHistory>>

\* Mutant of SwitchRun: the old run's lists stay in the history.
SwitchRunKeepsHistory ==
  /\ \E r \in Run, k \in Kind : SetCorpus(r) /\ NewList(r, k, 0, frame.height)
  /\ sizedFor' = window
  /\ UNCHANGED <<window, lastBodyShrink, frame, leftHistory>>

\* SwitchRunMsg, bar open or not; the Overview between two runs' lists is
\* Tui's.
SwitchRun ==
  /\ \E r \in Run, k \in Kind : SetCorpus(r) /\ NewList(r, k, 0, frame.height)
  /\ leftHistory' = <<>> /\ sizedFor' = window
  /\ UNCHANGED <<window, lastBodyShrink, frame>>

Next ==
  \/ ToList \/ ToBar \/ OpenBar \/ Commit
  \/ FrameEsc \/ DrillAgain \/ SwitchRun \/ WindowSize \/ Draw

Spec == Init /\ [][Next]_vars

-----------------------------------------------------------------------------
(* Properties.                                                             *)

\* The list on the screen as the models of the screens have it, and those
\* under it.
AsPane == PaneOf(This)
Under == [i \in DOMAIN leftHistory |-> PaneOf(leftHistory[i].list)]

Screens == INSTANCE PaneList WITH pane <- AsPane, history <- Under

\* What the models of the screens assume of a list is all it does: filtering,
\* sorting, clamping the cursor, fitting the columns and sizing show the
\* screens nothing but rows, one of them selected or none, and Esc brings back
\* the list left last as it was left, of the same run.
ImplementsPane == Screens!PaneSpec

\* The table has the lines its rows need, or as many as the window leaves under
\* the bar as it is now.
TableFillsPane ==
  window # NoWindow => tall = tableHeight(Len(visible), bodyBudget(window, open))

\* "Just enough to fit the rows, but never more than the terminal can actually
\* show" (tableHeight, scopes.go), of a list that was told what that is.
TableFitsTerminal == height > 0 => tall <= Max({3, bodyBudget(window, open) - 6})

\* So it has when the list was last told a size of the window as it is: loads,
\* filters, new lists and the bar's edges may come in any order, and a list
\* left for others has the right lines again after Esc, unless the terminal
\* was resized meanwhile (the bar that was open when it was left is closed).
TableFollowsWindow == sizedFor = window => TableFillsPane

\* A table of the wrong height is of a list that was last told a size of another
\* window.  Nothing but Esc, back to it, brings it to the screen, and it stays at
\* most until the next resize, edge of the bar or new list.
OnlyEscBringsOldLines ==
  [][~TableFillsPane' =>
       /\ sizedFor' # window'
       /\ FrameEsc \/ (sizedFor # window /\ UNCHANGED <<window, open, leftHistory>>)]_vars

\* The inductive invariant: every size handed down agrees with the one above,
\* but for a list that was left in another window.
SizesAgree ==
  /\ window \in Window \cup {NoWindow} /\ sizedFor \in Window \cup {NoWindow}
  /\ frame \in [width : Nat, height : Nat]
  /\ window = NoWindow => frame = NoWindow /\ sizedFor = NoWindow
  /\ window # NoWindow => /\ lastBodyShrink = RenderHeight(open)
                          /\ frame.height = bodyBudget(window, open)
                          /\ sizedFor = window => height = frame.height

\* Of each list under the one on the screen, left with the bar closed.
HistoryOK ==
  /\ leftHistory \in Seq([list : ListState, sizedFor : Window \cup {NoWindow}])
  /\ \A i \in DOMAIN leftHistory :
       LET h == leftHistory[i]
       IN  /\ ListOK(h.list)
           /\ window = NoWindow => h.sizedFor = NoWindow
           /\ h.sizedFor # NoWindow => h.list.height = bodyBudget(h.sizedFor, FALSE)

LookupInv == ListInv /\ BarInv /\ SizesAgree /\ HistoryOK

\* The box Frame.bodyView clips a list to: the whole body in a wide window,
\* about half of it in a narrow one, less two lines of border.
Box ==
  LET body == Max({8, frame.height - 2})
  IN  IF frame.width >= 100 THEN body - 2 ELSE ((body - 1) \div 2) - 2

\* "MaxHeight ... forces the box to be exactly the budget, clipping content
\* that exceeds" (frame.go), while tableHeight never has "more than the
\* terminal can actually show" (scopes.go): no line of the table is clipped.
TableIsOnScreen == window # NoWindow => tall <= Box
=============================================================================
