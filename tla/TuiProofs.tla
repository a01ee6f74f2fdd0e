----------------------------- MODULE TuiProofs ------------------------------
(***************************************************************************)
(* Proofs about Tui: for every set of runs and kinds, every bound and      *)
(* every user, its variables have their types, the root screen is never    *)
(* popped, all the panes of a Frame are of its run, and the Detail is that *)
(* of the row under the cursor.                                            *)
(*                                                                         *)
(* The inductive invariant says this of every screen on the stack and of   *)
(* every screen in a push message still pending: a graph, a history or a   *)
(* Frame is built when its key is pressed and pushed later.                *)
(*                                                                         *)
(* For a user who waits until nothing is pending, a second invariant says  *)
(* what the one message pending is for; from it, every load arrives, every *)
(* part shows its own, a jump lands and only the quit key ends the program.*)
(***************************************************************************)
EXTENDS Tui, TuiLemmas, SequenceTheorems

(***************************************************************************)
(* The invariant.                                                          *)
(***************************************************************************)
\* A Frame of one run, whatever its Detail shows.
FrameOfRun(f) ==
  /\ f \in FrameScreen
  /\ GoodPane(f.left) /\ f.left.run = f.run
  /\ \A i \in 1 .. Len(f.leftHistory) :
       GoodPane(f.leftHistory[i]) /\ f.leftHistory[i].run = f.run
  /\ f.right # NoDetail => f.right.run = f.run

GoodFrame(f) ==
  FrameOfRun(f) /\ (f.right # NoDetail => f.right.ref = SelectedRef(f.left))

GoodScreens == {s \in Screen : IsFrame(s) => GoodFrame(s)}
GoodMessages == {m \in Message : m.type = "push" => m.screen \in GoodScreens}
GoodBag(B) == BagOver(B, GoodMessages)

GoodStack == stack \in Seq(GoodScreens) /\ RootStays

TuiInv ==
  /\ GoodStack
  /\ GoodBag(msgs)
  /\ bar \in [open : BOOLEAN, run : MaybeRun]
  /\ corpus \in MaybeRun
  /\ asked \in {"no", "plain", "bar", "filter"}
  /\ over \in BOOLEAN

-----------------------------------------------------------------------------
(***************************************************************************)
(* Bags.                                                                   *)
(***************************************************************************)
LEMMA AddGood ==
  ASSUME NEW B, NEW C, GoodBag(B), GoodBag(C)
  PROVE  GoodBag(B (+) C)
BY AddBag DEF GoodBag

LEMMA DropGood ==
  ASSUME NEW B, NEW C, GoodBag(B), IsABag(C)
  PROVE  GoodBag(B (-) C)
BY DropBag DEF GoodBag

LEMMA OneGood ==
  ASSUME NEW m \in GoodMessages
  PROVE  GoodBag(One(m))
BY DEF GoodBag, BagOver, One, SetToBag, IsABag

LEMMA OneIsBag == \A m : IsABag(One(m))
BY DEF One, SetToBag, IsABag

LEMMA NoneGood == GoodBag(None)
BY DEF GoodBag, BagOver, None, EmptyBag, SetToBag, IsABag

\* Take and Return keep the messages good when the commands are.
LEMMA TakeKeeps ==
  ASSUME NEW m, NEW cmds, GoodBag(msgs), Take(m, cmds), GoodBag(cmds)
  PROVE  GoodBag(msgs') /\ m \in GoodMessages
<1>1. m \in GoodMessages
  BY DEF Take, BagIn, BagToSet, GoodBag, BagOver
<1>2. GoodBag(msgs (-) One(m))
  BY DropGood, OneIsBag
<1> QED BY <1>1, <1>2, AddGood DEF Take

LEMMA ReturnKeeps ==
  ASSUME NEW cmds, GoodBag(msgs), Return(cmds), GoodBag(cmds)
  PROVE  GoodBag(msgs')
BY AddGood DEF Return

-----------------------------------------------------------------------------
(***************************************************************************)
(* Frames.  Each handler keeps a Frame good; those that end in             *)
(* syncRightWithSelection need only a Frame of one run to start from.      *)
(***************************************************************************)
\* A new left pane, with no Detail, is a good Frame.
LEMMA WithLeftGood ==
  ASSUME NEW f, FrameOfRun(f), NEW p, GoodPane(p), p.run = f.run
  PROVE  /\ GoodFrame(WithLeft(f, p))
         /\ WithLeft(f, p).left = p
         /\ WithLeft(f, p).run = f.run
         /\ WithLeft(f, p).leftHistory = f.leftHistory
         /\ WithLeft(f, p).right = NoDetail
BY NoDetailType DEF WithLeft, GoodFrame, FrameOfRun, FrameScreen, GoodPane

\* zoomed is free, and so is the focus.
LEMMA ZoomFocusGood ==
  ASSUME NEW f, GoodFrame(f), NEW z \in BOOLEAN, NEW x \in {"left", "right"}
  PROVE  GoodFrame([f EXCEPT !.zoomed = z]) /\ GoodFrame([f EXCEPT !.focus = x])
BY DEF GoodFrame, FrameOfRun, FrameScreen

\* A history of good panes of the Frame's run.
GoodHistory(h, r) ==
  /\ h \in Seq(Pane)
  /\ \A i \in 1 .. Len(h) : GoodPane(h[i]) /\ h[i].run = r

LEMMA HistoryGood ==
  ASSUME NEW f, GoodFrame(f), NEW h, GoodHistory(h, f.run)
  PROVE  GoodFrame([f EXCEPT !.leftHistory = h])
BY DEF GoodFrame, FrameOfRun, FrameScreen, GoodHistory

LEMMA LongerHistory ==
  ASSUME NEW f, FrameOfRun(f)
  PROVE  GoodHistory(Append(f.leftHistory, f.left), f.run)
<1>1. f.leftHistory \in Seq(Pane) /\ f.left \in Pane
  BY DEF FrameOfRun, FrameScreen, GoodPane
<1> QED BY <1>1, AppendProperties DEF GoodHistory, FrameOfRun

LEMMA ShorterHistory ==
  ASSUME NEW f, FrameOfRun(f), f.leftHistory # <<>>
  PROVE  /\ GoodHistory(SubSeq(f.leftHistory, 1, Len(f.leftHistory) - 1), f.run)
         /\ GoodPane(f.leftHistory[Len(f.leftHistory)])
         /\ f.leftHistory[Len(f.leftHistory)].run = f.run
<1>1. f.leftHistory \in Seq(Pane) /\ Len(f.leftHistory) \in Nat \ {0}
  BY EmptySeq DEF FrameOfRun, FrameScreen
<1>2. \A i \in 1 .. Len(f.leftHistory) - 1 : f.leftHistory[i] \in Pane
  BY <1>1, ElementOfSeq
<1> DEFINE h == SubSeq(f.leftHistory, 1, Len(f.leftHistory) - 1)
<1>3. /\ h \in Seq(Pane)
      /\ Len(h) = Len(f.leftHistory) - 1
      /\ \A i \in 1 .. Len(f.leftHistory) - 1 : h[i] = f.leftHistory[i]
  BY <1>1, <1>2, SubSeqProperties
<1> QED BY <1>1, <1>3 DEF GoodHistory, FrameOfRun

LEMMA NewFrameGood ==
  ASSUME NEW r \in Run
  PROVE  GoodFrame(NewFrame(r)) /\ IsFrame(NewFrame(r))
<1>1. <<>> \in Seq(Pane) /\ Len(<<>>) = 0
  BY EmptySeq
<1>2. NewFrame(r) \in FrameScreen
  BY <1>1, NewOverviewGood, NoDetailType DEF NewFrame, FrameScreen, GoodPane
<1> QED BY <1>1, <1>2, NewOverviewGood
        DEF NewFrame, GoodFrame, FrameOfRun, IsFrame

LEMMA SwappedGood ==
  ASSUME NEW f, FrameOfRun(f), NEW k \in Kind, NEW i \in Nat
  PROVE  GoodFrame(Swapped(f, k, i))
<1> DEFINE p == NewResourceList(f.run, k, i)
           g == WithLeft(f, p)
           h == [g EXCEPT !.leftHistory = Append(f.leftHistory, f.left)]
<1>1. f.run \in Run
  BY DEF FrameOfRun, FrameScreen
<1>2. GoodPane(p) /\ p.run = f.run
  BY <1>1, NewResourceListGood
<1>3. GoodFrame(g) /\ g.run = f.run /\ g.leftHistory = f.leftHistory
  BY <1>2, WithLeftGood
<1>4. GoodFrame(h)
  BY <1>3, LongerHistory, HistoryGood
<1>5. Swapped(f, k, i) = [h EXCEPT !.zoomed = FALSE]
  BY <1>3 DEF Swapped
<1> QED BY <1>4, <1>5, ZoomFocusGood

LEMMA DrilledGood ==
  ASSUME NEW f, FrameOfRun(f), NEW k \in Kind
  PROVE  GoodFrame(Drilled(f, k))
<1> DEFINE p == NewResourceList(f.run, k, 0)
           g == WithLeft(f, p)
<1>1. f.run \in Run
  BY DEF FrameOfRun, FrameScreen
<1>2. GoodPane(p) /\ p.run = f.run
  BY <1>1, NewResourceListGood
<1>3. GoodFrame(g) /\ g.run = f.run /\ g.leftHistory = f.leftHistory
  BY <1>2, WithLeftGood
<1>4. Drilled(f, k) = [g EXCEPT !.leftHistory = Append(f.leftHistory, f.left)]
  BY <1>3 DEF Drilled
<1>5. GoodFrame([g EXCEPT !.leftHistory = Append(f.leftHistory, f.left)])
  BY <1>3, LongerHistory, HistoryGood
<1> QED BY <1>4, <1>5

\* SwitchRunMsg forgets the history: no pane of the old run stays.
LEMMA SwitchedGood ==
  ASSUME NEW f, FrameOfRun(f), NEW r \in Run
  PROVE  GoodFrame(Switched(f, r))
<1> DEFINE g == Switched(f, r)
<1>1. <<>> \in Seq(Pane) /\ Len(<<>>) = 0
  BY EmptySeq
<1>2. /\ g \in FrameScreen
      /\ g.left = NewOverview(r)
      /\ g.run = r
      /\ g.leftHistory = <<>>
      /\ g.right = NoDetail
  BY <1>1, NewOverviewGood, NoDetailType
     DEF Switched, WithLeft, FrameOfRun, FrameScreen, GoodPane
<1>3. GoodPane(g.left) /\ g.left.run = g.run
  BY <1>2, NewOverviewGood
<1> QED BY <1>1, <1>2, <1>3 DEF GoodFrame, FrameOfRun

LEMMA RestoredGood ==
  ASSUME NEW f, FrameOfRun(f), f.leftHistory # <<>>
  PROVE  GoodFrame(Restored(f))
<1> DEFINE p == f.leftHistory[Len(f.leftHistory)]
           g == WithLeft(f, p)
           h == SubSeq(f.leftHistory, 1, Len(f.leftHistory) - 1)
<1>1. GoodPane(p) /\ p.run = f.run /\ GoodHistory(h, f.run)
  BY ShorterHistory
<1>2. GoodFrame(g) /\ g.run = f.run /\ g.leftHistory = f.leftHistory
  BY <1>1, WithLeftGood
<1>3. Restored(f) = [g EXCEPT !.leftHistory = h]
  BY <1>2 DEF Restored
<1> QED BY <1>1, <1>2, <1>3, HistoryGood

LEMMA ToggledGood ==
  ASSUME NEW f, GoodFrame(f)
  PROVE  GoodFrame(Toggled(f))
BY ZoomFocusGood DEF Toggled

\* After syncRightWithSelection the Detail is the selected row's.
LEMMA SyncedGood ==
  ASSUME NEW f, FrameOfRun(f)
  PROVE  GoodFrame(Synced(f))
<1>1. GoodPane(f.left) /\ f.left.run = f.run /\ f.run \in Run /\ f \in FrameScreen
  BY DEF FrameOfRun, FrameScreen
<1>2. ASSUME NEW d \in Detail, d # NoDetail => d.run = f.run /\ d.ref = SelectedRef(f.left)
      PROVE  GoodFrame([f EXCEPT !.right = d])
  BY <1>1, <1>2 DEF GoodFrame, FrameOfRun, FrameScreen
<1>3. CASE SelectedRef(f.left) = NoRef
  <2>1. GoodFrame([f EXCEPT !.right = NoDetail])
    BY <1>2, NoDetailType
  <2> QED BY <1>3, <2>1 DEF Synced, Stale
<1>4. CASE SelectedRef(f.left) # NoRef /\ Stale(f)
  BY <1>1, <1>2, <1>4, NewDetailType DEF Synced
<1>5. CASE SelectedRef(f.left) # NoRef /\ ~Stale(f)
  BY <1>5 DEF Synced, Stale, GoodFrame
<1> QED BY <1>3, <1>4, <1>5

\* What the panes make of a message leaves a Frame of one run.
LEMMA PanesReplaced ==
  ASSUME NEW f, FrameOfRun(f), NEW p, GoodPane(p), p.run = f.run,
         NEW d \in Detail, d # NoDetail => d.run = f.run
  PROVE  FrameOfRun([f EXCEPT !.left = p, !.right = d])
BY DEF FrameOfRun, FrameScreen, GoodPane

LEMMA LeftReplaced ==
  ASSUME NEW f, FrameOfRun(f), NEW p, GoodPane(p), p.run = f.run
  PROVE  FrameOfRun([f EXCEPT !.left = p])
BY DEF FrameOfRun, FrameScreen, GoodPane

-----------------------------------------------------------------------------
(***************************************************************************)
(* Screens and messages.                                                   *)
(***************************************************************************)
\* scr tells the four kinds of screens apart.
LEMMA ScreenKinds ==
  ASSUME NEW s \in Screen
  PROVE  /\ s.scr \in {"scopes", "history", "graph", "frame"}
         /\ s.scr = "scopes" <=> s \in ScopesScreen
         /\ s.scr = "history" <=> s \in HistoryScreen
         /\ s.scr = "graph" <=> s \in GraphScreen
         /\ s.scr = "frame" <=> s \in FrameScreen
BY DEF Screen, ScopesScreen, HistoryScreen, GraphScreen, FrameScreen

LEMMA FrameIsGood ==
  ASSUME NEW f, GoodFrame(f)
  PROVE  f \in GoodScreens /\ IsFrame(f)
BY DEF GoodFrame, FrameOfRun, FrameScreen, GoodScreens, Screen, IsFrame

LEMMA OtherIsGood ==
  ASSUME NEW s \in ScopesScreen \cup HistoryScreen \cup GraphScreen
  PROVE  s \in GoodScreens /\ ~IsFrame(s)
BY DEF ScopesScreen, HistoryScreen, GraphScreen, GoodScreens, Screen, IsFrame

LEMMA NewScopesGood ==
  ASSUME NEW b \in BOOLEAN
  PROVE  NewScopes(b) \in GoodScreens
BY OtherIsGood DEF NewScopes, ScopesScreen

LEMMA NewRunHistoryGood ==
  ASSUME NEW s \in Scope
  PROVE  NewRunHistory(s) \in GoodScreens
BY OtherIsGood DEF NewRunHistory, HistoryScreen

LEMMA NewGraphViewGood ==
  ASSUME NEW d \in Detail
  PROVE  NewGraphView(d) \in GoodScreens
BY OtherIsGood DEF NewGraphView, GraphScreen, Detail

\* A message that pushes nothing is good as soon as it has its type.
LEMMA PlainGood ==
  ASSUME NEW m \in Message, m.type # "push"
  PROVE  m \in GoodMessages
BY DEF GoodMessages

LEMMA SimpleMessages ==
  Pop \in GoodMessages /\ OpenScopesModal \in GoodMessages
    /\ Quit \in GoodMessages /\ ScopesLoad \in GoodMessages
BY PlainGood DEF Message, Pop, OpenScopesModal, Quit, ScopesLoad

LEMMA RunMessages ==
  ASSUME NEW r \in Run
  PROVE  /\ PopThenSwitch(r) \in GoodMessages
         /\ SwitchRun(r) \in GoodMessages
         /\ OverviewLoad(r) \in GoodMessages
         /\ EdgesLoad(r) \in GoodMessages
BY PlainGood DEF Message, PopThenSwitch, SwitchRun, OverviewLoad, EdgesLoad

LEMMA KindMessages ==
  ASSUME NEW k \in Kind, NEW i \in Nat
  PROVE  /\ Submit(k) \in GoodMessages
         /\ JumpTo(k, i) \in GoodMessages
         /\ SwapLeft(k, i) \in GoodMessages
BY PlainGood DEF Message, Submit, JumpTo, SwapLeft

LEMMA RowsMessages ==
  ASSUME NEW r \in Run, NEW k \in Kind
  PROVE  RowsLoad(r, k) \in GoodMessages
BY PlainGood DEF Message, RowsLoad

LEMMA ScopeMessages ==
  ASSUME NEW s \in Scope
  PROVE  RunsLoad(s) \in GoodMessages
BY PlainGood DEF Message, RunsLoad

LEMMA PushGood ==
  ASSUME NEW s \in GoodScreens
  PROVE  Push(s) \in GoodMessages
<1>1. s \in Screen
  BY DEF GoodScreens
<1>2. Push(s) \in Message
  BY <1>1 DEF Push, Message
<1> QED BY <1>2 DEF GoodMessages, Push

LEMMA PushedGood ==
  ASSUME NEW s, Push(s) \in GoodMessages
  PROVE  s \in GoodScreens
BY DEF GoodMessages, Push

LEMMA InitOfGood ==
  ASSUME NEW s \in GoodScreens
  PROVE  GoodBag(InitOf(s))
<1>1. s \in Screen
  BY DEF GoodScreens
<1>2. CASE s.scr = "scopes"
  BY <1>2, OneGood, SimpleMessages DEF InitOf
<1>3. CASE s.scr = "history"
  <2>1. s.scope \in Scope
    BY <1>1, <1>3, ScreenKinds DEF HistoryScreen
  <2> QED BY <1>3, <2>1, OneGood, ScopeMessages DEF InitOf
<1>4. CASE s.scr = "graph"
  BY <1>4, NoneGood DEF InitOf
<1>5. CASE s.scr = "frame"
  <2>1. s.run \in Run
    BY <1>1, <1>5, ScreenKinds DEF FrameScreen
  <2> QED BY <1>5, <2>1, OneGood, RunMessages DEF InitOf
<1> QED BY <1>1, <1>2, <1>3, <1>4, <1>5, ScreenKinds

\* What syncRightWithSelection returns.
LEMMA SyncLoadsGood ==
  ASSUME NEW f, FrameOfRun(f)
  PROVE  GoodBag(SyncLoads(f))
<1>1. f.run \in Run
  BY DEF FrameOfRun, FrameScreen
<1> QED BY <1>1, NoneGood, OneGood, RunMessages DEF SyncLoads

-----------------------------------------------------------------------------
(***************************************************************************)
(* The stack.                                                              *)
(***************************************************************************)
LEMMA TopGood ==
  ASSUME GoodStack
  PROVE  /\ Len(stack) \in Nat \ {0}
         /\ Top \in GoodScreens
         /\ Top \in Screen
         /\ IsFrame(Top) => GoodFrame(Top)
<1>1. Len(stack) \in Nat \ {0}
  BY LenProperties DEF GoodStack, RootStays
<1>2. Top \in GoodScreens
  BY <1>1, ElementOfSeq DEF GoodStack, Top
<1> QED BY <1>1, <1>2 DEF GoodScreens

LEMMA PushKeeps ==
  ASSUME GoodStack, NEW s \in GoodScreens, stack' = Append(stack, s)
  PROVE  GoodStack'
<1>1. /\ stack' \in Seq(GoodScreens)
      /\ Len(stack') = Len(stack) + 1
      /\ \A i \in 1 .. Len(stack) : stack'[i] = stack[i]
  BY AppendProperties DEF GoodStack
<1>2. 1 \in 1 .. Len(stack)
  BY TopGood
<1> QED BY <1>1, <1>2, TopGood DEF GoodStack, RootStays

LEMMA PopKeeps ==
  ASSUME GoodStack, Len(stack) > 1, stack' = SubSeq(stack, 1, Len(stack) - 1)
  PROVE  GoodStack'
<1>1. Len(stack) \in Nat /\ \A i \in 1 .. Len(stack) - 1 : stack[i] \in GoodScreens
  BY TopGood, ElementOfSeq DEF GoodStack
<1>2. /\ stack' \in Seq(GoodScreens)
      /\ Len(stack') = Len(stack) - 1
      /\ \A i \in 1 .. Len(stack) - 1 : stack'[i] = stack[i]
  BY <1>1, SubSeqProperties
<1>3. 1 \in 1 .. Len(stack) - 1
  BY <1>1
<1> QED BY <1>1, <1>2, <1>3 DEF GoodStack, RootStays

\* The top screen changes; a screen of scopes stays the modal, or not, it was.
LEMMA OnTopKeeps ==
  ASSUME GoodStack, NEW s \in GoodScreens, OnTop(s),
         Top.scr = "scopes" => s.scr = "scopes" /\ s.modal = Top.modal
  PROVE  GoodStack'
<1>1. Len(stack) \in 1 .. Len(stack)
  BY TopGood
<1>2. /\ stack' \in Seq(GoodScreens)
      /\ Len(stack') = Len(stack)
      /\ \A j \in 1 .. Len(stack) : stack'[j] = IF j = Len(stack) THEN s ELSE stack[j]
  BY <1>1, ExceptSeq DEF GoodStack, OnTop
<1>3. 1 \in 1 .. Len(stack)
  BY TopGood
<1>4. CASE Len(stack) = 1
  BY <1>2, <1>3, <1>4 DEF GoodStack, RootStays, Top
<1>5. CASE Len(stack) # 1
  BY <1>2, <1>3, <1>5, TopGood DEF GoodStack, RootStays
<1> QED BY <1>4, <1>5

LEMMA SameStack ==
  ASSUME GoodStack, UNCHANGED stack
  PROVE  GoodStack'
BY DEF GoodStack, RootStays

\* A Frame on top is replaced by a good one.
LEMMA FrameOnTop ==
  ASSUME GoodStack, IsFrame(Top), NEW f, GoodFrame(f), OnTop(f)
  PROVE  GoodStack'
BY FrameIsGood, OnTopKeeps DEF IsFrame

-----------------------------------------------------------------------------
(***************************************************************************)
(* The invariant holds at first and every step keeps it.                   *)
(***************************************************************************)
LEMMA OneElement ==
  ASSUME NEW S, NEW s \in S
  PROVE  <<s>> \in Seq(S) /\ Len(<<s>>) = 1 /\ <<s>>[1] = s
OBVIOUS

LEMMA InitTuiInv == Init => TuiInv
<1> SUFFICES ASSUME Init PROVE TuiInv
  OBVIOUS
<1>1. NewScopes(FALSE) \in GoodScreens
  BY NewScopesGood
<1>2. stack \in Seq(GoodScreens) /\ Len(stack) = 1 /\ stack[1] = NewScopes(FALSE)
  BY <1>1, OneElement DEF Init
<1>3. GoodStack
  BY <1>2 DEF GoodStack, RootStays, NewScopes
<1>4. GoodBag(msgs)
  BY <1>1, InitOfGood DEF Init
<1> QED BY <1>3, <1>4 DEF TuiInv, Init, MaybeRun

\* The messages App.Update handles itself.
LEMMA AppMessageKeeps ==
  ASSUME TuiInv, AppMessage
  PROVE  TuiInv'
<1> USE DEF TuiInv
<1>1. ASSUME NEW s, PushScreen(s) PROVE TuiInv'
  <2>1. s \in GoodScreens
    BY <1>1, PushedGood DEF PushScreen, Take, BagIn, BagToSet, GoodBag, BagOver
  <2>2. GoodBag(msgs') /\ GoodStack'
    BY <1>1, <2>1, InitOfGood, TakeKeeps, PushKeeps DEF PushScreen
  <2>3. corpus' \in MaybeRun
    <3>1. CASE IsFrame(s)
      <4>1. s.run \in Run
        BY <2>1, <3>1, ScreenKinds DEF GoodScreens, IsFrame, FrameScreen
      <4> QED BY <1>1, <3>1, <4>1 DEF PushScreen, RefreshCorpus, MaybeRun
    <3>2. CASE ~IsFrame(s)
      BY <1>1, <3>2 DEF PushScreen
    <3> QED BY <3>1, <3>2
  <2> QED BY <1>1, <2>2, <2>3 DEF PushScreen
<1>2. CASE PopScreen
  <2>1. GoodBag(msgs')
    BY <1>2, NoneGood, OneGood, SimpleMessages, TakeKeeps DEF PopScreen
  <2>2. GoodStack'
    BY <1>2, PopKeeps, SameStack DEF PopScreen
  <2> QED BY <1>2, <2>1, <2>2 DEF PopScreen
<1>3. ASSUME NEW r \in Run, PopInSequence(r) PROVE TuiInv'
  <2>1. GoodBag(One(SwitchRun(r))) /\ GoodBag(One(SwitchRun(r)) (+) One(Quit))
    BY OneGood, SimpleMessages, RunMessages, AddGood
  <2>2. GoodBag(msgs')
    BY <1>3, <2>1, TakeKeeps DEF PopInSequence
  <2>3. GoodStack'
    BY <1>3, PopKeeps, SameStack DEF PopInSequence
  <2> QED BY <1>3, <2>2, <2>3 DEF PopInSequence
<1>4. ASSUME NEW r \in Run, SwitchOnTop(r) PROVE TuiInv'
  <2>1. corpus' \in MaybeRun
    BY <1>4 DEF SwitchOnTop, RefreshCorpus, MaybeRun
  <2>2. CASE IsFrame(Top)
    <3>1. GoodFrame(Switched(Top, r))
      BY <2>2, TopGood, SwitchedGood DEF GoodFrame
    <3>2. OnTop(Switched(Top, r)) /\ Take(SwitchRun(r), One(OverviewLoad(r)))
      BY <1>4, <2>2 DEF SwitchOnTop, IsFrame
    <3> QED BY <1>4, <2>1, <2>2, <3>1, <3>2, FrameOnTop, OneGood, RunMessages, TakeKeeps
            DEF SwitchOnTop
  <2>3. CASE Top.scr = "scopes"
    <3>1. GoodBag(One(Push(NewFrame(r))))
      BY NewFrameGood, FrameIsGood, PushGood, OneGood
    <3>2. Take(SwitchRun(r), One(Push(NewFrame(r)))) /\ UNCHANGED stack
      BY <1>4, <2>3 DEF SwitchOnTop, IsFrame
    <3> QED BY <1>4, <2>1, <3>1, <3>2, SameStack, TakeKeeps DEF SwitchOnTop
  <2>4. CASE ~IsFrame(Top) /\ Top.scr # "scopes"
    <3>1. Take(SwitchRun(r), None) /\ UNCHANGED stack
      BY <1>4, <2>4 DEF SwitchOnTop
    <3> QED BY <1>4, <2>1, <3>1, NoneGood, SameStack, TakeKeeps DEF SwitchOnTop
  <2> QED BY <2>2, <2>3, <2>4
<1>5. CASE SubmitScopes
  <2>1. GoodBag(One(Push(NewScopes(TRUE))))
    BY NewScopesGood, PushGood, OneGood
  <2> QED BY <1>5, <2>1, SameStack, TakeKeeps DEF SubmitScopes
<1>6. ASSUME NEW k \in Kind, SubmitAlias(k) PROVE TuiInv'
  <2>1. GoodBag(One(SwapLeft(k, 0)))
    BY KindMessages, OneGood
  <2> QED BY <1>6, <2>1, NoneGood, SameStack, TakeKeeps DEF SubmitAlias
<1>7. ASSUME NEW k \in Kind, NEW i \in Nat, SubmitJump(k, i) PROVE TuiInv'
  <2>1. GoodBag(One(SwapLeft(k, i)))
    BY KindMessages, OneGood
  <2> QED BY <1>7, <2>1, NoneGood, SameStack, TakeKeeps DEF SubmitJump
<1>8. CASE TakeQuit
  BY <1>8, NoneGood, SameStack, TakeKeeps DEF TakeQuit
<1>9. \A k \in Kind : \A i \in UNION {Rows(r, k) : r \in Run} : i \in Nat
  BY RowsAreNat
<1> QED BY <1>1, <1>2, <1>3, <1>4, <1>5, <1>6, <1>7, <1>8, <1>9 DEF AppMessage

\* A message a Frame hands to its panes.
LEMMA FrameTakesKeeps ==
  ASSUME TuiInv, NEW m, NEW lefts, NEW d, FrameTakes(m, lefts, d),
         IsFrame(Top) => /\ \A p \in lefts : GoodPane(p) /\ p.run = Top.left.run
                         /\ d \in Detail
                         /\ d # NoDetail => d.run = Top.run
  PROVE  GoodStack' /\ GoodBag(msgs')
<1> USE DEF TuiInv
<1>1. CASE ~IsFrame(Top)
  BY <1>1, NoneGood, SameStack, TakeKeeps DEF FrameTakes
<1>2. CASE IsFrame(Top)
  <2>1. FrameOfRun(Top)
    BY <1>2, TopGood DEF GoodFrame
  <2>2. PICK p \in lefts :
          LET f == [Top EXCEPT !.left = p, !.right = d]
          IN  Take(m, SyncLoads(f)) /\ OnTop(Synced(f))
    BY <1>2 DEF FrameTakes
  <2> DEFINE f == [Top EXCEPT !.left = p, !.right = d]
  <2>3. FrameOfRun(f)
    <3>1. GoodPane(p) /\ p.run = Top.run
      BY <1>2, <2>1, <2>2 DEF FrameOfRun
    <3>2. d \in Detail /\ (d # NoDetail => d.run = Top.run)
      BY <1>2
    <3> QED BY <2>1, <3>1, <3>2, PanesReplaced
  <2>4. GoodFrame(Synced(f)) /\ GoodBag(SyncLoads(f))
    BY <2>3, SyncedGood, SyncLoadsGood
  <2>5. Take(m, SyncLoads(f)) /\ OnTop(Synced(f))
    BY <2>2
  <2> HIDE DEF f
  <2> QED BY <1>2, <2>4, <2>5, FrameOnTop, TakeKeeps
<1> QED BY <1>1, <1>2

\* A message no pane of a Frame knows.
LEMMA UnknownKeeps ==
  ASSUME TuiInv, NEW m, FrameTakes(m, Refiltered(Top.left), Top.right)
  PROVE  GoodStack' /\ GoodBag(msgs')
<1>1. ASSUME IsFrame(Top)
      PROVE  /\ \A p \in Refiltered(Top.left) : GoodPane(p) /\ p.run = Top.left.run
             /\ Top.right \in Detail
             /\ Top.right # NoDetail => Top.right.run = Top.run
  <2>1. FrameOfRun(Top)
    BY <1>1, TopGood DEF GoodFrame, TuiInv
  <2> QED BY <2>1, RefilteredGood DEF FrameOfRun, FrameScreen
<1> QED BY <1>1, FrameTakesKeeps

LEMMA TakeSwapKeeps ==
  ASSUME TuiInv, NEW k \in Kind, NEW i \in Nat, TakeSwap(k, i)
  PROVE  GoodStack' /\ GoodBag(msgs')
<1> USE DEF TuiInv
<1>1. CASE ~IsFrame(Top)
  BY <1>1, NoneGood, SameStack, TakeKeeps DEF TakeSwap
<1>2. CASE IsFrame(Top)
  <2>1. FrameOfRun(Top) /\ Top.run \in Run
    BY <1>2, TopGood DEF GoodFrame, FrameOfRun, FrameScreen
  <2>2. Take(SwapLeft(k, i), One(RowsLoad(Top.run, k))) /\ OnTop(Swapped(Top, k, i))
    BY <1>2 DEF TakeSwap
  <2>3. GoodFrame(Swapped(Top, k, i)) /\ GoodBag(One(RowsLoad(Top.run, k)))
    BY <2>1, SwappedGood, RowsMessages, OneGood
  <2> QED BY <1>2, <2>2, <2>3, FrameOnTop, TakeKeeps
<1> QED BY <1>1, <1>2

LEMMA TakeOverviewLoadKeeps ==
  ASSUME TuiInv, NEW r \in Run, NEW ok \in BOOLEAN, TakeOverviewLoad(r, ok)
  PROVE  GoodStack' /\ GoodBag(msgs')
<1> DEFINE src == IF ok THEN [run |-> r, kind |-> NoKind] ELSE Nothing
           lefts == IF IsOverview(Top.left) THEN {TakeOverview(Top.left, src)}
                                            ELSE Refiltered(Top.left)
<1>1. src \in Source
  BY DEF Source, Nothing, MaybeRun, MaybeKind
<1>2. ASSUME IsFrame(Top)
      PROVE  /\ \A p \in lefts : GoodPane(p) /\ p.run = Top.left.run
             /\ Top.right \in Detail
             /\ Top.right # NoDetail => Top.right.run = Top.run
  <2>1. FrameOfRun(Top)
    BY <1>2, TopGood DEF GoodFrame, TuiInv
  <2>2. GoodPane(Top.left)
    BY <2>1 DEF FrameOfRun
  <2>3. \A p \in lefts : GoodPane(p) /\ p.run = Top.left.run
    BY <1>1, <2>2, TakeOverviewGood, RefilteredGood
  <2> QED BY <2>1, <2>3 DEF FrameOfRun, FrameScreen
<1>3. FrameTakes(OverviewLoad(r), lefts, Top.right)
  BY DEF TakeOverviewLoad
<1> HIDE DEF lefts
<1> QED BY <1>2, <1>3, FrameTakesKeeps

LEMMA TakeRowsLoadKeeps ==
  ASSUME TuiInv, NEW r \in Run, NEW k \in Kind, NEW ok \in BOOLEAN, TakeRowsLoad(r, k, ok)
  PROVE  GoodStack' /\ GoodBag(msgs')
<1> DEFINE src == IF ok THEN [run |-> r, kind |-> k] ELSE Nothing
<1>1. src \in Source /\ GoodSource(src)
  BY DEF Source, Nothing, MaybeRun, MaybeKind, GoodSource
<1>2. FrameTakes(RowsLoad(r, k), TakeRows(Top.left, src), Top.right)
  BY DEF TakeRowsLoad
<1> HIDE DEF src
<1>3. ASSUME IsFrame(Top)
      PROVE  /\ \A p \in TakeRows(Top.left, src) : GoodPane(p) /\ p.run = Top.left.run
             /\ Top.right \in Detail
             /\ Top.right # NoDetail => Top.right.run = Top.run
  <2>1. FrameOfRun(Top)
    BY <1>3, TopGood DEF GoodFrame, TuiInv
  <2> QED BY <1>1, <2>1, TakeRowsGood DEF FrameOfRun, FrameScreen
<1> QED BY <1>2, <1>3, FrameTakesKeeps

LEMMA TakeEdgesLoadKeeps ==
  ASSUME TuiInv, NEW r \in Run, NEW ok \in BOOLEAN, TakeEdgesLoad(r, ok)
  PROVE  GoodStack' /\ GoodBag(msgs')
<1> DEFINE e == IF ok THEN r ELSE NoRun
           d == TakeEdges(Top.right, e)
<1>1. e \in MaybeRun
  BY DEF MaybeRun
<1>2. FrameTakes(EdgesLoad(r), Refiltered(Top.left), d)
  BY DEF TakeEdgesLoad
<1>3. ASSUME IsFrame(Top)
      PROVE  /\ \A p \in Refiltered(Top.left) : GoodPane(p) /\ p.run = Top.left.run
             /\ d \in Detail
             /\ d # NoDetail => d.run = Top.run
  <2>1. FrameOfRun(Top) /\ Top.right \in Detail
    BY <1>3, TopGood DEF GoodFrame, TuiInv, FrameOfRun, FrameScreen
  <2>2. d \in Detail /\ d.run = Top.right.run /\ (Top.right = NoDetail => d = NoDetail)
    BY <1>1, <2>1, TakeEdgesType
  <2> QED BY <2>1, <2>2, RefilteredGood DEF FrameOfRun
<1> HIDE DEF d
<1> QED BY <1>2, <1>3, FrameTakesKeeps

LEMMA TakeScopesLoadKeeps ==
  ASSUME TuiInv, NEW ok \in BOOLEAN, TakeScopesLoad(ok)
  PROVE  GoodStack' /\ GoodBag(msgs')
<1> USE DEF TuiInv
<1>1. CASE Top.scr = "scopes"
  <2> DEFINE s == [Top EXCEPT !.rows = IF ok THEN "loaded" ELSE "failed"]
  <2>1. Top \in ScopesScreen
    BY <1>1, TopGood, ScreenKinds
  <2>2. s \in ScopesScreen /\ s.scr = "scopes" /\ s.modal = Top.modal
    BY <2>1 DEF ScopesScreen
  <2>3. Take(ScopesLoad, None) /\ OnTop(s)
    BY <1>1 DEF TakeScopesLoad
  <2> HIDE DEF s
  <2>4. GoodStack'
    BY <2>2, <2>3, OtherIsGood, OnTopKeeps
  <2> QED BY <2>3, <2>4, NoneGood, TakeKeeps
<1>2. CASE Top.scr # "scopes"
  BY <1>2, UnknownKeeps DEF TakeScopesLoad
<1> QED BY <1>1, <1>2

LEMMA TakeRunsLoadKeeps ==
  ASSUME TuiInv, NEW p \in Scope, NEW ok \in BOOLEAN, TakeRunsLoad(p, ok)
  PROVE  GoodStack' /\ GoodBag(msgs')
<1> USE DEF TuiInv
<1>1. CASE Top.scr = "history"
  <2> DEFINE s == [Top EXCEPT !.loaded = TRUE, !.rows = IF ok THEN RunsOf(p) ELSE {}]
  <2>1. Top \in HistoryScreen
    BY <1>1, TopGood, ScreenKinds
  <2>2. s \in HistoryScreen
    BY <2>1 DEF HistoryScreen, RunsOf
  <2>3. Take(RunsLoad(p), None) /\ OnTop(s)
    BY <1>1 DEF TakeRunsLoad
  <2> HIDE DEF s
  <2>4. GoodStack'
    BY <1>1, <2>2, <2>3, OtherIsGood, OnTopKeeps
  <2> QED BY <2>3, <2>4, NoneGood, TakeKeeps
<1>2. CASE Top.scr # "history"
  BY <1>2, UnknownKeeps DEF TakeRunsLoad
<1> QED BY <1>1, <1>2

LEMMA ScreenMessageKeeps ==
  ASSUME TuiInv, ScreenMessage
  PROVE  TuiInv'
<1> USE DEF TuiInv
<1>1. CASE BarSwallows
  BY <1>1, NoneGood, SameStack, TakeKeeps DEF BarSwallows
<1>2. CASE UNCHANGED <<bar, corpus, asked, over>> /\ GoodStack' /\ GoodBag(msgs')
  BY <1>2
<1>3. Succeeds \subseteq BOOLEAN
  BY DEF Succeeds
<1>4. \A k \in Kind : \A i \in {0} \cup UNION {Rows(r, k) : r \in Run} : i \in Nat
  BY RowsAreNat
<1> QED
  BY <1>1, <1>2, <1>3, <1>4, TakeSwapKeeps, TakeScopesLoadKeeps, TakeRunsLoadKeeps,
     TakeOverviewLoadKeeps, TakeEdgesLoadKeeps, TakeRowsLoadKeeps
  DEF ScreenMessage

\* Keys: the palette's, which leave the screens alone.
LEMMA BarKeysKeep ==
  ASSUME TuiInv, QuitKey \/ OpenBar \/ TypeInBar \/ BarEsc \/ BarEnter
  PROVE  TuiInv'
<1> USE DEF TuiInv
<1>1. CASE QuitKey
  <2>1. GoodBag(msgs')
    BY <1>1, SimpleMessages, OneGood, ReturnKeeps DEF QuitKey
  <2> QED BY <1>1, <2>1, SameStack DEF QuitKey
<1>2. CASE OpenBar
  BY <1>2, SameStack DEF OpenBar
<1>3. CASE TypeInBar
  BY <1>3, SameStack DEF TypeInBar
<1>4. CASE BarEsc
  BY <1>4, SameStack DEF BarEsc, Closed, MaybeRun
<1>5. CASE BarEnter
  <2>1. GoodBag(One(OpenScopesModal))
    BY SimpleMessages, OneGood
  <2>2. \A k \in Kind : GoodBag(One(Submit(k)))
    BY KindMessages, OneGood
  <2>3. bar.run # NoRun => \A k \in Kind : \A i \in Rows(bar.run, k) : GoodBag(One(JumpTo(k, i)))
    BY RowsAreNat, KindMessages, OneGood DEF MaybeRun
  <2>4. GoodBag(msgs')
    BY <1>5, <2>1, <2>2, <2>3, ReturnKeeps DEF BarEnter
  <2> QED BY <1>5, <2>4, SameStack DEF BarEnter, Closed, MaybeRun
<1> QED BY <1>1, <1>2, <1>3, <1>4, <1>5

\* A handler that only returns commands.
LEMMA OnlyReturnsKeeps ==
  ASSUME TuiInv, NEW cmds, GoodBag(cmds), OnlyReturns(cmds)
  PROVE  TuiInv'
BY ReturnKeeps, SameStack DEF TuiInv, OnlyReturns

\* A handler of the Frame on top.
LEMMA FrameBecomesKeeps ==
  ASSUME TuiInv, IsFrame(Top), NEW f, GoodFrame(f), NEW cmds, GoodBag(cmds),
         FrameBecomes(f, cmds)
  PROVE  TuiInv'
BY ReturnKeeps, FrameOnTop DEF TuiInv, FrameBecomes

LEMMA PopGood == GoodBag(One(Pop))
BY SimpleMessages, OneGood

\* The keys of the screens that are no Frame.
LEMMA OtherKeysKeep ==
  ASSUME TuiInv,
         ScopesEnter \/ ScopesHistory \/ ScopesEsc \/ HistoryEnter \/ HistoryEsc \/ GraphEsc
  PROVE  TuiInv'
<1>1. CASE ScopesEnter
  <2>1. PICK r \in Latest :
          IF Top.modal THEN OnlyReturns(One(PopThenSwitch(r)))
                       ELSE RoomToPush /\ OnlyReturns(One(Push(NewFrame(r))))
    BY <1>1 DEF ScopesEnter
  <2>2. r \in Run
    BY TuiAssumption
  <2>3. GoodBag(One(PopThenSwitch(r))) /\ GoodBag(One(Push(NewFrame(r))))
    BY <2>2, NewFrameGood, FrameIsGood, PushGood, RunMessages, OneGood
  <2> QED BY <2>1, <2>3, OnlyReturnsKeeps
<1>2. CASE ScopesHistory
  <2>1. PICK r \in Latest : OnlyReturns(One(Push(NewRunHistory(ScopeOf[r]))))
    BY <1>2 DEF ScopesHistory
  <2>2. ScopeOf[r] \in Scope
    BY TuiAssumption
  <2> QED BY <2>1, <2>2, NewRunHistoryGood, PushGood, OneGood, OnlyReturnsKeeps
<1>3. CASE ScopesEsc
  BY <1>3, PopGood, OnlyReturnsKeeps DEF ScopesEsc
<1>4. CASE HistoryEnter
  <2>1. PICK r \in Top.rows : OnlyReturns(One(PopThenSwitch(r)))
    BY <1>4 DEF HistoryEnter
  <2>2. r \in Run
    BY <1>4, TopGood, ScreenKinds DEF HistoryEnter, OnScreen, HistoryScreen, TuiInv
  <2> QED BY <2>1, <2>2, RunMessages, OneGood, OnlyReturnsKeeps
<1>5. CASE HistoryEsc
  BY <1>5, PopGood, OnlyReturnsKeeps DEF HistoryEsc
<1>6. CASE GraphEsc
  BY <1>6, PopGood, OnlyReturnsKeeps DEF GraphEsc
<1> QED BY <1>1, <1>2, <1>3, <1>4, <1>5, <1>6

\* syncRightWithSelection at the end of a handler.
LEMMA SyncKeeps ==
  ASSUME TuiInv, IsFrame(Top), NEW f, FrameOfRun(f), FrameBecomes(Synced(f), SyncLoads(f))
  PROVE  TuiInv'
BY SyncedGood, SyncLoadsGood, FrameBecomesKeeps

\* The keys of a Frame and the ticks of its spinners.
LEMMA FrameKeysKeep ==
  ASSUME TuiInv, IsFrame(Top),
         \/ FrameTab \/ FrameEnterKind \/ FrameEnterRow \/ FrameEsc
         \/ FrameGraph \/ FrameHistory \/ FrameLeftKey \/ FrameOtherKey \/ Tick
  PROVE  TuiInv'
<1>0. GoodFrame(Top) /\ FrameOfRun(Top) /\ Top.run \in Run /\ GoodPane(Top.left)
  BY TopGood DEF TuiInv, GoodFrame, FrameOfRun, FrameScreen
<1>1. CASE FrameTab
  BY <1>0, <1>1, ToggledGood, NoneGood, FrameBecomesKeeps DEF FrameTab
<1>2. CASE FrameEnterKind
  <2>1. PICK k \in SelectedKinds(Top.left) :
          FrameBecomes(Drilled(Top, k), One(RowsLoad(Top.run, k)))
    BY <1>2 DEF FrameEnterKind
  <2>2. k \in Kind
    BY DEF SelectedKinds, Stats
  <2>3. GoodFrame(Drilled(Top, k)) /\ GoodBag(One(RowsLoad(Top.run, k)))
    BY <1>0, <2>2, DrilledGood, RowsMessages, OneGood
  <2> QED BY <2>1, <2>3, FrameBecomesKeeps
<1>3. CASE FrameEnterRow
  BY <1>0, <1>3, ZoomFocusGood, NoneGood, FrameBecomesKeeps DEF FrameEnterRow
<1>4. CASE FrameEsc
  <2>1. CASE Top.zoomed
    BY <1>0, <1>4, <2>1, ZoomFocusGood, NoneGood, FrameBecomesKeeps DEF FrameEsc
  <2>2. CASE ~Top.zoomed /\ Top.leftHistory # <<>>
    BY <1>0, <1>4, <2>2, RestoredGood, NoneGood, FrameBecomesKeeps DEF FrameEsc
  <2>3. CASE ~Top.zoomed /\ Top.leftHistory = <<>>
    BY <1>4, <2>3, PopGood, OnlyReturnsKeeps DEF FrameEsc
  <2> QED BY <2>1, <2>2, <2>3
<1>5. CASE FrameGraph
  <2>1. Top.right \in Detail
    BY <1>0 DEF FrameOfRun, FrameScreen
  <2>2. GoodBag(One(Push(NewGraphView(Top.right))))
    BY <2>1, NewGraphViewGood, PushGood, OneGood
  <2> QED BY <1>5, <2>2, OnlyReturnsKeeps DEF FrameGraph
<1>6. CASE FrameHistory
  <2>1. ScopeOf[Top.run] \in Scope
    BY <1>0, TuiAssumption
  <2>2. GoodBag(One(Push(NewRunHistory(ScopeOf[Top.run]))))
    BY <2>1, NewRunHistoryGood, PushGood, OneGood
  <2> QED BY <1>6, <2>2, OnlyReturnsKeeps DEF FrameHistory
<1>7. CASE FrameLeftKey
  <2>1. PICK p \in LeftKeys(Top.left) :
          FrameBecomes(Synced([Top EXCEPT !.left = p]), SyncLoads([Top EXCEPT !.left = p]))
    BY <1>7 DEF FrameLeftKey
  <2>2. GoodPane(p) /\ p.run = Top.run
    BY <1>0, LeftKeysGood DEF FrameOfRun
  <2> QED BY <1>0, <2>1, <2>2, LeftReplaced, SyncKeeps
<1>8. CASE FrameOtherKey
  BY <1>0, <1>8, SyncKeeps DEF FrameOtherKey
<1>9. CASE Tick
  <2>1. PICK p \in Refiltered(Top.left) :
          FrameBecomes(Synced([Top EXCEPT !.left = p]), SyncLoads([Top EXCEPT !.left = p]))
    BY <1>9 DEF Tick
  <2>2. GoodPane(p) /\ p.run = Top.run
    BY <1>0, RefilteredGood DEF FrameOfRun
  <2> QED BY <1>0, <2>1, <2>2, LeftReplaced, SyncKeeps
<1> QED BY <1>1, <1>2, <1>3, <1>4, <1>5, <1>6, <1>7, <1>8, <1>9

LEMMA NextTuiInv ==
  ASSUME TuiInv, [Next]_vars
  PROVE  TuiInv'
<1>1. CASE AppMessage
  BY <1>1, AppMessageKeeps
<1>2. CASE ScreenMessage
  BY <1>2, ScreenMessageKeeps
<1>3. CASE Key \/ Tick
  <2>1. CASE IsFrame(Top)
    BY <1>3, <2>1, BarKeysKeep, OtherKeysKeep, FrameKeysKeep DEF Key
  <2>2. CASE ~IsFrame(Top)
    BY <1>3, <2>2, BarKeysKeep, OtherKeysKeep
    DEF Key, Tick, IsFrame, OnScreen, FrameKey, FrameTab, FrameEnterKind, FrameEnterRow,
        FrameEsc, FrameGraph, FrameHistory, FrameLeftKey, FrameOtherKey
  <2> QED BY <2>1, <2>2
<1>4. CASE UNCHANGED vars
  BY <1>4, SameStack DEF vars, TuiInv
<1> QED BY <1>1, <1>2, <1>3, <1>4 DEF Next

-----------------------------------------------------------------------------
\* The invariant holds in every reachable state.
THEOREM TuiInvariant == Spec => []TuiInv
<1>1. Init => TuiInv
  BY InitTuiInv
<1>2. TuiInv /\ [Next]_vars => TuiInv'
  BY NextTuiInv
<1> QED BY <1>1, <1>2, PTL DEF Spec

\* Type correctness: stack, palette and pending messages have their types for
\* every set of runs, kinds and projects, any user and any number of commands
\* pending.
THEOREM TuiTypeCorrect == Spec => []TuiTypeOK
<1>1. TuiInv => TuiTypeOK
  <2> SUFFICES ASSUME TuiInv PROVE TuiTypeOK
    OBVIOUS
  <2>1. GoodScreens \subseteq Screen /\ GoodMessages \subseteq Message
    BY DEF GoodScreens, GoodMessages
  <2>2. stack \in Seq(Screen)
    BY <2>1, SeqMonotonic DEF TuiInv, GoodStack
  <2> QED BY <2>1, <2>2 DEF TuiInv, TuiTypeOK, GoodBag, BagOver
<1> QED BY <1>1, TuiInvariant, PTL

\* The stack is never empty and its bottom is the list of projects: App.Update,
\* View and findCurrentRun may index it.
THEOREM RootCorrect == Spec => []RootStays
<1>1. TuiInv => RootStays
  BY DEF TuiInv, GoodStack
<1> QED BY <1>1, TuiInvariant, PTL

LEMMA FramesGood ==
  ASSUME TuiInv, NEW f \in Frames
  PROVE  GoodFrame(f)
<1>1. PICK i \in 1 .. Len(stack) : f = stack[i] /\ IsFrame(stack[i])
  BY DEF Frames
<1>2. stack[i] \in GoodScreens
  BY ElementOfSeq DEF TuiInv, GoodStack
<1> QED BY <1>1, <1>2 DEF GoodScreens

\* However switches, swaps and late answers interleave, every pane a Frame
\* shows or can go back to is of the run it names.
THEOREM OneRunCorrect == Spec => []FrameIsOneRun
<1>1. TuiInv => FrameIsOneRun
  <2> SUFFICES ASSUME TuiInv, NEW f \in Frames
               PROVE  /\ \A p \in PanesOf(f) : p.run = f.run
                      /\ f.right # NoDetail => f.right.run = f.run
    BY DEF FrameIsOneRun
  <2> QED BY FramesGood DEF GoodFrame, FrameOfRun, PanesOf
<1> QED BY <1>1, TuiInvariant, PTL

\* The Detail is always that of the row under the cursor, whatever arrived late.
THEOREM DetailCorrect == Spec => []DetailIsSelected
<1>1. TuiInv => DetailIsSelected
  BY FramesGood DEF DetailIsSelected, GoodFrame
<1> QED BY <1>1, TuiInvariant, PTL

-----------------------------------------------------------------------------
(***************************************************************************)
(* A patient user, who presses a key only when nothing is pending.  Then   *)
(* one message is pending at most, and what is not loaded yet is on top    *)
(* and is what that message is for.                                        *)
(***************************************************************************)
\* A left pane whose answer has come, with the cursor where it was sent.
\* Only a list whose filter is closed still has a goal.
PaneSettled(p) ==
  /\ p.loaded
  /\ p.src \in {Nothing, [run |-> p.run, kind |-> p.kind]}
  /\ p.visible \subseteq IF IsOverview(p) THEN {} ELSE Answered(p.src)
  /\ p.filter \/ IsOverview(p) => p.goal = 0
  /\ p.goal # 0 /\ p.src # Nothing /\ p.goal \in Answered(p.src) => p.cursor = p.goal

PastSettled(f) == \A i \in 1 .. Len(f.leftHistory) : PaneSettled(f.leftHistory[i])
DetailOwn(f) ==
  f.right # NoDetail => f.right.src.run = f.run /\ f.right.edges \in {NoRun, f.run}
FrameSettled(f) ==
  /\ PastSettled(f)
  /\ PaneSettled(f.left)
  /\ DetailOwn(f)
  /\ f.right # NoDetail => f.right.loaded

Settled(s) ==
  CASE s.scr = "scopes"  -> s.rows # "loading"
    [] s.scr = "history" -> s.loaded /\ s.rows \in {{}, RunsOf(s.scope)}
    [] s.scr = "graph"   -> s.loaded
    [] s.scr = "frame"   -> FrameSettled(s)

\* The part of a Frame that waits for message m; its other parts are settled.
FrameWaits(f, m) ==
  /\ PastSettled(f)
  /\ \/ /\ m = OverviewLoad(f.run)
        /\ f.left = NewOverview(f.run)
        /\ f.right = NoDetail
     \/ /\ m.type = "rows"
        /\ m.run = f.run
        /\ f.left = NewResourceList(f.run, m.kind, f.left.goal)
        /\ f.right = NoDetail
     \/ /\ m = EdgesLoad(f.run)
        /\ PaneSettled(f.left)
        /\ f.right # NoDetail
        /\ DetailOwn(f)

Waits(s, m) ==
  CASE s.scr = "scopes"  -> m = ScopesLoad
    [] s.scr = "history" -> m = RunsLoad(s.scope) /\ s.rows = {}
    [] s.scr = "graph"   -> FALSE
    [] s.scr = "frame"   -> FrameWaits(s, m)

\* A screen as it is pushed.
Fresh(s) ==
  CASE s.scr = "scopes"  -> TRUE
    [] s.scr = "history" -> s.rows = {}
    [] s.scr = "graph"   -> s.loaded
    [] s.scr = "frame"   -> s = NewFrame(s.run)

Below == \A i \in 1 .. Len(stack) - 1 : Settled(stack[i])
AllSettled == \A i \in 1 .. Len(stack) : Settled(stack[i])

\* What the screens are while m is pending: the one on top waits for it, or
\* all are settled and it is to change them.
Answering(m) == Below /\ Waits(Top, m)
Asking(m) ==
  /\ AllSettled
  /\ CASE m.type = "push" -> Fresh(m.screen)
       [] m.type \in {"pop", "popThenSwitch"} -> Len(stack) > 1
       [] m.type = "quit" -> asked # "no"
       [] OTHER -> m.type \in {"switch", "scopesAlias", "submit", "jump", "swap"}

PatientInv ==
  /\ over => asked # "no"
  /\ \/ msgs = EmptyBag /\ AllSettled
     \/ /\ ~bar.open
        /\ \E m \in DOMAIN msgs : msgs = One(m) /\ (Answering(m) \/ Asking(m))

(***************************************************************************)
(* What a handler of a pane makes of a settled one.                        *)
(***************************************************************************)
LEMMA OverviewSettles ==
  ASSUME NEW r \in Run, NEW s \in {Nothing, [run |-> r, kind |-> NoKind]}
  PROVE  PaneSettled(TakeOverview(NewOverview(r), s))
BY DEF PaneSettled, TakeOverview, NewOverview, IsOverview

LEMMA RowsSettle ==
  ASSUME NEW r \in Run, NEW k \in Kind, NEW i,
         NEW s \in {Nothing, [run |-> r, kind |-> k]},
         NEW q \in TakeRows(NewResourceList(r, k, i), s)
  PROVE  PaneSettled(q)
<1> DEFINE p == NewResourceList(r, k, i)
<1>1. /\ p.run = r /\ p.kind = k /\ p.jump = i /\ p.goal = i /\ p.filter = FALSE
      /\ DOMAIN p = {"run", "kind", "loaded", "src", "visible", "cursor", "filter",
                     "hides", "jump", "goal"}
  BY DEF NewResourceList, NewOverview
<1>2. ~IsOverview(p)
  BY <1>1, PanesAssumption DEF IsOverview
<1>3. PICK c \in IF p.jump \in Answered(s) THEN {p.jump} ELSE Answered(s) \cup {0} :
        q = [p EXCEPT !.loaded = TRUE, !.src = s, !.visible = Answered(s),
                      !.jump = 0, !.cursor = c]
  BY <1>2 DEF TakeRows
<1>4. /\ q.run = r /\ q.kind = k /\ q.loaded = TRUE /\ q.src = s /\ q.goal = i
      /\ q.visible = Answered(s) /\ q.cursor = c /\ q.filter = FALSE
  BY <1>1, <1>3
<1>5. i \in Answered(s) => c = i
  BY <1>1, <1>3
<1> HIDE DEF p
<1> QED BY <1>4, <1>5, PanesAssumption DEF PaneSettled, IsOverview

\* Once the goal is gone, only what is visible matters.
LEMMA NoGoalSettled ==
  ASSUME NEW p, GoodPane(p), ~IsOverview(p), PaneSettled(p),
         NEW q, q.run = p.run, q.kind = p.kind, q.loaded = p.loaded, q.src = p.src,
         q.visible \subseteq Answered(p.src), q.goal = 0
  PROVE  PaneSettled(q)
BY DEF PaneSettled, IsOverview

LEMMA FilteredSettles ==
  ASSUME NEW p, GoodPane(p), ~IsOverview(p), PaneSettled(p),
         NEW o \in Pane, o.run = p.run, o.kind = p.kind, o.loaded = p.loaded,
         o.src = p.src, o.goal = 0,
         NEW v \in SUBSET Answered(p.src), NEW q \in Filtered(o, v)
  PROVE  PaneSettled(q)
<1>1. PICK c : q = [o EXCEPT !.visible = v, !.cursor = c]
  BY DEF Filtered
<1>2. /\ q.run = p.run /\ q.kind = p.kind /\ q.loaded = p.loaded /\ q.src = p.src
      /\ q.visible \subseteq Answered(p.src) /\ q.goal = 0
  BY <1>1 DEF Pane
<1> QED BY <1>2, NoGoalSettled

LEMMA RefilteredSettles ==
  ASSUME NEW p, GoodPane(p), PaneSettled(p), NEW q \in Refiltered(p)
  PROVE  PaneSettled(q)
<1>1. CASE q = p
  BY <1>1
<1>2. CASE q # p
  <2>1. q \in Filtered(p, Answered(p.src) \ p.hides) /\ p.filter
    BY <1>2 DEF Refiltered
  <2>2. ~IsOverview(p) /\ p \in Pane /\ p.goal = 0
    BY <2>1 DEF GoodPane, PaneSettled
  <2> QED BY <2>1, <2>2, FilteredSettles
<1> QED BY <1>1, <1>2

LEMMA LeftKeysSettle ==
  ASSUME NEW p, GoodPane(p), PaneSettled(p), NEW q \in LeftKeys(p)
  PROVE  PaneSettled(q)
<1>0. p \in Pane
  BY DEF GoodPane
<1>1. CASE IsOverview(p)
  BY <1>1 DEF LeftKeys
<1>2. CASE ~IsOverview(p) /\ p.filter
  <2>1. p.goal = 0
    BY <1>2 DEF PaneSettled
  <2>2. CASE q \in FilterTyped(p)
    <3>1. PICK h \in SUBSET AnyRow :
            q \in Filtered([p EXCEPT !.hides = h], Answered(p.src) \ h)
      BY <2>2 DEF FilterTyped
    <3> DEFINE o == [p EXCEPT !.hides = h]
    <3>2. /\ o \in Pane /\ o.run = p.run /\ o.kind = p.kind /\ o.loaded = p.loaded
          /\ o.src = p.src /\ o.goal = 0
      BY <1>0, <2>1, RowsAreNat DEF Pane, AnyRow
    <3>3. q \in Filtered(o, Answered(p.src) \ h)
      BY <3>1
    <3> HIDE DEF o
    <3> QED BY <1>2, <3>2, <3>3, FilteredSettles
  <2>3. CASE q \in FilterClosed(p)
    <3> DEFINE o == [p EXCEPT !.filter = FALSE]
    <3>1. /\ o \in Pane /\ o.run = p.run /\ o.kind = p.kind /\ o.loaded = p.loaded
          /\ o.src = p.src /\ o.goal = 0
      BY <1>0, <2>1 DEF Pane
    <3>2. q \in Filtered(o, Answered(p.src))
      BY <2>3 DEF FilterClosed
    <3> HIDE DEF o
    <3> QED BY <1>2, <3>1, <3>2, FilteredSettles
  <2>4. CASE q = FilterKept(p)
    <3>1. /\ q.run = p.run /\ q.kind = p.kind /\ q.loaded = p.loaded /\ q.src = p.src
          /\ q.visible = p.visible /\ q.goal = 0
      BY <1>0, <2>1, <2>4 DEF FilterKept, Pane
    <3> QED BY <1>2, <3>1, NoGoalSettled DEF PaneSettled
  <2> QED BY <1>2, <2>2, <2>3, <2>4 DEF LeftKeys
<1>3. CASE ~IsOverview(p) /\ ~p.filter
  <2>1. CASE q \in Moved(p) \cup {FilterOpened(p)}
    <3>1. /\ q.run = p.run /\ q.kind = p.kind /\ q.loaded = p.loaded /\ q.src = p.src
          /\ q.visible = p.visible /\ q.goal = 0
      BY <1>0, <2>1 DEF Moved, FilterOpened, Pane
    <3> QED BY <1>3, <3>1, NoGoalSettled DEF PaneSettled
  <2>2. CASE q \in Sorted(p)
    <3> DEFINE o == [p EXCEPT !.goal = 0]
    <3>1. /\ o \in Pane /\ o.run = p.run /\ o.kind = p.kind /\ o.loaded = p.loaded
          /\ o.src = p.src /\ o.goal = 0
      BY <1>0 DEF Pane
    <3>2. q \in Filtered(o, Answered(p.src) \ p.hides)
      BY <2>2 DEF Sorted
    <3> HIDE DEF o
    <3> QED BY <1>3, <3>1, <3>2, FilteredSettles
  <2> QED BY <1>3, <2>1, <2>2 DEF LeftKeys
<1> QED BY <1>1, <1>2, <1>3

\* A selected row was loaded for the pane it is in.
LEMMA SelectedIsOwn ==
  ASSUME NEW p, PaneSettled(p), SelectedRef(p) # NoRef
  PROVE  p.src.run = p.run
<1>1. p.cursor \in p.visible
  BY DEF SelectedRef
<1>2. p.src # Nothing
  BY <1>1 DEF PaneSettled, Answered
<1> QED BY <1>2 DEF PaneSettled

\* syncRightWithSelection in a settled Frame: it stays so, or loads edges.
LEMMA SyncSettles ==
  ASSUME NEW f, FrameOfRun(f), FrameSettled(f)
  PROVE  \/ SyncLoads(f) = None /\ FrameSettled(Synced(f))
         \/ /\ SyncLoads(f) = One(EdgesLoad(f.run))
            /\ FrameWaits(Synced(f), EdgesLoad(f.run))
<1>1. f \in FrameScreen /\ f.left.run = f.run
  BY DEF FrameOfRun
<1>2. CASE SelectedRef(f.left) = NoRef
  <2>1. SyncLoads(f) = None /\ Synced(f) = [f EXCEPT !.right = NoDetail]
    BY <1>2 DEF SyncLoads, Synced, Stale
  <2> QED BY <1>1, <2>1 DEF FrameSettled, PastSettled, DetailOwn, FrameScreen
<1>3. CASE SelectedRef(f.left) # NoRef /\ Stale(f)
  <2> DEFINE d == NewDetail(f.run, f.left)
             g == [f EXCEPT !.right = d]
  <2>1. SyncLoads(f) = One(EdgesLoad(f.run)) /\ Synced(f) = g
    BY <1>3 DEF SyncLoads, Synced
  <2>2. d # NoDetail /\ d.src = f.left.src /\ d.edges = NoRun
    BY <1>3 DEF NewDetail, NoDetail
  <2>3. f.left.src.run = f.run
    BY <1>1, <1>3, SelectedIsOwn DEF FrameSettled
  <2>4. g.run = f.run /\ g.left = f.left /\ g.leftHistory = f.leftHistory /\ g.right = d
    BY <1>1 DEF FrameScreen
  <2> HIDE DEF d, g
  <2> QED BY <2>1, <2>2, <2>3, <2>4 DEF FrameSettled, FrameWaits, PastSettled, DetailOwn
<1>4. CASE SelectedRef(f.left) # NoRef /\ ~Stale(f)
  BY <1>4 DEF SyncLoads, Synced
<1> QED BY <1>2, <1>3, <1>4

-----------------------------------------------------------------------------
(***************************************************************************)
(* What a Frame's handlers make of a settled one: it stays settled, or a   *)
(* pane of it waits for the load that the handler returns.                 *)
(***************************************************************************)
LEMMA LongerPast ==
  ASSUME NEW f, FrameOfRun(f), FrameSettled(f)
  PROVE  \A i \in 1 .. Len(Append(f.leftHistory, f.left)) :
           PaneSettled(Append(f.leftHistory, f.left)[i])
<1>1. f.leftHistory \in Seq(Pane) /\ f.left \in Pane
  BY DEF FrameOfRun, FrameScreen, GoodPane
<1> QED BY <1>1, AppendProperties DEF FrameSettled, PastSettled

\* The goal of a new list is the row the palette asked for.
LEMMA NewListGoal ==
  ASSUME NEW r, NEW k, NEW i
  PROVE  NewResourceList(r, k, i).goal = i
BY DEF NewResourceList, NewOverview

LEMMA SwappedWaits ==
  ASSUME NEW f, FrameOfRun(f), FrameSettled(f), NEW k \in Kind, NEW i
  PROVE  FrameWaits(Swapped(f, k, i), RowsLoad(f.run, k))
<1> DEFINE g == Swapped(f, k, i)
<1>1. /\ g.run = f.run /\ g.left = NewResourceList(f.run, k, i) /\ g.right = NoDetail
      /\ g.leftHistory = Append(f.leftHistory, f.left)
  BY DEF Swapped, WithLeft, FrameOfRun, FrameScreen
<1>2. PastSettled(g)
  BY <1>1, LongerPast DEF PastSettled
<1> HIDE DEF g
<1>3. FrameWaits(g, RowsLoad(f.run, k))
  BY <1>1, <1>2, NewListGoal DEF FrameWaits, RowsLoad
<1> QED BY <1>3 DEF g

LEMMA DrilledWaits ==
  ASSUME NEW f, FrameOfRun(f), FrameSettled(f), NEW k \in Kind
  PROVE  FrameWaits(Drilled(f, k), RowsLoad(f.run, k))
<1> DEFINE g == Drilled(f, k)
<1>1. /\ g.run = f.run /\ g.left = NewResourceList(f.run, k, 0) /\ g.right = NoDetail
      /\ g.leftHistory = Append(f.leftHistory, f.left)
  BY DEF Drilled, WithLeft, FrameOfRun, FrameScreen
<1>2. PastSettled(g)
  BY <1>1, LongerPast DEF PastSettled
<1> HIDE DEF g
<1>3. FrameWaits(g, RowsLoad(f.run, k))
  BY <1>1, <1>2, NewListGoal DEF FrameWaits, RowsLoad
<1> QED BY <1>3 DEF g

LEMMA EmptyPast ==
  ASSUME NEW f, f.leftHistory = <<>>
  PROVE  PastSettled(f)
BY DEF PastSettled

LEMMA SwitchedWaits ==
  ASSUME NEW f, FrameOfRun(f), NEW r \in Run
  PROVE  FrameWaits(Switched(f, r), OverviewLoad(r))
<1> DEFINE g == Switched(f, r)
<1>1. /\ g.run = r /\ g.left = NewOverview(r) /\ g.right = NoDetail
      /\ g.leftHistory = <<>>
  BY DEF Switched, WithLeft, FrameOfRun, FrameScreen
<1> HIDE DEF g
<1>2. FrameWaits(g, OverviewLoad(r))
  BY <1>1, EmptyPast DEF FrameWaits
<1> QED BY <1>2 DEF g

LEMMA NewFrameWaits ==
  ASSUME NEW r \in Run
  PROVE  FrameWaits(NewFrame(r), OverviewLoad(r))
BY EmptyPast DEF FrameWaits, NewFrame

LEMMA RestoredSettles ==
  ASSUME NEW f, FrameOfRun(f), FrameSettled(f), f.leftHistory # <<>>
  PROVE  FrameSettled(Restored(f))
<1> DEFINE g == Restored(f)
           h == f.leftHistory
<1>1. /\ g.left = h[Len(h)] /\ g.right = NoDetail
      /\ g.leftHistory = SubSeq(h, 1, Len(h) - 1)
  BY DEF Restored, WithLeft, FrameOfRun, FrameScreen
<1>2. h \in Seq(Pane) /\ Len(h) \in Nat \ {0}
  BY EmptySeq DEF FrameOfRun, FrameScreen
<1>3. \A i \in 1 .. Len(h) - 1 : h[i] \in Pane
  BY <1>2, ElementOfSeq
<1>4. /\ Len(g.leftHistory) = Len(h) - 1
      /\ \A i \in 1 .. Len(h) - 1 : g.leftHistory[i] = h[i]
  BY <1>1, <1>2, <1>3, SubSeqProperties
<1>5. \A i \in 1 .. Len(h) : PaneSettled(h[i])
  BY DEF FrameSettled, PastSettled
<1>6. PaneSettled(g.left)
  BY <1>1, <1>2, <1>5
<1>7. PastSettled(g)
  BY <1>2, <1>4, <1>5 DEF PastSettled
<1> HIDE DEF g
<1>8. FrameSettled(g)
  BY <1>1, <1>6, <1>7 DEF FrameSettled, DetailOwn
<1> QED BY <1>8 DEF g

LEMMA FlagsSettle ==
  ASSUME NEW f, FrameOfRun(f), FrameSettled(f), NEW z, NEW x
  PROVE  FrameSettled([f EXCEPT !.zoomed = z]) /\ FrameSettled([f EXCEPT !.focus = x])
BY DEF FrameSettled, PastSettled, DetailOwn, FrameOfRun, FrameScreen

LEMMA ToggledSettles ==
  ASSUME NEW f, FrameOfRun(f), FrameSettled(f)
  PROVE  FrameSettled(Toggled(f))
BY FlagsSettle DEF Toggled

LEMMA LeftSettles ==
  ASSUME NEW f, FrameOfRun(f), FrameSettled(f), NEW p, PaneSettled(p)
  PROVE  FrameSettled([f EXCEPT !.left = p])
BY DEF FrameSettled, PastSettled, DetailOwn, FrameOfRun, FrameScreen

-----------------------------------------------------------------------------
(***************************************************************************)
(* Bags of one message.                                                    *)
(***************************************************************************)
LEMMA OneDomain == \A m : DOMAIN One(m) = {m} /\ One(m) # EmptyBag
BY DEF One, EmptyBag, SetToBag

LEMMA NothingAdded ==
  ASSUME NEW B, IsABag(B)
  PROVE  EmptyBag (+) B = B
<1>1. DOMAIN EmptyBag = {}
  BY DEF EmptyBag, SetToBag
<1>2. EmptyBag (+) B = [e \in DOMAIN B |-> B[e]]
  BY <1>1 DEF (+), IsABag
<1> QED BY <1>2 DEF IsABag

LEMMA OneRemoved ==
  ASSUME NEW m
  PROVE  One(m) (-) One(m) = EmptyBag
<1> DEFINE F == [e \in DOMAIN One(m) |->
                   IF e \in DOMAIN One(m) THEN One(m)[e] - One(m)[e] ELSE One(m)[e]]
<1>1. \A e \in DOMAIN F : F[e] = 0
  BY DEF One, SetToBag
<1>2. {d \in DOMAIN F : F[d] > 0} = {}
  BY <1>1
<1>3. One(m) (-) One(m) = [e \in {d \in DOMAIN F : F[d] > 0} |-> F[e]]
  BY DEF (-)
<1> HIDE DEF F
<1> QED BY <1>2, <1>3 DEF EmptyBag, SetToBag

\* Taking the one message leaves what its handler returned.
LEMMA TakeOne ==
  ASSUME NEW n, msgs = One(n), NEW m, NEW cmds, Take(m, cmds), IsABag(cmds)
  PROVE  m = n /\ msgs' = cmds /\ ~over
<1>1. m = n
  BY OneDomain DEF Take, BagIn, BagToSet
<1> QED BY <1>1, OneRemoved, NothingAdded DEF Take

LEMMA TakeNone ==
  ASSUME msgs = EmptyBag, NEW m, NEW cmds
  PROVE  ~Take(m, cmds)
BY DEF Take, BagIn, BagToSet, EmptyBag, SetToBag

LEMMA ReturnOne ==
  ASSUME msgs = EmptyBag, NEW cmds, Return(cmds), IsABag(cmds)
  PROVE  msgs' = cmds
BY NothingAdded DEF Return

LEMMA NoneIsBag == None = EmptyBag /\ IsABag(None)
BY DEF None, EmptyBag, SetToBag, IsABag

-----------------------------------------------------------------------------
(***************************************************************************)
(* The stack.                                                              *)
(***************************************************************************)
LEMMA TopLast ==
  ASSUME GoodStack, AllSettled
  PROVE  Below /\ Settled(Top)
<1>1. Len(stack) \in Nat \ {0}
  BY TopGood
<1> QED BY <1>1 DEF AllSettled, Below, Top

LEMMA TopSettles ==
  ASSUME GoodStack', Below', Settled(Top')
  PROVE  AllSettled'
<1>1. Len(stack') \in Nat \ {0}
  BY LenProperties DEF GoodStack, RootStays
<1> QED BY <1>1 DEF AllSettled, Below, Top

LEMMA OnTopBelow ==
  ASSUME GoodStack, Below, NEW s, OnTop(s)
  PROVE  Below' /\ Top' = s
<1>1. Len(stack) \in 1 .. Len(stack)
  BY TopGood
<1>2. Len(stack') = Len(stack) /\ DOMAIN stack = 1 .. Len(stack)
  BY <1>1, LenProperties DEF GoodStack, OnTop
<1>3. /\ stack'[Len(stack)] = s
      /\ \A i \in 1 .. Len(stack) - 1 : stack'[i] = stack[i]
  <2> DEFINE n == Len(stack)
  <2>1. n \in 1 .. n /\ DOMAIN stack = 1 .. n /\ stack' = [stack EXCEPT ![n] = s]
    BY <1>1, <1>2 DEF OnTop
  <2>2. n \in Nat
    BY TopGood
  <2> HIDE DEF n
  <2>3. stack'[n] = s /\ \A i \in 1 .. n - 1 : stack'[i] = stack[i]
    BY <2>1, <2>2
  <2> QED BY <2>3 DEF n
<1>4. Top' = s
  BY <1>2, <1>3 DEF Top
<1>5. Below'
  BY <1>2, <1>3 DEF Below
<1> QED BY <1>4, <1>5

LEMMA PushBelow ==
  ASSUME GoodStack, AllSettled, NEW s \in GoodScreens, stack' = Append(stack, s)
  PROVE  Below' /\ Top' = s
<1>1. /\ Len(stack') = Len(stack) + 1 /\ Len(stack) \in Nat
      /\ \A i \in 1 .. Len(stack) : stack'[i] = stack[i]
      /\ stack'[Len(stack) + 1] = s
  BY AppendProperties, LenProperties DEF GoodStack
<1> QED BY <1>1 DEF Below, Top, AllSettled

LEMMA PopBelowSettled ==
  ASSUME GoodStack, AllSettled, Len(stack) > 1,
         stack' = SubSeq(stack, 1, Len(stack) - 1)
  PROVE  AllSettled'
<1>1. Len(stack) \in Nat /\ \A i \in 1 .. Len(stack) - 1 : stack[i] \in GoodScreens
  BY TopGood, ElementOfSeq DEF GoodStack
<1>2. /\ Len(stack') = Len(stack) - 1
      /\ \A i \in 1 .. Len(stack) - 1 : stack'[i] = stack[i]
  BY <1>1, SubSeqProperties
<1> QED BY <1>1, <1>2 DEF AllSettled

LEMMA SameSettled ==
  ASSUME AllSettled, UNCHANGED stack
  PROVE  AllSettled'
BY DEF AllSettled

-----------------------------------------------------------------------------
(***************************************************************************)
(* What may be pending, and how a step ends: with nothing pending, with a  *)
(* load under way, or with a request.                                      *)
(***************************************************************************)
LEMMA AnsweringTypes ==
  ASSUME GoodStack, NEW m, Answering(m)
  PROVE  /\ m.type \in {"scopes", "runs", "overview", "rows", "edges"}
         /\ m.type = "scopes" => Top.scr = "scopes"
         /\ m.type = "runs" => Top.scr = "history" /\ m.scope = Top.scope
         /\ m.type \in {"overview", "rows", "edges"} => IsFrame(Top) /\ FrameWaits(Top, m)
<1>1. Top.scr \in {"scopes", "history", "graph", "frame"} /\ Waits(Top, m)
  BY TopGood, ScreenKinds DEF Answering
<1>2. CASE Top.scr = "scopes"
  BY <1>1, <1>2 DEF Waits, ScopesLoad
<1>3. CASE Top.scr = "history"
  BY <1>1, <1>3 DEF Waits, RunsLoad
<1>4. CASE Top.scr = "graph"
  BY <1>1, <1>4 DEF Waits
<1>5. CASE Top.scr = "frame"
  <2>1. FrameWaits(Top, m)
    BY <1>1, <1>5 DEF Waits
  <2>2. m.type \in {"overview", "rows", "edges"}
    BY <2>1 DEF FrameWaits, OverviewLoad, EdgesLoad
  <2> QED BY <1>5, <2>1, <2>2 DEF IsFrame
<1> QED BY <1>1, <1>2, <1>3, <1>4, <1>5

LEMMA AskingTypes ==
  ASSUME NEW m, Asking(m)
  PROVE  /\ m.type \in {"push", "pop", "popThenSwitch", "quit", "switch", "scopesAlias",
                        "submit", "jump", "swap"}
         /\ m.type = "push" => Fresh(m.screen)
         /\ m.type \in {"pop", "popThenSwitch"} => Len(stack) > 1
         /\ m.type = "quit" => asked # "no"
         /\ AllSettled
BY DEF Asking

\* How a step ends: with nothing pending, with a load, or with a request.
LEMMA ToIdle ==
  ASSUME msgs' = None, AllSettled', over' => asked' # "no"
  PROVE  PatientInv'
BY NoneIsBag DEF PatientInv

LEMMA ToAnswering ==
  ASSUME NEW m, msgs' = One(m), ~bar'.open, over' => asked' # "no",
         Below', Waits(Top', m)
  PROVE  PatientInv'
BY OneDomain DEF PatientInv, Answering

LEMMA ToAsking ==
  ASSUME NEW m, msgs' = One(m), ~bar'.open, over' => asked' # "no", AllSettled',
         m.type \in {"push", "pop", "popThenSwitch", "quit", "switch", "scopesAlias",
                     "submit", "jump", "swap"},
         m.type = "push" => Fresh(m.screen),
         m.type \in {"pop", "popThenSwitch"} => Len(stack') > 1,
         m.type = "quit" => asked' # "no"
  PROVE  PatientInv'
<1>1. Asking(m)'
  BY DEF Asking
<1> QED BY <1>1, OneDomain DEF PatientInv

LEMMA TakeSame ==
  ASSUME NEW n, msgs = One(n), NEW m, NEW cmds, Take(m, cmds)
  PROVE  m = n /\ ~over
BY OneDomain DEF Take, BagIn, BagToSet

\* A screen of a known kind.
LEMMA SettledKinds ==
  ASSUME NEW s
  PROVE  /\ s.scr = "scopes" => (Settled(s) <=> s.rows # "loading")
         /\ s.scr = "history" => (Settled(s) <=> s.loaded /\ s.rows \in {{}, RunsOf(s.scope)})
         /\ s.scr = "graph" => (Settled(s) <=> s.loaded)
         /\ IsFrame(s) => (Settled(s) <=> FrameSettled(s))
BY DEF Settled, IsFrame

LEMMA WaitsKinds ==
  ASSUME NEW s, NEW m
  PROVE  /\ s.scr = "scopes" => (Waits(s, m) <=> m = ScopesLoad)
         /\ s.scr = "history" => (Waits(s, m) <=> m = RunsLoad(s.scope) /\ s.rows = {})
         /\ IsFrame(s) => (Waits(s, m) <=> FrameWaits(s, m))
BY DEF Waits, IsFrame

LEMMA IsBags ==
  ASSUME NEW m
  PROVE  IsABag(One(m)) /\ IsABag(None)
BY OneIsBag, NoneIsBag

\* syncRightWithSelection on the Frame on top.
LEMMA SyncStep ==
  ASSUME TuiInv, IsFrame(Top), Below, NEW f, FrameOfRun(f), FrameSettled(f),
         OnTop(Synced(f)), msgs' = SyncLoads(f), ~bar'.open, over' => asked' # "no"
  PROVE  PatientInv'
<1>1. IsFrame(Synced(f)) /\ GoodStack'
  BY SyncedGood, FrameIsGood, FrameOnTop DEF TuiInv
<1>2. Below' /\ Top' = Synced(f)
  BY OnTopBelow DEF TuiInv
<1>3. CASE SyncLoads(f) = None /\ FrameSettled(Synced(f))
  <2>1. Settled(Synced(f))
    BY <1>1, <1>3, SettledKinds
  <2>2. AllSettled'
    BY <1>1, <1>2, <2>1, TopSettles
  <2> QED BY <1>3, <2>2, ToIdle
<1>4. CASE /\ SyncLoads(f) = One(EdgesLoad(f.run))
           /\ FrameWaits(Synced(f), EdgesLoad(f.run))
  <2>1. Waits(Synced(f), EdgesLoad(f.run))
    BY <1>1, <1>4, WaitsKinds
  <2> QED BY <1>2, <1>4, <2>1, ToAnswering
<1> QED BY <1>3, <1>4, SyncSettles

\* The messages App.Update handles itself.
LEMMA PushSettles ==
  ASSUME TuiInv, NEW n, msgs = One(n), ~bar.open, Answering(n) \/ Asking(n),
         NEW s, PushScreen(s), TuiInv'
  PROVE  PatientInv'
<1>1. Take(Push(s), InitOf(s)) /\ stack' = Append(stack, s) /\ UNCHANGED <<bar, asked, over>>
  BY DEF PushScreen
<1>2. n = Push(s) /\ ~over
  BY <1>1, TakeSame
<1>3. AllSettled /\ Fresh(s)
  BY <1>2, AnsweringTypes, AskingTypes DEF Push, TuiInv
<1>4. s \in GoodScreens /\ s \in Screen
  BY <1>1, PushedGood DEF Take, BagIn, BagToSet, GoodBag, BagOver, TuiInv, GoodScreens
<1>5. msgs' = InitOf(s)
  BY <1>1, <1>4, InitOfGood, TakeOne DEF GoodBag, BagOver
<1>6. Below' /\ Top' = s /\ GoodStack'
  BY <1>1, <1>3, <1>4, PushBelow, PushKeeps DEF TuiInv
<1>7. CASE s.scr = "scopes"
  BY <1>1, <1>2, <1>5, <1>6, <1>7, WaitsKinds, ToAnswering DEF InitOf
<1>8. CASE s.scr = "history"
  <2>1. s.rows = {} /\ InitOf(s) = One(RunsLoad(s.scope))
    BY <1>3, <1>8 DEF Fresh, InitOf
  <2> QED BY <1>1, <1>2, <1>5, <1>6, <1>8, <2>1, WaitsKinds, ToAnswering
<1>9. CASE s.scr = "graph"
  <2>1. s.loaded /\ InitOf(s) = None
    BY <1>3, <1>9 DEF Fresh, InitOf
  <2>2. AllSettled'
    BY <1>6, <1>9, <2>1, SettledKinds, TopSettles
  <2> QED BY <1>1, <1>2, <1>5, <2>1, <2>2, ToIdle
<1>10. CASE s.scr = "frame"
  <2>1. s = NewFrame(s.run) /\ InitOf(s) = One(OverviewLoad(s.run))
    BY <1>3, <1>10 DEF Fresh, InitOf
  <2>2. s.run \in Run
    BY <1>4, <1>10, ScreenKinds DEF FrameScreen
  <2>3. FrameWaits(s, OverviewLoad(s.run))
    BY <2>1, <2>2, NewFrameWaits
  <2>4. Waits(s, OverviewLoad(s.run))
    BY <1>10, <2>3, WaitsKinds DEF IsFrame
  <2> QED BY <1>1, <1>2, <1>5, <1>6, <2>1, <2>4, ToAnswering
<1> QED BY <1>4, <1>7, <1>8, <1>9, <1>10, ScreenKinds

LEMMA SwitchSettles ==
  ASSUME TuiInv, NEW n, msgs = One(n), ~bar.open, Answering(n) \/ Asking(n),
         NEW r \in Run, SwitchOnTop(r), TuiInv'
  PROVE  PatientInv'
<1>1. UNCHANGED <<bar, asked, over>>
  BY DEF SwitchOnTop
<1>2. /\ IsFrame(Top) => /\ Take(SwitchRun(r), One(OverviewLoad(r)))
                         /\ OnTop(Switched(Top, r))
      /\ Top.scr = "scopes" => Take(SwitchRun(r), One(Push(NewFrame(r)))) /\ UNCHANGED stack
      /\ ~IsFrame(Top) /\ Top.scr # "scopes" =>
           Take(SwitchRun(r), None) /\ UNCHANGED stack
  BY DEF SwitchOnTop, IsFrame
<1>3. n = SwitchRun(r) /\ ~over
  BY <1>2, TakeSame DEF IsFrame
<1>4. AllSettled
  BY <1>3, AnsweringTypes, AskingTypes DEF SwitchRun, TuiInv
<1>5. CASE IsFrame(Top)
  <2>1. msgs' = One(OverviewLoad(r))
    BY <1>2, <1>5, IsBags, TakeOne
  <2>2. FrameOfRun(Top)
    BY <1>5, TopGood DEF GoodFrame, TuiInv
  <2>3. GoodFrame(Switched(Top, r)) /\ FrameWaits(Switched(Top, r), OverviewLoad(r))
    BY <2>2, SwitchedGood, SwitchedWaits
  <2>4. Waits(Switched(Top, r), OverviewLoad(r))
    BY <2>3, FrameIsGood, WaitsKinds
  <2>5. Below' /\ Top' = Switched(Top, r)
    BY <1>2, <1>4, <1>5, TopLast, OnTopBelow DEF TuiInv
  <2> QED BY <1>1, <1>3, <2>1, <2>4, <2>5, ToAnswering
<1>6. CASE Top.scr = "scopes"
  <2>1. msgs' = One(Push(NewFrame(r))) /\ AllSettled'
    BY <1>2, <1>4, <1>6, IsBags, TakeOne, SameSettled
  <2>2. Fresh(NewFrame(r))
    BY DEF Fresh, NewFrame
  <2> QED BY <1>1, <1>3, <2>1, <2>2, ToAsking DEF Push
<1>7. CASE ~IsFrame(Top) /\ Top.scr # "scopes"
  <2>1. msgs' = None /\ AllSettled'
    BY <1>2, <1>4, <1>7, IsBags, TakeOne, SameSettled
  <2> QED BY <1>1, <1>3, <2>1, ToIdle
<1> QED BY <1>5, <1>6, <1>7

LEMMA AppMessageSettles ==
  ASSUME TuiInv, NEW n, msgs = One(n), ~bar.open, Answering(n) \/ Asking(n),
         AppMessage, TuiInv'
  PROVE  PatientInv'
<1>0. GoodStack
  BY DEF TuiInv
<1>1. ASSUME NEW s, PushScreen(s) PROVE PatientInv'
  BY <1>1, PushSettles
<1>2. CASE PopScreen
  <2>1. n = Pop /\ ~over
    BY <1>2, TakeSame DEF PopScreen
  <2>2. Len(stack) > 1 /\ AllSettled
    BY <1>0, <2>1, AnsweringTypes, AskingTypes DEF Pop
  <2>3. msgs' = None /\ AllSettled'
    BY <1>0, <1>2, <2>2, IsBags, TakeOne, PopBelowSettled DEF PopScreen
  <2> QED BY <1>2, <2>1, <2>3, ToIdle DEF PopScreen
<1>3. ASSUME NEW r \in Run, PopInSequence(r) PROVE PatientInv'
  <2>1. n = PopThenSwitch(r) /\ ~over
    BY <1>3, TakeSame DEF PopInSequence
  <2>2. Len(stack) > 1 /\ AllSettled
    BY <1>0, <2>1, AnsweringTypes, AskingTypes DEF PopThenSwitch
  <2>3. msgs' = One(SwitchRun(r)) /\ AllSettled'
    BY <1>0, <1>3, <2>2, IsBags, TakeOne, PopBelowSettled DEF PopInSequence
  <2> QED BY <1>3, <2>1, <2>3, ToAsking DEF PopInSequence, SwitchRun
<1>4. ASSUME NEW r \in Run, SwitchOnTop(r) PROVE PatientInv'
  BY <1>4, SwitchSettles
<1>5. CASE SubmitScopes
  <2> DEFINE push == Push(NewScopes(TRUE))
  <2>0. Take(OpenScopesModal, One(push)) /\ push.type = "push" /\ Fresh(push.screen)
    BY <1>5 DEF SubmitScopes, Push, Fresh, NewScopes
  <2> HIDE DEF push
  <2>1. n = OpenScopesModal /\ ~over
    BY <2>0, TakeSame
  <2>2. AllSettled'
    BY <1>0, <1>5, <2>1, AnsweringTypes, AskingTypes, SameSettled
       DEF OpenScopesModal, SubmitScopes
  <2>3. msgs' = One(push)
    BY <2>0, IsBags, TakeOne
  <2> QED BY <1>5, <2>0, <2>1, <2>2, <2>3, ToAsking DEF SubmitScopes
<1>6. ASSUME NEW k, NEW i, NEW m, m.type \in {"submit", "jump"},
             Take(m, IF HasRun THEN One(SwapLeft(k, i)) ELSE None),
             UNCHANGED <<stack, bar, corpus, asked, over>>
      PROVE  PatientInv'
  <2>1. n = m /\ ~over
    BY <1>6, TakeSame
  <2>2. AllSettled'
    BY <1>0, <1>6, <2>1, AnsweringTypes, AskingTypes, SameSettled
  <2>3. msgs' = One(SwapLeft(k, i)) \/ msgs' = None
    BY <1>6, IsBags, TakeOne
  <2> QED BY <1>6, <2>1, <2>2, <2>3, ToAsking, ToIdle DEF SwapLeft
<1>7. ASSUME NEW k \in Kind, SubmitAlias(k) PROVE PatientInv'
  <2>1. Submit(k).type \in {"submit", "jump"}
    BY DEF Submit
  <2> QED BY <1>6, <1>7, <2>1 DEF SubmitAlias
<1>8. ASSUME NEW k \in Kind, NEW i, SubmitJump(k, i) PROVE PatientInv'
  <2>1. JumpTo(k, i).type \in {"submit", "jump"}
    BY DEF JumpTo
  <2> QED BY <1>6, <1>8, <2>1 DEF SubmitJump
<1>9. CASE TakeQuit
  <2>1. n = Quit /\ ~over /\ msgs' = None
    BY <1>9, IsBags, TakeSame, TakeOne DEF TakeQuit
  <2>2. asked # "no" /\ AllSettled'
    BY <1>0, <1>9, <2>1, AnsweringTypes, AskingTypes, SameSettled DEF TakeQuit, Quit
  <2> QED BY <1>9, <2>1, <2>2, ToIdle DEF TakeQuit
<1> QED BY <1>1, <1>2, <1>3, <1>4, <1>5, <1>7, <1>8, <1>9 DEF AppMessage

-----------------------------------------------------------------------------
(***************************************************************************)
(* The messages for the screens.                                           *)
(***************************************************************************)
LEMMA FrameTakesSettles ==
  ASSUME TuiInv, NEW n, msgs = One(n), ~bar.open, Below, IsFrame(Top), PastSettled(Top),
         NEW m, NEW lefts, NEW d, FrameTakes(m, lefts, d),
         \A p \in lefts : GoodPane(p) /\ p.run = Top.run /\ PaneSettled(p),
         d \in Detail,
         d # NoDetail => /\ d.run = Top.run /\ d.src.run = Top.run
                         /\ d.edges \in {NoRun, Top.run} /\ d.loaded,
         UNCHANGED <<bar, asked, over>>
  PROVE  PatientInv'
<1>1. FrameOfRun(Top)
  BY TopGood DEF GoodFrame, TuiInv
<1>2. PICK p \in lefts :
        LET f == [Top EXCEPT !.left = p, !.right = d]
        IN  Take(m, SyncLoads(f)) /\ OnTop(Synced(f))
  BY DEF FrameTakes
<1> DEFINE f == [Top EXCEPT !.left = p, !.right = d]
<1>3. FrameOfRun(f)
  BY <1>1, <1>2, PanesReplaced
<1>4. /\ f.left = p /\ f.right = d /\ f.run = Top.run /\ f.leftHistory = Top.leftHistory
  BY <1>1 DEF FrameOfRun, FrameScreen
<1>5. Take(m, SyncLoads(f)) /\ OnTop(Synced(f))
  BY <1>2
<1> HIDE DEF f
<1>6. FrameSettled(f)
  BY <1>2, <1>4 DEF FrameSettled, PastSettled, DetailOwn
<1>7. msgs' = SyncLoads(f) /\ ~over
  BY <1>3, <1>5, SyncLoadsGood, TakeOne, TakeSame DEF GoodBag, BagOver
<1> QED BY <1>3, <1>5, <1>6, <1>7, SyncStep

LEMMA FrameTakesSame ==
  ASSUME NEW n, msgs = One(n), NEW m, NEW lefts, NEW d, FrameTakes(m, lefts, d)
  PROVE  n = m
<1>1. CASE IsFrame(Top)
  <2>1. PICK p \in lefts :
          LET f == [Top EXCEPT !.left = p, !.right = d]
          IN  Take(m, SyncLoads(f)) /\ OnTop(Synced(f))
    BY <1>1 DEF FrameTakes
  <2> QED BY <2>1, TakeSame
<1>2. CASE ~IsFrame(Top)
  BY <1>2, TakeSame DEF FrameTakes
<1> QED BY <1>1, <1>2

LEMMA TakeSwapSettles ==
  ASSUME TuiInv, NEW n, msgs = One(n), ~bar.open, Answering(n) \/ Asking(n),
         NEW k \in Kind, NEW i \in Nat, TakeSwap(k, i), UNCHANGED <<bar, asked, over>>
  PROVE  PatientInv'
<1>1. n = SwapLeft(k, i) /\ ~over
  BY TakeSame DEF TakeSwap
<1>2. AllSettled
  BY <1>1, AnsweringTypes, AskingTypes DEF SwapLeft, TuiInv
<1>3. CASE IsFrame(Top)
  <2> DEFINE f == Swapped(Top, k, i)
             l == RowsLoad(Top.run, k)
  <2>1. Take(SwapLeft(k, i), One(l)) /\ OnTop(f)
    BY <1>3 DEF TakeSwap
  <2>2. Below /\ FrameOfRun(Top) /\ FrameSettled(Top)
    BY <1>2, <1>3, TopGood, TopLast, SettledKinds DEF TuiInv, GoodFrame
  <2>3. GoodFrame(f) /\ FrameWaits(f, l)
    BY <2>2, SwappedGood, SwappedWaits
  <2> HIDE DEF f, l
  <2>4. msgs' = One(l)
    BY <2>1, IsBags, TakeOne
  <2>5. Below' /\ Top' = f
    BY <2>1, <2>2, OnTopBelow DEF TuiInv
  <2>6. Waits(f, l)
    BY <2>3, FrameIsGood, WaitsKinds
  <2> QED BY <1>1, <2>4, <2>5, <2>6, ToAnswering
<1>4. CASE ~IsFrame(Top)
  <2>1. Take(SwapLeft(k, i), None) /\ UNCHANGED stack
    BY <1>4 DEF TakeSwap
  <2> QED BY <1>1, <1>2, <2>1, IsBags, TakeOne, SameSettled, ToIdle
<1> QED BY <1>3, <1>4

LEMMA TakeOverviewLoadSettles ==
  ASSUME TuiInv, NEW n, msgs = One(n), ~bar.open, Answering(n) \/ Asking(n),
         NEW r \in Run, NEW ok \in BOOLEAN, TakeOverviewLoad(r, ok),
         UNCHANGED <<bar, asked, over>>
  PROVE  PatientInv'
<1> DEFINE src == IF ok THEN [run |-> r, kind |-> NoKind] ELSE Nothing
           lefts == IF IsOverview(Top.left) THEN {TakeOverview(Top.left, src)}
                                            ELSE Refiltered(Top.left)
<1>1. FrameTakes(OverviewLoad(r), lefts, Top.right)
  BY DEF TakeOverviewLoad
<1>2. src \in Source /\ src \in {Nothing, [run |-> r, kind |-> NoKind]}
  BY DEF Source, Nothing, MaybeRun, MaybeKind
<1> HIDE DEF src
<1>3. n = OverviewLoad(r)
  BY <1>1, FrameTakesSame
<1>4. Below /\ IsFrame(Top) /\ FrameWaits(Top, n)
  BY <1>3, AnsweringTypes, AskingTypes DEF OverviewLoad, Answering, TuiInv
<1>5. PastSettled(Top) /\ Top.left = NewOverview(r) /\ Top.right = NoDetail /\ Top.run = r
  BY <1>3, <1>4 DEF FrameWaits, OverviewLoad, EdgesLoad
<1>6. lefts = {TakeOverview(NewOverview(r), src)}
  BY <1>5 DEF IsOverview, NewOverview
<1> HIDE DEF lefts
<1>7. \A p \in lefts : GoodPane(p) /\ p.run = Top.run /\ PaneSettled(p)
  <2>1. IsOverview(NewOverview(r))
    BY DEF IsOverview, NewOverview
  <2> DEFINE p == NewOverview(r)
             q == TakeOverview(p, src)
  <2>2. GoodPane(p) /\ p.run = r
    BY NewOverviewGood
  <2>3. GoodPane(q) /\ q.run = r
    BY <1>2, <2>1, <2>2, TakeOverviewGood
  <2>4. PaneSettled(q)
    BY <1>2, OverviewSettles
  <2> QED BY <1>5, <1>6, <2>3, <2>4
<1> QED BY <1>1, <1>4, <1>5, <1>7, NoDetailType, FrameTakesSettles

LEMMA TakeRowsLoadSettles ==
  ASSUME TuiInv, NEW n, msgs = One(n), ~bar.open, Answering(n) \/ Asking(n),
         NEW r \in Run, NEW k \in Kind, NEW ok \in BOOLEAN, TakeRowsLoad(r, k, ok),
         UNCHANGED <<bar, asked, over>>
  PROVE  PatientInv'
<1> DEFINE src == IF ok THEN [run |-> r, kind |-> k] ELSE Nothing
           lefts == TakeRows(Top.left, src)
<1>1. FrameTakes(RowsLoad(r, k), lefts, Top.right)
  BY DEF TakeRowsLoad
<1>2. src \in Source /\ GoodSource(src) /\ src \in {Nothing, [run |-> r, kind |-> k]}
  BY DEF Source, Nothing, MaybeRun, MaybeKind, GoodSource
<1> HIDE DEF src
<1>3. n = RowsLoad(r, k)
  BY <1>1, FrameTakesSame
<1>4. Below /\ IsFrame(Top) /\ FrameWaits(Top, n) /\ FrameOfRun(Top)
  BY <1>3, AnsweringTypes, AskingTypes, TopGood DEF RowsLoad, Answering, TuiInv, GoodFrame
<1>5. /\ PastSettled(Top) /\ Top.right = NoDetail /\ Top.run = r
      /\ Top.left = NewResourceList(r, k, Top.left.goal)
  BY <1>3, <1>4 DEF FrameWaits, RowsLoad, OverviewLoad, EdgesLoad
<1>6. ASSUME NEW p \in lefts PROVE GoodPane(p) /\ p.run = Top.run /\ PaneSettled(p)
  <2>1. GoodPane(p) /\ p.run = Top.run
    BY <1>2, <1>4, <1>6, TakeRowsGood DEF FrameOfRun
  <2>2. PaneSettled(p)
    BY <1>2, <1>5, <1>6, RowsSettle
  <2> QED BY <2>1, <2>2
<1> HIDE DEF lefts
<1> QED BY <1>1, <1>4, <1>5, <1>6, NoDetailType, FrameTakesSettles

LEMMA TakeEdgesLoadSettles ==
  ASSUME TuiInv, NEW n, msgs = One(n), ~bar.open, Answering(n) \/ Asking(n),
         NEW r \in Run, NEW ok \in BOOLEAN, TakeEdgesLoad(r, ok),
         UNCHANGED <<bar, asked, over>>
  PROVE  PatientInv'
<1> DEFINE e == IF ok THEN r ELSE NoRun
           d == TakeEdges(Top.right, e)
           lefts == Refiltered(Top.left)
<1>1. FrameTakes(EdgesLoad(r), lefts, d)
  BY DEF TakeEdgesLoad
<1>2. e \in {NoRun, r} /\ e \in MaybeRun
  BY DEF MaybeRun
<1> HIDE DEF e
<1>3. n = EdgesLoad(r)
  BY <1>1, FrameTakesSame
<1>4. Below /\ IsFrame(Top) /\ FrameWaits(Top, n) /\ FrameOfRun(Top)
  BY <1>3, AnsweringTypes, AskingTypes, TopGood DEF EdgesLoad, Answering, TuiInv, GoodFrame
<1>5. /\ PastSettled(Top) /\ PaneSettled(Top.left) /\ Top.run = r
      /\ Top.right # NoDetail /\ DetailOwn(Top)
  BY <1>3, <1>4 DEF FrameWaits, EdgesLoad, OverviewLoad
<1>6. /\ d \in Detail /\ d.run = Top.run /\ d.src.run = Top.run
      /\ d.edges \in {NoRun, Top.run} /\ d.loaded
  BY <1>2, <1>4, <1>5 DEF TakeEdges, Detail, DetailOwn, FrameOfRun, FrameScreen
<1>7. ASSUME NEW p \in lefts PROVE GoodPane(p) /\ p.run = Top.run /\ PaneSettled(p)
  BY <1>4, <1>5, <1>7, RefilteredGood, RefilteredSettles DEF FrameOfRun
<1> HIDE DEF d, lefts
<1> QED BY <1>1, <1>4, <1>5, <1>6, <1>7, FrameTakesSettles

LEMMA TakeScopesLoadSettles ==
  ASSUME TuiInv, TuiInv', NEW n, msgs = One(n), ~bar.open, Answering(n) \/ Asking(n),
         NEW ok \in BOOLEAN, TakeScopesLoad(ok), UNCHANGED <<bar, asked, over>>
  PROVE  PatientInv'
<1>1. n = ScopesLoad
  BY TakeSame, FrameTakesSame DEF TakeScopesLoad
<1>2. Below /\ Top.scr = "scopes"
  BY <1>1, AnsweringTypes, AskingTypes DEF ScopesLoad, Answering, TuiInv
<1> DEFINE s == [Top EXCEPT !.rows = IF ok THEN "loaded" ELSE "failed"]
<1>3. Take(ScopesLoad, None) /\ OnTop(s)
  BY <1>2 DEF TakeScopesLoad
<1>4. Top \in ScopesScreen
  BY <1>2, TopGood, ScreenKinds DEF TuiInv
<1>5. s.scr = "scopes" /\ s.rows # "loading"
  BY <1>4 DEF ScopesScreen
<1> HIDE DEF s
<1>6. Below' /\ Top' = s /\ Settled(s)
  BY <1>2, <1>3, <1>5, OnTopBelow, SettledKinds DEF TuiInv
<1>7. AllSettled'
  BY <1>6, TopSettles DEF TuiInv
<1> QED BY <1>3, <1>7, IsBags, TakeOne, ToIdle

LEMMA TakeRunsLoadSettles ==
  ASSUME TuiInv, TuiInv', NEW n, msgs = One(n), ~bar.open, Answering(n) \/ Asking(n),
         NEW p \in Scope, NEW ok \in BOOLEAN, TakeRunsLoad(p, ok),
         UNCHANGED <<bar, asked, over>>
  PROVE  PatientInv'
<1>1. n = RunsLoad(p)
  BY TakeSame, FrameTakesSame DEF TakeRunsLoad
<1>2. Below /\ Top.scr = "history" /\ Top.scope = p
  BY <1>1, AnsweringTypes, AskingTypes DEF RunsLoad, Answering, TuiInv
<1> DEFINE s == [Top EXCEPT !.loaded = TRUE, !.rows = IF ok THEN RunsOf(p) ELSE {}]
<1>3. Take(RunsLoad(p), None) /\ OnTop(s)
  BY <1>2 DEF TakeRunsLoad
<1>4. Top \in HistoryScreen
  BY <1>2, TopGood, ScreenKinds DEF TuiInv
<1>5. s.scr = "history" /\ s.loaded /\ s.rows \in {{}, RunsOf(p)} /\ s.scope = p
  BY <1>2, <1>4 DEF HistoryScreen
<1> HIDE DEF s
<1>6. Below' /\ Top' = s /\ Settled(s)
  BY <1>2, <1>3, <1>5, OnTopBelow, SettledKinds DEF TuiInv
<1>7. AllSettled'
  BY <1>6, TopSettles DEF TuiInv
<1> QED BY <1>3, <1>7, IsBags, TakeOne, ToIdle

LEMMA ScreenMessageSettles ==
  ASSUME TuiInv, TuiInv', NEW n, msgs = One(n), ~bar.open, Answering(n) \/ Asking(n),
         ScreenMessage
  PROVE  PatientInv'
<1>1. Succeeds \subseteq BOOLEAN
  BY DEF Succeeds
<1>2. \A k \in Kind : \A i \in {0} \cup UNION {Rows(r, k) : r \in Run} : i \in Nat
  BY RowsAreNat
<1>3. UNCHANGED <<bar, asked, over>>
  BY DEF ScreenMessage, BarSwallows
<1> QED
  BY <1>1, <1>2, <1>3, TakeSwapSettles, TakeScopesLoadSettles, TakeRunsLoadSettles,
     TakeOverviewLoadSettles, TakeEdgesLoadSettles, TakeRowsLoadSettles
  DEF ScreenMessage, BarSwallows

-----------------------------------------------------------------------------
(***************************************************************************)
(* Keys, of which there are none until nothing is pending.                 *)
(***************************************************************************)
LEMMA OnlyReturnsSettles ==
  ASSUME Press, msgs = EmptyBag, ~bar.open, AllSettled,
         NEW m, OnlyReturns(One(m)),
         m.type \in {"push", "pop", "popThenSwitch"},
         m.type = "push" => Fresh(m.screen),
         m.type \in {"pop", "popThenSwitch"} => Len(stack) > 1
  PROVE  PatientInv'
<1>1. msgs' = One(m)
  BY IsBags, ReturnOne DEF OnlyReturns
<1> QED BY <1>1, SameSettled, ToAsking DEF OnlyReturns, Press

\* Handlers of the Frame on top: no load; a load; the Detail follows.
LEMMA FrameStays ==
  ASSUME TuiInv, TuiInv', Press, msgs = EmptyBag, AllSettled, IsFrame(Top),
         NEW f, GoodFrame(f), FrameSettled(f), FrameBecomes(f, None)
  PROVE  PatientInv'
<1>1. Settled(f)
  BY FrameIsGood, SettledKinds
<1>2. Below' /\ Top' = f
  BY TopLast, OnTopBelow DEF TuiInv, FrameBecomes
<1>3. AllSettled'
  BY <1>1, <1>2, TopSettles DEF TuiInv
<1>4. msgs' = None
  BY NoneIsBag, ReturnOne DEF FrameBecomes
<1> QED BY <1>3, <1>4, ToIdle DEF FrameBecomes, Press

LEMMA FrameLoads ==
  ASSUME TuiInv, Press, msgs = EmptyBag, ~bar.open, AllSettled, IsFrame(Top),
         NEW f, GoodFrame(f), NEW m, FrameWaits(f, m), FrameBecomes(f, One(m))
  PROVE  PatientInv'
<1>1. Waits(f, m)
  BY FrameIsGood, WaitsKinds
<1>2. Below' /\ Top' = f
  BY TopLast, OnTopBelow DEF TuiInv, FrameBecomes
<1>3. msgs' = One(m)
  BY IsBags, ReturnOne DEF FrameBecomes
<1> QED BY <1>1, <1>2, <1>3, ToAnswering DEF FrameBecomes, Press

LEMMA FrameSyncs ==
  ASSUME TuiInv, Press, msgs = EmptyBag, ~bar.open, AllSettled, IsFrame(Top),
         NEW f, FrameOfRun(f), FrameSettled(f), FrameBecomes(Synced(f), SyncLoads(f))
  PROVE  PatientInv'
<1>1. Below
  BY TopLast DEF TuiInv
<1>2. msgs' = SyncLoads(f)
  BY SyncLoadsGood, ReturnOne DEF FrameBecomes, GoodBag, BagOver
<1> QED BY <1>1, <1>2, SyncStep DEF FrameBecomes, Press

LEMMA BarKeysSettle ==
  ASSUME msgs = EmptyBag, AllSettled,
         QuitKey \/ OpenBar \/ TypeInBar \/ BarEsc \/ BarEnter
  PROVE  PatientInv'
<1>1. AllSettled' /\ ~over'
  BY SameSettled DEF QuitKey, OpenBar, TypeInBar, BarEsc, BarEnter, Press
<1>2. CASE UNCHANGED msgs
  BY <1>1, <1>2, NoneIsBag, ToIdle
<1>3. CASE QuitKey /\ ~bar.open
  <2>1. msgs' = One(Quit)
    BY <1>3, IsBags, ReturnOne DEF QuitKey
  <2>2. asked' # "no" /\ ~bar'.open
    BY <1>3 DEF QuitKey
  <2> QED BY <1>1, <2>1, <2>2, ToAsking DEF Quit
<1>4. CASE BarEnter
  <2>1. ~bar'.open
    BY <1>4 DEF BarEnter, Closed
  <2>2. PICK m : Return(One(m)) /\ m.type \in {"scopesAlias", "submit", "jump"}
    <3>1. CASE Return(One(OpenScopesModal))
      <4>1. OpenScopesModal.type = "scopesAlias"
        BY DEF OpenScopesModal
      <4> QED BY <3>1, <4>1
    <3>2. CASE \E k \in Kind : Return(One(Submit(k)))
      <4>1. PICK k \in Kind : Return(One(Submit(k)))
        BY <3>2
      <4>2. Submit(k).type = "submit"
        BY DEF Submit
      <4> QED BY <4>1, <4>2
    <3>3. CASE \E k \in Kind : \E i \in Rows(bar.run, k) : Return(One(JumpTo(k, i)))
      <4>1. PICK k \in Kind : \E i \in Rows(bar.run, k) : Return(One(JumpTo(k, i)))
        BY <3>3
      <4> PICK i \in Rows(bar.run, k) : Return(One(JumpTo(k, i)))
        BY <4>1
      <4>2. JumpTo(k, i).type = "jump"
        BY DEF JumpTo
      <4> QED BY <4>2
    <3> QED BY <1>4, <3>1, <3>2, <3>3 DEF BarEnter
  <2>3. msgs' = One(m)
    BY <2>2, IsBags, ReturnOne
  <2> QED BY <1>1, <2>1, <2>2, <2>3, ToAsking
<1> QED BY <1>2, <1>3, <1>4 DEF QuitKey, OpenBar, TypeInBar, BarEsc

LEMMA OtherKeysSettle ==
  ASSUME TuiInv, msgs = EmptyBag, AllSettled,
         ScopesEnter \/ ScopesHistory \/ ScopesEsc \/ HistoryEnter \/ HistoryEsc \/ GraphEsc
  PROVE  PatientInv'
<1>0. Press /\ ~bar.open
  BY DEF ScopesEnter, ScopesHistory, ScopesEsc, HistoryEnter, HistoryEsc, GraphEsc, OnScreen
<1>1. Top.scr # "scopes" \/ Top.modal => Len(stack) > 1
  BY TopGood DEF TuiInv, GoodStack, RootStays, Top
<1>2. CASE ScopesEnter
  <2>1. PICK r \in Latest :
          IF Top.modal THEN OnlyReturns(One(PopThenSwitch(r)))
                       ELSE RoomToPush /\ OnlyReturns(One(Push(NewFrame(r))))
    BY <1>2 DEF ScopesEnter
  <2>2. Push(NewFrame(r)).type = "push" /\ Fresh(Push(NewFrame(r)).screen)
    BY DEF Push, Fresh, NewFrame
  <2>3. PopThenSwitch(r).type = "popThenSwitch"
    BY DEF PopThenSwitch
  <2> QED BY <1>0, <1>1, <2>1, <2>2, <2>3, OnlyReturnsSettles
<1>3. CASE ScopesHistory
  <2>1. PICK r \in Latest : OnlyReturns(One(Push(NewRunHistory(ScopeOf[r]))))
    BY <1>3 DEF ScopesHistory
  <2> DEFINE m == Push(NewRunHistory(ScopeOf[r]))
  <2>2. m.type = "push" /\ Fresh(m.screen)
    BY DEF Push, Fresh, NewRunHistory
  <2> HIDE DEF m
  <2> QED BY <1>0, <2>1, <2>2, OnlyReturnsSettles DEF m
<1>4. CASE ScopesEsc \/ HistoryEsc \/ GraphEsc
  <2>1. OnlyReturns(One(Pop)) /\ Len(stack) > 1
    BY <1>1, <1>4 DEF ScopesEsc, HistoryEsc, GraphEsc, OnScreen
  <2>2. Pop.type = "pop"
    BY DEF Pop
  <2> QED BY <1>0, <2>1, <2>2, OnlyReturnsSettles
<1>5. CASE HistoryEnter
  <2>1. PICK r \in Top.rows : OnlyReturns(One(PopThenSwitch(r)))
    BY <1>5 DEF HistoryEnter
  <2>2. PopThenSwitch(r).type = "popThenSwitch" /\ Len(stack) > 1
    BY <1>1, <1>5 DEF PopThenSwitch, HistoryEnter, OnScreen
  <2> QED BY <1>0, <2>1, <2>2, OnlyReturnsSettles
<1> QED BY <1>2, <1>3, <1>4, <1>5

LEMMA FrameKeysSettle ==
  ASSUME TuiInv, TuiInv', msgs = EmptyBag, AllSettled, IsFrame(Top),
         \/ FrameTab \/ FrameEnterKind \/ FrameEnterRow \/ FrameEsc
         \/ FrameGraph \/ FrameHistory \/ FrameLeftKey \/ FrameOtherKey
  PROVE  PatientInv'
<1>0. GoodFrame(Top) /\ FrameOfRun(Top) /\ GoodPane(Top.left) /\ FrameSettled(Top)
  BY TopGood, TopLast, SettledKinds DEF TuiInv, GoodFrame, FrameOfRun
<1>1. Press /\ ~bar.open
  BY DEF FrameTab, FrameEnterKind, FrameEnterRow, FrameEsc, FrameGraph, FrameHistory,
         FrameLeftKey, FrameOtherKey, FrameKey, OnScreen
<1>2. Len(stack) > 1
  BY TopGood DEF TuiInv, GoodStack, RootStays, Top, IsFrame
<1>3. CASE FrameTab
  BY <1>0, <1>1, <1>3, ToggledGood, ToggledSettles, FrameStays DEF FrameTab
<1>4. CASE FrameEnterKind
  <2>1. PICK k \in SelectedKinds(Top.left) :
          FrameBecomes(Drilled(Top, k), One(RowsLoad(Top.run, k)))
    BY <1>4 DEF FrameEnterKind
  <2>2. k \in Kind
    BY DEF SelectedKinds, Stats
  <2> QED BY <1>0, <1>1, <2>1, <2>2, DrilledGood, DrilledWaits, FrameLoads
<1>5. CASE FrameEnterRow
  BY <1>0, <1>1, <1>5, ZoomFocusGood, FlagsSettle, FrameStays DEF FrameEnterRow
<1>6. CASE FrameEsc
  <2>1. CASE Top.zoomed
    BY <1>0, <1>1, <1>6, <2>1, ZoomFocusGood, FlagsSettle, FrameStays DEF FrameEsc
  <2>2. CASE ~Top.zoomed /\ Top.leftHistory # <<>>
    BY <1>0, <1>1, <1>6, <2>2, RestoredGood, RestoredSettles, FrameStays DEF FrameEsc
  <2>3. CASE ~Top.zoomed /\ Top.leftHistory = <<>>
    <3>1. OnlyReturns(One(Pop)) /\ Pop.type = "pop"
      BY <1>6, <2>3 DEF FrameEsc, Pop
    <3> QED BY <1>1, <1>2, <3>1, OnlyReturnsSettles
  <2> QED BY <2>1, <2>2, <2>3
<1>7. CASE FrameGraph
  <2> DEFINE m == Push(NewGraphView(Top.right))
  <2>1. OnlyReturns(One(m)) /\ Top.right.loaded
    BY <1>0, <1>7 DEF FrameGraph, FrameSettled
  <2>2. m.type = "push" /\ Fresh(m.screen)
    BY <2>1 DEF Push, Fresh, NewGraphView
  <2> HIDE DEF m
  <2> QED BY <1>1, <2>1, <2>2, OnlyReturnsSettles
<1>8. CASE FrameHistory
  <2> DEFINE m == Push(NewRunHistory(ScopeOf[Top.run]))
  <2>1. OnlyReturns(One(m))
    BY <1>8 DEF FrameHistory
  <2>2. m.type = "push" /\ Fresh(m.screen)
    BY DEF Push, Fresh, NewRunHistory
  <2> HIDE DEF m
  <2> QED BY <1>1, <2>1, <2>2, OnlyReturnsSettles
<1>9. CASE FrameLeftKey
  <2>1. PICK p \in LeftKeys(Top.left) :
          FrameBecomes(Synced([Top EXCEPT !.left = p]), SyncLoads([Top EXCEPT !.left = p]))
    BY <1>9 DEF FrameLeftKey
  <2>2. GoodPane(p) /\ p.run = Top.run /\ PaneSettled(p)
    BY <1>0, LeftKeysGood, LeftKeysSettle DEF FrameOfRun, FrameSettled
  <2> QED BY <1>0, <1>1, <2>1, <2>2, LeftReplaced, LeftSettles, FrameSyncs
<1>10. CASE FrameOtherKey
  BY <1>0, <1>1, <1>10, FrameSyncs DEF FrameOtherKey
<1> QED BY <1>3, <1>4, <1>5, <1>6, <1>7, <1>8, <1>9, <1>10

-----------------------------------------------------------------------------
(***************************************************************************)
(* The invariant of a patient user, and what it says.                      *)
(***************************************************************************)
LEMMA NothingToTake ==
  ASSUME msgs = EmptyBag
  PROVE  ~AppMessage /\ ~ScreenMessage
<1>1. \A m, cmds : ~Take(m, cmds)
  BY TakeNone
<1>2. DOMAIN msgs = {}
  BY DEF EmptyBag, SetToBag
<1>3. \A m, lefts, d : ~FrameTakes(m, lefts, d)
  BY <1>1 DEF FrameTakes
<1>4. ~AppMessage
  <2>1. \A r : ~PopInSequence(r) /\ ~SwitchOnTop(r)
    BY <1>1 DEF PopInSequence, SwitchOnTop
  <2> QED BY <1>1, <1>2, <2>1
          DEF AppMessage, PopScreen, SubmitScopes, SubmitAlias, SubmitJump, TakeQuit
<1>5. ~ScreenMessage
  <2>1. \A k, i : ~TakeSwap(k, i)
    BY <1>1 DEF TakeSwap
  <2>2. \A s, ok : ~TakeScopesLoad(ok) /\ ~TakeRunsLoad(s, ok)
    BY <1>1, <1>3 DEF TakeScopesLoad, TakeRunsLoad
  <2>3. \A r, k, ok : ~TakeOverviewLoad(r, ok) /\ ~TakeEdgesLoad(r, ok) /\ ~TakeRowsLoad(r, k, ok)
    BY <1>3 DEF TakeOverviewLoad, TakeEdgesLoad, TakeRowsLoad
  <2> QED BY <1>2, <2>1, <2>2, <2>3 DEF ScreenMessage, BarSwallows
<1> QED BY <1>4, <1>5

LEMMA NotAKey ==
  ASSUME Patient, NEW n, msgs = One(n)
  PROVE  ~Key /\ ~Tick
<1>1. ~Press
  BY OneDomain DEF Press
<1> QED BY <1>1
     DEF Key, Tick, QuitKey, OpenBar, TypeInBar, BarEsc, BarEnter, ScopesEnter,
         ScopesHistory, ScopesEsc, HistoryEnter, HistoryEsc, GraphEsc, FrameTab,
         FrameEnterKind, FrameEnterRow, FrameEsc, FrameGraph, FrameHistory, FrameLeftKey,
         FrameOtherKey, FrameKey, OnScreen

LEMMA InitPatient ==
  ASSUME Init
  PROVE  PatientInv
<1> DEFINE s == NewScopes(FALSE)
<1>1. Len(stack) = 1 /\ Top = s /\ s.scr = "scopes"
  BY DEF Init, Top, NewScopes
<1>2. Below
  BY <1>1 DEF Below
<1>3. msgs = One(ScopesLoad)
  BY <1>1 DEF Init, InitOf
<1>4. Waits(Top, ScopesLoad)
  BY <1>1, WaitsKinds
<1> QED BY <1>2, <1>3, <1>4, OneDomain DEF PatientInv, Answering, Init

LEMMA NextPatient ==
  ASSUME Patient, TuiInv, TuiInv', PatientInv, [Next]_vars
  PROVE  PatientInv'
<1>1. CASE msgs = EmptyBag /\ AllSettled
  <2>1. ~AppMessage /\ ~ScreenMessage /\ ~Tick
    BY <1>1, NothingToTake DEF Tick
  <2>2. CASE Key /\ IsFrame(Top)
    BY <1>1, <2>2, BarKeysSettle, OtherKeysSettle, FrameKeysSettle DEF Key
  <2>3. CASE Key /\ ~IsFrame(Top)
    BY <1>1, <2>3, BarKeysSettle, OtherKeysSettle
    DEF Key, IsFrame, OnScreen, FrameKey, FrameTab, FrameEnterKind, FrameEnterRow,
        FrameEsc, FrameGraph, FrameHistory, FrameLeftKey, FrameOtherKey
  <2>4. CASE UNCHANGED vars
    <3>1. AllSettled' /\ msgs' = None /\ (over' => asked' # "no")
      BY <1>1, <2>4, SameSettled, NoneIsBag DEF vars, PatientInv
    <3> QED BY <3>1, ToIdle
  <2> QED BY <2>1, <2>2, <2>3, <2>4 DEF Next
<1>2. ASSUME NEW n, msgs = One(n), ~bar.open, Answering(n) \/ Asking(n)
      PROVE  PatientInv'
  <2>1. ~Key /\ ~Tick
    BY <1>2, NotAKey
  <2>2. CASE AppMessage
    BY <1>2, <2>2, AppMessageSettles
  <2>3. CASE ScreenMessage
    BY <1>2, <2>3, ScreenMessageSettles
  <2>4. CASE UNCHANGED vars
    BY <2>4 DEF vars, PatientInv, AllSettled, Answering, Asking, Below, Top
  <2> QED BY <2>1, <2>2, <2>3, <2>4 DEF Next
<1> QED BY <1>1, <1>2 DEF PatientInv

\* While the user waits for nothing to be pending before a key, at most one
\* message is pending, and it is for the screen on top or sets about a change
\* of screens all of whose loads have come.
THEOREM PatientInvariant == Patient => (Spec => []PatientInv)
<1> SUFFICES ASSUME Patient PROVE Spec => []PatientInv
  OBVIOUS
<1>1. Init => PatientInv
  BY InitPatient
<1>2. TuiInv /\ TuiInv' /\ PatientInv /\ [Next]_vars => PatientInv'
  BY NextPatient
<1> QED BY <1>1, <1>2, TuiInvariant, PTL DEF Spec

\* One screen of the stack.
LEMMA EachScreen ==
  ASSUME TuiInv, PatientInv, NEW i \in 1 .. Len(stack)
  PROVE  /\ stack[i] \in Screen
         /\ IsFrame(stack[i]) => GoodFrame(stack[i])
         /\ Settled(stack[i]) \/ (msgs # EmptyBag /\ \E m : Waits(stack[i], m))
<1>1. stack[i] \in GoodScreens
  BY ElementOfSeq DEF TuiInv, GoodStack
<1>2. ASSUME NEW m, Answering(m)
      PROVE  Settled(stack[i]) \/ \E n : Waits(stack[i], n)
  <2>1. Len(stack) \in Nat
    BY TopGood DEF TuiInv
  <2>2. CASE i = Len(stack)
    BY <1>2, <2>2 DEF Answering, Top
  <2>3. CASE i # Len(stack)
    BY <1>2, <2>1, <2>3 DEF Answering, Below
  <2> QED BY <2>2, <2>3
<1>3. Settled(stack[i]) \/ (msgs # EmptyBag /\ \E m : Waits(stack[i], m))
  BY <1>2, OneDomain DEF PatientInv, AllSettled, Asking
<1> QED BY <1>1, <1>3 DEF GoodScreens

\* A screen that is not settled, by its kind.
LEMMA WaitingKinds ==
  ASSUME NEW s, NEW m, Waits(s, m)
  PROVE  /\ s.scr = "history" => s.rows = {}
         /\ s.scr # "graph"
         /\ IsFrame(s) => /\ PastSettled(s) /\ DetailOwn(s)
                          /\ PaneSettled(s.left) \/ s.left.src = Nothing
<1>1. s.scr = "history" => s.rows = {}
  BY WaitsKinds
<1>2. s.scr # "graph"
  BY DEF Waits
<1>3. ASSUME IsFrame(s)
      PROVE  /\ PastSettled(s) /\ DetailOwn(s)
             /\ PaneSettled(s.left) \/ s.left.src = Nothing
  <2>1. FrameWaits(s, m)
    BY <1>3, WaitsKinds
  <2>2. \A r, k, i : NewOverview(r).src = Nothing /\ NewResourceList(r, k, i).src = Nothing
    BY DEF NewOverview, NewResourceList
  <2> QED BY <2>1, <2>2 DEF FrameWaits, DetailOwn
<1> QED BY <1>1, <1>2, <1>3

\* What holds of each part of a Frame, whether it is settled or waits.
LEMMA FrameParts ==
  ASSUME TuiInv, PatientInv, NEW f \in Frames
  PROVE  /\ f \in FrameScreen /\ DetailOwn(f)
         /\ \A p \in PanesOf(f) : GoodPane(p) /\ (PaneSettled(p) \/ p.src = Nothing)
         /\ msgs = EmptyBag => FrameSettled(f)
<1>1. PICK i \in 1 .. Len(stack) : f = stack[i] /\ IsFrame(stack[i])
  BY DEF Frames
<1>2. GoodFrame(f) /\ IsFrame(f)
  BY <1>1, EachScreen
<1>3. FrameSettled(f) \/ (msgs # EmptyBag /\ \E m : Waits(f, m))
  BY <1>1, <1>2, EachScreen, SettledKinds
<1>4. PastSettled(f) /\ DetailOwn(f) /\ (PaneSettled(f.left) \/ f.left.src = Nothing)
  BY <1>2, <1>3, WaitingKinds DEF FrameSettled
<1>5. f \in FrameScreen /\ \A p \in PanesOf(f) : GoodPane(p)
  BY <1>2 DEF GoodFrame, FrameOfRun, PanesOf
<1> QED BY <1>3, <1>4, <1>5 DEF PastSettled, PanesOf

\* When a user who waits finds nothing pending, no part says "loading...":
\* every answer has reached the part that asked, although a message names
\* neither its sender nor its addressee.
THEOREM LoadsReachTheirOwner == Patient => (Spec => []EveryLoadArrives)
<1> SUFFICES ASSUME Patient PROVE Spec => []EveryLoadArrives
  OBVIOUS
<1>1. TuiInv /\ PatientInv => EveryLoadArrives
  <2> SUFFICES ASSUME TuiInv, PatientInv, Idle PROVE EveryLoadArrives
    BY DEF EveryLoadArrives
  <2>1. ASSUME NEW i \in 1 .. Len(stack)
        PROVE  /\ stack[i].scr = "scopes" => stack[i].rows # "loading"
               /\ stack[i].scr = "history" => stack[i].loaded
    BY EachScreen, SettledKinds DEF Idle
  <2>2. ASSUME NEW f \in Frames
        PROVE  /\ \A p \in PanesOf(f) : p.loaded
               /\ f.right # NoDetail => f.right.loaded
    <3>1. FrameSettled(f)
      BY FrameParts DEF Idle
    <3> QED BY <3>1 DEF FrameSettled, PastSettled, PaneSettled, PanesOf
  <2> QED BY <2>1, <2>2 DEF EveryLoadArrives
<1> QED BY <1>1, TuiInvariant, PatientInvariant, PTL

\* For a user who waits, no part ever shows the rows, the runs or the edges
\* of another one, at whatever point of a load it is looked at.
THEOREM PartsAreTheirOwn == Patient => (Spec => []PartsShowTheirOwn)
<1> SUFFICES ASSUME Patient PROVE Spec => []PartsShowTheirOwn
  OBVIOUS
<1>1. TuiInv /\ PatientInv => PartsShowTheirOwn
  <2> SUFFICES ASSUME TuiInv, PatientInv PROVE PartsShowTheirOwn
    OBVIOUS
  <2>1. ASSUME NEW i \in 1 .. Len(stack), stack[i].scr = "history"
        PROVE  stack[i].rows \in {{}, RunsOf(stack[i].scope)}
    BY <2>1, EachScreen, SettledKinds, WaitingKinds
  <2>2. ASSUME NEW f \in Frames
        PROVE  /\ \A p \in PanesOf(f) :
                    p.src \in {Nothing, [run |-> p.run, kind |-> p.kind]}
               /\ f.right # NoDetail => /\ f.right.src.run = f.run
                                        /\ f.right.edges \in {NoRun, f.run}
    BY FrameParts DEF PaneSettled, DetailOwn
  <2> QED BY <2>1, <2>2 DEF PartsShowTheirOwn
<1> QED BY <1>1, TuiInvariant, PatientInvariant, PTL

\* For a user who waits, the cursor is on the row the palette asked for as
\* soon as the list has it, until the user moves, filters or sorts.
THEOREM JumpsLand == Patient => (Spec => []JumpLands)
<1> SUFFICES ASSUME Patient PROVE Spec => []JumpLands
  OBVIOUS
<1>1. TuiInv /\ PatientInv => JumpLands
  <2> SUFFICES ASSUME TuiInv, PatientInv, NEW f \in Frames, NEW p \in PanesOf(f),
                      p.goal # 0, p.src = [run |-> p.run, kind |-> p.kind],
                      p.goal \in Rows(p.run, p.kind)
               PROVE  p.cursor = p.goal
    BY DEF JumpLands
  <2>1. GoodPane(p) /\ (PaneSettled(p) \/ p.src = Nothing)
    BY FrameParts
  <2>2. p.src # Nothing
    <3>1. p.run # NoRun
      BY <2>1, PanesAssumption DEF GoodPane, Pane
    <3>2. p.src.run # Nothing.run
      BY <3>1 DEF Nothing
    <3> QED BY <3>2
  <2>3. Answered(p.src) = Rows(p.run, p.kind)
    BY <2>2 DEF Answered
  <2> QED BY <2>1, <2>2, <2>3 DEF PaneSettled
<1> QED BY <1>1, TuiInvariant, PatientInvariant, PTL

\* For a user who waits, no sequence of keys but the quit key ends the
\* program: a pop never finds the root on top.
THEOREM EndsWhenAsked == Patient => (Spec => []EndsOnlyWhenAsked)
<1> SUFFICES ASSUME Patient PROVE Spec => []EndsOnlyWhenAsked
  OBVIOUS
<1>1. PatientInv => EndsOnlyWhenAsked
  BY DEF PatientInv, EndsOnlyWhenAsked
<1> QED BY <1>1, PatientInvariant, PTL

\* For a user who waits, a graph is drawn from edges that had been loaded:
\* GraphView ignores the answer of a query that comes later.
THEOREM GraphsAreLoaded == Patient => (Spec => []GraphIsLoaded)
<1> SUFFICES ASSUME Patient PROVE Spec => []GraphIsLoaded
  OBVIOUS
<1>1. TuiInv /\ PatientInv => GraphIsLoaded
  BY EachScreen, SettledKinds, WaitingKinds DEF GraphIsLoaded
<1> QED BY <1>1, TuiInvariant, PatientInvariant, PTL
=============================================================================
