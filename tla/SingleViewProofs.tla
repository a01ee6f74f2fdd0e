-------------------------- MODULE SingleViewProofs --------------------------
(***************************************************************************)
(* Proofs about SingleView: for every set of runs and kinds, every bound   *)
(* and every user, its variables have their types, and the panes below the *)
(* scope are of the run the view says it shows; and for a user who waits   *)
(* until nothing is pending, the cascade reaches the bottom and each pane  *)
(* shows what it was built for.                                            *)
(*                                                                         *)
(* That the panes are of one run holds in any order of the messages, so    *)
(* the first invariant, SvInv, is about the record sv alone: of msgs it    *)
(* says only that it is a bag.  The second, CascadeInv, says which         *)
(* messages may be pending in each phase of the cascade.                   *)
(***************************************************************************)
EXTENDS SingleView, TuiLemmas

(***************************************************************************)
(* The invariant.                                                          *)
(***************************************************************************)
ScopesPane == [loaded : BOOLEAN, rows : SUBSET Run, cursor : MaybeRun, last : MaybeRun]

SingleViews ==
  [scopes : ScopesPane, run : MaybeRun,
   overview : Pane \cup {NoPane}, picked : MaybeKind,
   list : Pane \cup {NoPane}, listFor : MaybeKind,
   detail : Detail, detailFor : Selection, focus : Panel, wanted : MaybeKind]

GoodOverview(w) ==
  w.overview # NoPane =>
    GoodPane(w.overview) /\ IsOverview(w.overview) /\ w.overview.run = w.run

GoodList(w) ==
  /\ w.list # NoPane =>
       GoodPane(w.list) /\ ~IsOverview(w.list) /\ w.list.run = w.run
  /\ w.list.kind = w.listFor

GoodDetail(w) == w.detail # NoDetail => w.detail.run = w.run

GoodSv(w) == w \in SingleViews /\ GoodOverview(w) /\ GoodList(w) /\ GoodDetail(w)

SvInv ==
  /\ GoodSv(sv)
  /\ above \in {"none", "graph", "scopes", "scopesLoaded"}
  /\ corpus \in MaybeRun
  /\ {bar, over} \subseteq BOOLEAN
  /\ IsABag(msgs)

-----------------------------------------------------------------------------
(***************************************************************************)
(* Bags of sequences.                                                      *)
(***************************************************************************)
LEMMA EmptyIsABag == IsABag(EmptyBag)
BY DEF EmptyBag, SetToBag, IsABag

LEMMA InOrderIsABag ==
  ASSUME NEW s
  PROVE  IsABag(InOrder(s))
BY EmptyIsABag DEF InOrder, None, SetToBag, IsABag

LEMMA AddIsABag ==
  ASSUME NEW B, NEW C, IsABag(B), IsABag(C)
  PROVE  IsABag(B (+) C)
<1>1. BagOver(B, DOMAIN B \cup DOMAIN C) /\ BagOver(C, DOMAIN B \cup DOMAIN C)
  BY DEF BagOver
<1> QED BY <1>1, AddBag DEF BagOver

LEMMA LoadsIsABag ==
  ASSUME NEW m, NEW f
  PROVE  IsABag(One(m)) /\ IsABag(Loads(m, f))
BY InOrderIsABag, AddIsABag DEF One, Loads

\* Taking a message, and returning some.
LEMMA TakeIsABag ==
  ASSUME IsABag(msgs), NEW m, NEW cmds, IsABag(cmds), Take(m, cmds)
  PROVE  IsABag(msgs')
<1>1. PICK q \in DOMAIN msgs :
        msgs' = (msgs (-) SetToBag({q})) (+) InOrder(Tail(q)) (+) cmds
  BY DEF Take
<1>2. IsABag(SetToBag({q}))
  BY DEF SetToBag, IsABag
<1>3. BagOver(msgs, DOMAIN msgs)
  BY DEF BagOver
<1>4. IsABag(msgs (-) SetToBag({q}))
  BY <1>2, <1>3, DropBag DEF BagOver
<1>5. IsABag((msgs (-) SetToBag({q})) (+) InOrder(Tail(q)))
  BY <1>4, InOrderIsABag, AddIsABag
<1> QED BY <1>1, <1>5, AddIsABag

LEMMA ReturnIsABag ==
  ASSUME IsABag(msgs), NEW cmds, IsABag(cmds), Return(cmds)
  PROVE  IsABag(msgs')
BY AddIsABag DEF Return

-----------------------------------------------------------------------------
(***************************************************************************)
(* What the handlers do to a SingleView.                                   *)
(***************************************************************************)
LEMMA NoPaneFields ==
  NoPane.kind = NoKind /\ NoPane.run = NoRun /\ NoPane.src = Nothing
BY DEF NoPane, NewOverview

LEMMA NoSelectionType == NoSelection \in Selection
BY DEF NoSelection, Selection, Nothing, Source, MaybeRun, MaybeKind

LEMMA NewSingleViewGood == GoodSv(NewSingleView)
<1>1. NewSingleView \in SingleViews
  BY NoDetailType, NoSelectionType
     DEF NewSingleView, SingleViews, ScopesPane, MaybeRun, MaybeKind, Panel
<1> QED BY <1>1, NoPaneFields
        DEF GoodSv, GoodOverview, GoodList, GoodDetail, NewSingleView

LEMMA SyncedGood ==
  ASSUME NEW w, GoodSv(w)
  PROVE  GoodSv(Synced(w))
<1>1. CASE ScopeMoved(w)
  <2> DEFINE n == [w EXCEPT !.scopes.last = w.scopes.cursor]
  <2>1. n \in SingleViews
    BY DEF GoodSv, SingleViews, ScopesPane
  <2>2. /\ n.run = w.run /\ n.overview = w.overview /\ n.list = w.list
        /\ n.listFor = w.listFor /\ n.detail = w.detail
    BY DEF GoodSv, SingleViews
  <2>3. GoodOverview(n) /\ GoodList(n) /\ GoodDetail(n)
    BY <2>2 DEF GoodSv, GoodOverview, GoodList, GoodDetail
  <2> QED BY <1>1, <2>1, <2>3 DEF Synced, GoodSv
<1>2. CASE ~ScopeMoved(w)
  BY <1>2 DEF Synced
<1> QED BY <1>1, <1>2

LEMMA WithoutListGood ==
  ASSUME NEW w \in SingleViews
  PROVE  LET n == WithoutList(w)
         IN  /\ n \in SingleViews
             /\ n.run = w.run /\ n.overview = w.overview
             /\ n.list = NoPane /\ n.listFor = NoKind /\ n.detail = NoDetail
BY NoDetailType, NoSelectionType DEF WithoutList, SingleViews, MaybeKind

LEMMA ScopeSelectedGood ==
  ASSUME NEW w, GoodSv(w), NEW r \in MaybeRun
  PROVE  GoodSv(ScopeSelected(w, r))
<1> DEFINE e == WithoutList(w)
           n == ScopeSelected(w, r)
           p == IF r = NoRun THEN NoPane ELSE NewOverview(r)
<1>1. e \in SingleViews /\ e.list = NoPane /\ e.listFor = NoKind /\ e.detail = NoDetail
  BY WithoutListGood DEF GoodSv
<1>2. p # NoPane => GoodPane(p) /\ IsOverview(p) /\ p.run = r
  BY NewOverviewGood DEF MaybeRun, IsOverview, NewOverview
<1>3. p \in Pane \cup {NoPane}
  BY <1>2 DEF GoodPane
<1>4. n = [e EXCEPT !.run = r, !.picked = NoKind, !.overview = p]
  BY DEF ScopeSelected
<1>5. n \in SingleViews
  BY <1>1, <1>3, <1>4 DEF SingleViews, MaybeKind
<1>6. /\ n.run = r /\ n.overview = p /\ n.list = NoPane /\ n.listFor = NoKind
      /\ n.detail = NoDetail
  BY <1>1, <1>4 DEF SingleViews
<1> QED BY <1>2, <1>5, <1>6, NoPaneFields
        DEF GoodSv, GoodOverview, GoodList, GoodDetail

LEMMA WithListGood ==
  ASSUME NEW w, GoodSv(w), w.run # NoRun, NEW k \in Kind, NEW i \in Nat
  PROVE  GoodSv(WithList(w, k, i))
<1> DEFINE e == WithoutList(w)
           p == NewResourceList(w.run, k, i)
           n == WithList(w, k, i)
<1>1. w.run \in Run
  BY DEF GoodSv, SingleViews, MaybeRun
<1>2. /\ e \in SingleViews /\ e.run = w.run /\ e.overview = w.overview
      /\ e.detail = NoDetail
  BY WithoutListGood DEF GoodSv
<1>3. GoodPane(p) /\ p.run = w.run
  BY <1>1, NewResourceListGood
<1>4. p.kind = k /\ ~IsOverview(p)
  BY PanesAssumption DEF NewResourceList, NewOverview, IsOverview
<1>5. n = [e EXCEPT !.list = p, !.listFor = k]
  BY DEF WithList
<1>6. n \in SingleViews
  BY <1>2, <1>3, <1>5 DEF SingleViews, MaybeKind, GoodPane
<1>7. /\ n.run = w.run /\ n.overview = w.overview /\ n.list = p /\ n.listFor = k
      /\ n.detail = NoDetail
  BY <1>2, <1>5 DEF SingleViews
<1> QED BY <1>3, <1>4, <1>6, <1>7 DEF GoodSv, GoodOverview, GoodList, GoodDetail

LEMMA SwappedLeftGood ==
  ASSUME NEW w, GoodSv(w), w.run # NoRun, NEW k \in Kind, NEW i \in Nat
  PROVE  GoodSv(SwappedLeft(w, k, i))
<1> DEFINE e == WithList(w, k, i)
           n == SwappedLeft(w, k, i)
<1>1. GoodSv(e)
  BY WithListGood
<1>2. n = [e EXCEPT !.focus = "list", !.wanted = k]
  BY DEF SwappedLeft
<1>3. n \in SingleViews
  BY <1>1, <1>2 DEF GoodSv, SingleViews, MaybeKind, Panel
<1>4. /\ n.run = e.run /\ n.overview = e.overview /\ n.list = e.list
      /\ n.listFor = e.listFor /\ n.detail = e.detail
  BY <1>1, <1>2 DEF GoodSv, SingleViews
<1> QED BY <1>1, <1>3, <1>4 DEF GoodSv, GoodOverview, GoodList, GoodDetail

LEMMA WithDetailGood ==
  ASSUME NEW w, GoodSv(w), NEW s \in Selection
  PROVE  GoodSv(WithDetail(w, s))
<1> DEFINE n == WithDetail(w, s)
           d == [NoDetail EXCEPT !.run = w.run, !.src = s.src,
                                 !.ref = [kind |-> s.src.kind, row |-> s.row]]
<1>1. w.run \in MaybeRun
  BY DEF GoodSv, SingleViews
<1>2. d \in Detail /\ d.run = w.run
  BY <1>1, NoDetailType DEF Selection, Source, Detail, Ref, NoDetail
<1>3. n = [w EXCEPT !.detailFor = s, !.detail = d]
  BY DEF WithDetail
<1>4. n \in SingleViews
  BY <1>2, <1>3 DEF GoodSv, SingleViews
<1>5. /\ n.run = w.run /\ n.overview = w.overview /\ n.list = w.list
      /\ n.listFor = w.listFor /\ n.detail = d
  BY <1>3 DEF GoodSv, SingleViews
<1> QED BY <1>2, <1>4, <1>5 DEF GoodSv, GoodOverview, GoodList, GoodDetail

-----------------------------------------------------------------------------
(***************************************************************************)
(* What a message or a key does to the panes: none is built.               *)
(***************************************************************************)
\* What a pane becomes when it takes a message or a key.
SamePane(p, q) ==
  q = p \/ (p # NoPane /\ GoodPane(q) /\ q.run = p.run /\ q.kind = p.kind)

LEMMA KeptGood ==
  ASSUME NEW w, GoodSv(w), NEW n \in SingleViews,
         n.run = w.run, n.listFor = w.listFor,
         SamePane(w.overview, n.overview), SamePane(w.list, n.list),
         n.detail # NoDetail => w.detail # NoDetail /\ n.detail.run = w.detail.run
  PROVE  GoodSv(n)
<1>1. GoodOverview(n)
  BY DEF SamePane, GoodSv, GoodOverview, IsOverview
<1>2. GoodList(n)
  BY DEF SamePane, GoodSv, GoodList, IsOverview
<1>3. GoodDetail(n)
  BY DEF GoodSv, GoodDetail
<1> QED BY <1>1, <1>2, <1>3 DEF GoodSv

LEMMA RefiltersSame ==
  ASSUME NEW w, GoodSv(w), NEW p \in Refilters(w.list)
  PROVE  SamePane(w.list, p) /\ p \in Pane \cup {NoPane}
BY RefilteredGood DEF Refilters, SamePane, GoodSv, GoodList, GoodPane

\* A new list pane and nothing else.
LEMMA ListKeptGood ==
  ASSUME NEW w, GoodSv(w), NEW p, SamePane(w.list, p)
  PROVE  GoodSv([w EXCEPT !.list = p])
<1> DEFINE n == [w EXCEPT !.list = p]
<1>1. p \in Pane \cup {NoPane}
  BY DEF SamePane, GoodPane, GoodSv, SingleViews
<1>2. n \in SingleViews
  BY <1>1 DEF GoodSv, SingleViews
<1>3. /\ n.run = w.run /\ n.listFor = w.listFor /\ n.overview = w.overview
      /\ n.list = p /\ n.detail = w.detail
  BY DEF GoodSv, SingleViews
<1> QED BY <1>2, <1>3, KeptGood DEF SamePane

\* Another scopes table, kind under the cursor or focus: the other panes and
\* the run stay.
LEMMA OthersGood ==
  ASSUME NEW w, GoodSv(w), NEW n \in SingleViews,
         n.run = w.run, n.listFor = w.listFor, n.overview = w.overview,
         n.list = w.list, n.detail = w.detail
  PROVE  GoodSv(n)
BY KeptGood DEF SamePane

LEMMA FirstKindType ==
  ASSUME NEW r \in Run
  PROVE  FirstKind(r) \in MaybeKind
<1>1. CASE Stats(r) = {}
  BY <1>1 DEF FirstKind, MaybeKind
<1>2. CASE Stats(r) # {}
  <2>1. \E k \in Stats(r) : \A j \in Stats(r) : Size[r][j] <= Size[r][k]
    BY <1>2, FirstKindAssumption
  <2>2. FirstKind(r) \in Stats(r)
    BY <1>2, <2>1 DEF FirstKind
  <2> QED BY <2>2 DEF Stats, MaybeKind
<1> QED BY <1>1, <1>2

LEMMA CycledGood ==
  ASSUME NEW w, GoodSv(w), NEW forward \in BOOLEAN
  PROVE  GoodSv(Cycled(w, forward))
<1> DEFINE pos   == CHOOSE i \in 1 .. 4 : FocusOrder[i] = w.focus
           At(n) == FocusOrder[1 + ((IF forward THEN pos - 1 + n ELSE pos + 3 - n) % 4)]
           first == CHOOSE i \in 1 .. 4 :
                      PaneReady(w, At(i)) /\ \A j \in 1 .. i - 1 : ~PaneReady(w, At(j))
<1>1. w.focus \in Panel
  BY DEF GoodSv, SingleViews
<1>2. \E i \in 1 .. 4 : FocusOrder[i] = w.focus
  BY <1>1 DEF Panel, FocusOrder
<1>3. pos \in 1 .. 4
  BY <1>2
<1> HIDE DEF pos
<1>4. ASSUME NEW n \in 1 .. 4 PROVE At(n) \in Panel
  <2> DEFINE y == IF forward THEN pos - 1 + n ELSE pos + 3 - n
             x == y % 4
  <2>1. y \in Int
    BY <1>3
  <2> HIDE DEF y
  <2>2. x \in 0 .. 3
    BY <2>1
  <2> HIDE DEF x
  <2>3. 1 + x \in 1 .. 4
    BY <2>2
  <2>4. FocusOrder[1 + x] \in Panel
    BY <2>3 DEF FocusOrder, Panel
  <2> QED BY <2>4 DEF x, y
<1>5. \E n \in 1 .. 4 : At(n) = "scopes"
  <2>1. CASE forward
    <3>1. CASE pos = 1
      <4>1. (1 - 1 + 4) % 4 = 0
        OBVIOUS
      <4>2. At(4) = "scopes"
        BY <2>1, <3>1, <4>1 DEF FocusOrder
      <4> QED BY <4>2
    <3>2. CASE pos = 2
      <4>1. (2 - 1 + 3) % 4 = 0
        OBVIOUS
      <4>2. At(3) = "scopes"
        BY <2>1, <3>2, <4>1 DEF FocusOrder
      <4> QED BY <4>2
    <3>3. CASE pos = 3
      <4>1. (3 - 1 + 2) % 4 = 0
        OBVIOUS
      <4>2. At(2) = "scopes"
        BY <2>1, <3>3, <4>1 DEF FocusOrder
      <4> QED BY <4>2
    <3>4. CASE pos = 4
      <4>1. (4 - 1 + 1) % 4 = 0
        OBVIOUS
      <4>2. At(1) = "scopes"
        BY <2>1, <3>4, <4>1 DEF FocusOrder
      <4> QED BY <4>2
    <3> QED BY <1>3, <3>1, <3>2, <3>3, <3>4
  <2>2. CASE ~forward
    <3>1. CASE pos = 1
      <4>1. (1 + 3 - 4) % 4 = 0
        OBVIOUS
      <4>2. At(4) = "scopes"
        BY <2>2, <3>1, <4>1 DEF FocusOrder
      <4> QED BY <4>2
    <3>2. CASE pos = 2
      <4>1. (2 + 3 - 1) % 4 = 0
        OBVIOUS
      <4>2. At(1) = "scopes"
        BY <2>2, <3>2, <4>1 DEF FocusOrder
      <4> QED BY <4>2
    <3>3. CASE pos = 3
      <4>1. (3 + 3 - 2) % 4 = 0
        OBVIOUS
      <4>2. At(2) = "scopes"
        BY <2>2, <3>3, <4>1 DEF FocusOrder
      <4> QED BY <4>2
    <3>4. CASE pos = 4
      <4>1. (4 + 3 - 3) % 4 = 0
        OBVIOUS
      <4>2. At(3) = "scopes"
        BY <2>2, <3>4, <4>1 DEF FocusOrder
      <4> QED BY <4>2
    <3> QED BY <1>3, <3>1, <3>2, <3>3, <3>4
  <2> QED BY <2>1, <2>2
<1> HIDE DEF At
<1>6. PaneReady(w, "scopes")
  BY DEF PaneReady
<1>7. \E i \in 1 .. 4 : PaneReady(w, At(i)) /\ \A j \in 1 .. i - 1 : ~PaneReady(w, At(j))
  <2> DEFINE Ready(i) == PaneReady(w, At(i))
  <2>1. Ready(1) \/ Ready(2) \/ Ready(3) \/ Ready(4)
    BY <1>5, <1>6
  <2> HIDE DEF Ready
  <2>2. \E i \in 1 .. 4 : Ready(i) /\ \A j \in 1 .. i - 1 : ~Ready(j)
    <3>1. CASE Ready(1)
      BY <3>1
    <3>2. CASE ~Ready(1) /\ Ready(2)
      <4>1. \A j \in 1 .. 2 - 1 : ~Ready(j)
        BY <3>2
      <4> QED BY <3>2, <4>1
    <3>3. CASE ~Ready(1) /\ ~Ready(2) /\ Ready(3)
      <4>1. \A j \in 1 .. 3 - 1 : j = 1 \/ j = 2
        OBVIOUS
      <4> QED BY <3>3, <4>1
    <3>4. CASE ~Ready(1) /\ ~Ready(2) /\ ~Ready(3) /\ Ready(4)
      <4>1. \A j \in 1 .. 4 - 1 : j = 1 \/ j = 2 \/ j = 3
        OBVIOUS
      <4> QED BY <3>4, <4>1
    <3> QED BY <2>1, <3>1, <3>2, <3>3, <3>4
  <2> QED BY <2>2 DEF Ready
<1>8. first \in 1 .. 4
  BY <1>7
<1>9. At(first) \in Panel
  BY <1>4, <1>8
<1>10. Cycled(w, forward) = [w EXCEPT !.focus = At(first)]
  BY DEF Cycled, pos, At
<1> HIDE DEF first
<1>11. Cycled(w, forward) \in SingleViews
  BY <1>9, <1>10 DEF GoodSv, SingleViews
<1> QED BY <1>10, <1>11, OthersGood DEF GoodSv, SingleViews

-----------------------------------------------------------------------------
(***************************************************************************)
(* Messages.                                                               *)
(***************************************************************************)
LEMMA SvInit == Init => SvInv
<1> SUFFICES ASSUME Init PROVE SvInv
  OBVIOUS
<1>1. GoodSv(sv) /\ IsABag(msgs)
  BY NewSingleViewGood, LoadsIsABag DEF Init
<1> QED BY <1>1 DEF Init, SvInv, MaybeRun

\* A message App handles: the SingleView stays.
LEMMA AppKeeps ==
  ASSUME SvInv, UNCHANGED <<sv, bar, corpus>>, IsABag(msgs'), over' \in BOOLEAN,
         above' \in {"none", "graph", "scopes", "scopesLoaded"}
  PROVE  SvInv'
<1>1. GoodSv(sv)'
  BY DEF SvInv
<1> QED BY <1>1 DEF SvInv

\* A message the SingleView handles.
LEMMA HandleKeeps ==
  ASSUME SvInv, NEW m, NEW w, GoodSv(w), NEW cmds, IsABag(cmds), Handle(m, w, cmds)
  PROVE  SvInv'
<1>1. sv' = w /\ UNCHANGED <<above, bar, corpus, over>> /\ Take(m, cmds)
  BY DEF Handle
<1>2. GoodSv(sv')
  BY <1>1
<1>3. GoodSv(sv)'
  BY <1>2
<1>4. IsABag(msgs')
  BY <1>1, TakeIsABag DEF SvInv
<1> QED BY <1>1, <1>3, <1>4 DEF SvInv

LEMMA BroadcastKeeps ==
  ASSUME SvInv, NEW m, NEW w, GoodSv(w), Broadcast(m, w)
  PROVE  SvInv'
BY SyncedGood, InOrderIsABag, HandleKeeps DEF Broadcast

LEMMA AppMessages ==
  ASSUME SvInv, PushScreen \/ PopScreen \/ TakeQuit \/ SubmitScopes \/ SubmitKind
  PROVE  SvInv'
<1>1. IsABag(None) /\ IsABag(msgs)
  BY EmptyIsABag DEF None, SvInv
<1>2. CASE PushScreen
  <2>1. PICK screen \in {"scopes", "graph"} :
          /\ Take(Push(screen), IF screen = "scopes" THEN Loads(ScopesLoad, "scopes") ELSE None)
          /\ above' = screen
          /\ UNCHANGED <<sv, bar, corpus, over>>
    BY <1>2 DEF PushScreen
  <2>2. IsABag(msgs')
    BY <1>1, <2>1, LoadsIsABag, TakeIsABag
  <2> QED BY <2>1, <2>2, AppKeeps DEF SvInv
<1>3. CASE PopScreen
  <2>1. IsABag(msgs')
    BY <1>1, <1>3, LoadsIsABag, TakeIsABag DEF PopScreen
  <2> QED BY <1>3, <2>1, AppKeeps DEF PopScreen, SvInv
<1>4. CASE TakeQuit
  <2>1. IsABag(msgs')
    BY <1>1, <1>4, TakeIsABag DEF TakeQuit
  <2> QED BY <1>4, <2>1, AppKeeps DEF TakeQuit, SvInv
<1>5. CASE SubmitScopes
  <2>1. IsABag(msgs')
    BY <1>1, <1>5, LoadsIsABag, TakeIsABag DEF SubmitScopes
  <2> QED BY <1>5, <2>1, AppKeeps DEF SubmitScopes, SvInv
<1>6. CASE SubmitKind
  <2>1. PICK k, i : Take(Submit(k, i), IF sv.run # NoRun THEN One(SwapLeft(k, i)) ELSE None)
    BY <1>6 DEF SubmitKind
  <2>2. IsABag(msgs')
    BY <1>1, <2>1, LoadsIsABag, TakeIsABag
  <2> QED BY <1>6, <2>2, AppKeeps DEF SubmitKind, SvInv
<1> QED BY <1>2, <1>3, <1>4, <1>5, <1>6

LEMMA SwitchRunKeeps ==
  ASSUME SvInv, TakeSwitchRun
  PROVE  SvInv'
<1> USE DEF SvInv
<1>1. PICK r \in Run, p \in Refilters(sv.list) :
        LET w == [sv EXCEPT !.list = p]
        IN  /\ Take(SwitchRun(r), InOrder(Cascade(w)))
            /\ corpus' \in IF ReadFaults THEN {r, NoRun} ELSE {r}
            /\ sv' = Synced(w)
            /\ UNCHANGED <<above, bar, over>>
  BY DEF TakeSwitchRun
<1> DEFINE w == [sv EXCEPT !.list = p]
<1>2. GoodSv(w)
  BY RefiltersSame, ListKeptGood
<1>3. GoodSv(sv')
  BY <1>1, <1>2, SyncedGood
<1>4. GoodSv(sv)'
  BY <1>3
<1>5. IsABag(msgs')
  BY <1>1, InOrderIsABag, TakeIsABag
<1>6. corpus' \in MaybeRun
  BY <1>1 DEF MaybeRun
<1> QED BY <1>1, <1>4, <1>5, <1>6

LEMMA SwallowedKeeps ==
  ASSUME SvInv, Swallowed
  PROVE  SvInv'
<1>1. PICK m : /\ Take(m, None)
               /\ above' = IF m = ScopesLoad /\ above = "scopes" /\ ~bar
                           THEN "scopesLoaded" ELSE above
               /\ UNCHANGED <<sv, bar, corpus, over>>
  BY DEF Swallowed
<1>2. IsABag(msgs')
  BY <1>1, EmptyIsABag, TakeIsABag DEF None, SvInv
<1>3. above' \in {"none", "graph", "scopes", "scopesLoaded"}
  BY <1>1 DEF SvInv
<1> QED BY <1>1, <1>2, <1>3, AppKeeps DEF SvInv

\* The cascade's messages, and SwapLeftPaneMsg: each handler that builds a
\* pane of a run checks that there is one.
LEMMA ScopeSelectedKeeps ==
  ASSUME SvInv, NEW r \in Run, NEW ok \in BOOLEAN, TakeScopeSelected(r, ok)
  PROVE  SvInv'
<1> DEFINE cmds == IF ok THEN Loads(OverviewLoad(r), "overview") ELSE None
           run == IF ok THEN r ELSE NoRun
<1>1. GoodSv(ScopeSelected(sv, run)) /\ IsABag(cmds)
  BY ScopeSelectedGood, EmptyIsABag, LoadsIsABag DEF SvInv, MaybeRun, None
<1>2. Handle(Resolve(r), ScopeSelected(sv, run), cmds)
  BY DEF TakeScopeSelected
<1> HIDE DEF cmds, run
<1> QED BY <1>1, <1>2, HandleKeeps

LEMMA KindSelectedKeeps ==
  ASSUME SvInv, NEW k \in Kind, TakeKindSelected(k)
  PROVE  SvInv'
<1>1. GoodSv(sv) /\ IsABag(None)
  BY EmptyIsABag DEF SvInv, None
<1>2. CASE sv.run = NoRun
  BY <1>1, <1>2, HandleKeeps DEF TakeKindSelected
<1>3. CASE sv.run # NoRun
  <2>1. GoodSv(WithList(sv, k, 0))
    BY <1>1, <1>3, WithListGood
  <2> QED BY <1>3, <2>1, LoadsIsABag, HandleKeeps DEF TakeKindSelected
<1> QED BY <1>2, <1>3

LEMMA SwapLeftKeeps ==
  ASSUME SvInv, NEW k \in Kind, NEW i \in Nat, TakeSwapLeft(k, i)
  PROVE  SvInv'
<1>1. GoodSv(sv) /\ IsABag(None)
  BY EmptyIsABag DEF SvInv, None
<1>2. CASE sv.run = NoRun
  BY <1>1, <1>2, HandleKeeps DEF TakeSwapLeft
<1>3. CASE sv.run # NoRun
  <2>1. GoodSv(SwappedLeft(sv, k, i))
    BY <1>1, <1>3, SwappedLeftGood
  <2> QED BY <1>3, <2>1, LoadsIsABag, HandleKeeps DEF TakeSwapLeft
<1> QED BY <1>2, <1>3

LEMMA ResourceSelectedKeeps ==
  ASSUME SvInv, NEW s \in Selection, TakeResourceSelected(s)
  PROVE  SvInv'
<1>1. GoodSv(sv) /\ IsABag(None)
  BY EmptyIsABag DEF SvInv, None
<1>2. CASE sv.run = NoRun
  BY <1>1, <1>2, HandleKeeps DEF TakeResourceSelected
<1>3. CASE sv.run # NoRun
  <2>1. GoodSv(WithDetail(sv, s))
    BY <1>1, WithDetailGood
  <2> QED BY <1>3, <2>1, LoadsIsABag, HandleKeeps DEF TakeResourceSelected
<1> QED BY <1>2, <1>3

LEMMA ScopesLoadKeeps ==
  ASSUME SvInv, NEW ok \in BOOLEAN, TakeScopesLoad(ok)
  PROVE  SvInv'
<1>1. PICK s \in ScopesLoaded(sv.scopes, IF ok THEN Run ELSE {}), p \in Refilters(sv.list) :
        Broadcast(ScopesLoad, [sv EXCEPT !.scopes = s, !.list = p])
  BY DEF TakeScopesLoad
<1> DEFINE v == [sv EXCEPT !.list = p]
           w == [sv EXCEPT !.scopes = s, !.list = p]
<1>2. GoodSv(sv) /\ sv \in SingleViews
  BY DEF SvInv, GoodSv
<1>3. GoodSv(v)
  BY <1>2, RefiltersSame, ListKeptGood
<1>4. s \in ScopesPane
  <2> DEFINE rows == IF ok THEN Run ELSE {}
  <2>1. rows \in SUBSET Run
    OBVIOUS
  <2> HIDE DEF rows
  <2>2. PICK c \in IF sv.scopes.cursor \in rows THEN {sv.scopes.cursor} ELSE rows \cup {NoRun} :
          s = [sv.scopes EXCEPT !.loaded = TRUE, !.rows = rows, !.cursor = c]
    BY <1>1 DEF ScopesLoaded, rows
  <2>3. c \in MaybeRun
    BY <2>1, <2>2 DEF MaybeRun
  <2>4. sv.scopes \in ScopesPane
    BY <1>2 DEF SingleViews
  <2> QED BY <2>1, <2>2, <2>3, <2>4 DEF ScopesPane
<1>5. w = [v EXCEPT !.scopes = s]
  BY <1>2 DEF SingleViews
<1>6. w \in SingleViews
  BY <1>3, <1>4, <1>5 DEF GoodSv, SingleViews
<1>7. GoodSv(w)
  BY <1>3, <1>5, <1>6, OthersGood DEF GoodSv, SingleViews
<1> QED BY <1>1, <1>7, BroadcastKeeps

LEMMA OverviewLoadKeeps ==
  ASSUME SvInv, NEW r \in Run, NEW ok \in BOOLEAN, TakeOverviewLoad(r, ok)
  PROVE  SvInv'
<1> DEFINE src == IF ok THEN [run |-> r, kind |-> NoKind] ELSE Nothing
           k == IF ok THEN FirstKind(r) ELSE NoKind
           o == TakeOverview(sv.overview, src)
<1>1. PICK p \in Refilters(sv.list) :
        Broadcast(OverviewLoad(r),
          IF sv.overview = NoPane THEN [sv EXCEPT !.list = p]
          ELSE [sv EXCEPT !.overview = o, !.picked = k, !.list = p])
  BY DEF TakeOverviewLoad
<1>2. GoodSv(sv) /\ sv \in SingleViews
  BY DEF SvInv, GoodSv
<1> DEFINE v == [sv EXCEPT !.list = p]
<1>3. GoodSv(v) /\ v \in SingleViews
  BY <1>2, RefiltersSame, ListKeptGood DEF GoodSv
<1>4. CASE sv.overview = NoPane
  BY <1>1, <1>3, <1>4, BroadcastKeeps
<1>5. CASE sv.overview # NoPane
  <2> DEFINE w == [sv EXCEPT !.overview = o, !.picked = k, !.list = p]
  <2>1. GoodPane(sv.overview) /\ IsOverview(sv.overview)
    BY <1>2, <1>5 DEF GoodSv, GoodOverview
  <2>2. src \in Source
    BY DEF Source, Nothing, MaybeRun, MaybeKind
  <2>3. k \in MaybeKind
    BY FirstKindType DEF MaybeKind
  <2> HIDE DEF src, k
  <2>4. GoodPane(o) /\ o.run = sv.overview.run
    BY <2>1, <2>2, TakeOverviewGood
  <2>5. o.kind = sv.overview.kind
    BY <2>1 DEF TakeOverview, GoodPane, Pane
  <2>6. SamePane(sv.overview, o) /\ o \in Pane
    BY <1>5, <2>4, <2>5 DEF SamePane, GoodPane
  <2> HIDE DEF o
  <2>7. w = [v EXCEPT !.overview = o, !.picked = k]
    BY <1>2 DEF SingleViews
  <2>8. w \in SingleViews
    BY <1>3, <2>3, <2>6, <2>7 DEF SingleViews
  <2>9. /\ w.run = v.run /\ w.listFor = v.listFor /\ w.overview = o
        /\ w.list = v.list /\ w.detail = v.detail /\ v.overview = sv.overview
    BY <1>2, <1>3, <2>7 DEF SingleViews
  <2>10. GoodSv(w)
    BY <1>3, <2>6, <2>8, <2>9, KeptGood DEF SamePane
  <2>11. Broadcast(OverviewLoad(r), w)
    BY <1>1, <1>5
  <2> QED BY <2>10, <2>11, BroadcastKeeps
<1> QED BY <1>4, <1>5

LEMMA RowsLoadKeeps ==
  ASSUME SvInv, NEW r \in Run, NEW k \in Kind, NEW ok \in BOOLEAN, TakeRowsLoad(r, k, ok)
  PROVE  SvInv'
<1> DEFINE src == IF ok THEN [run |-> r, kind |-> k] ELSE Nothing
<1>1. PICK p \in IF sv.list = NoPane THEN {NoPane} ELSE TakeRows(sv.list, src) :
        Broadcast(RowsLoad(r, k), [sv EXCEPT !.list = p])
  BY DEF TakeRowsLoad
<1>2. GoodSv(sv)
  BY DEF SvInv
<1>3. src \in Source /\ GoodSource(src)
  BY DEF Source, Nothing, MaybeRun, MaybeKind, GoodSource
<1> HIDE DEF src
<1>4. SamePane(sv.list, p)
  BY <1>1, <1>2, <1>3, TakeRowsGood DEF SamePane, GoodSv, GoodList
<1> QED BY <1>1, <1>2, <1>4, ListKeptGood, BroadcastKeeps

LEMMA EdgesLoadKeeps ==
  ASSUME SvInv, NEW r \in Run, NEW ok \in BOOLEAN, TakeEdgesLoad(r, ok)
  PROVE  SvInv'
<1> DEFINE e == IF ok THEN r ELSE NoRun
           d == TakeEdges(sv.detail, e)
<1>1. PICK p \in Refilters(sv.list) :
        Broadcast(EdgesLoad(r), [sv EXCEPT !.list = p, !.detail = d])
  BY DEF TakeEdgesLoad
<1> DEFINE v == [sv EXCEPT !.list = p]
           w == [sv EXCEPT !.list = p, !.detail = d]
<1>2. GoodSv(sv) /\ sv \in SingleViews
  BY DEF SvInv, GoodSv
<1>3. GoodSv(v) /\ v \in SingleViews
  BY <1>2, RefiltersSame, ListKeptGood DEF GoodSv
<1>4. sv.detail \in Detail /\ e \in MaybeRun
  BY <1>2 DEF SingleViews, MaybeRun
<1> HIDE DEF e
<1>5. d \in Detail /\ d.run = sv.detail.run /\ (sv.detail = NoDetail => d = NoDetail)
  BY <1>4, TakeEdgesType
<1> HIDE DEF d
<1>6. w = [v EXCEPT !.detail = d]
  BY <1>2 DEF SingleViews
<1>7. w \in SingleViews
  BY <1>3, <1>5, <1>6 DEF SingleViews
<1>8. /\ w.run = v.run /\ w.listFor = v.listFor /\ w.overview = v.overview
      /\ w.list = v.list /\ w.detail = d /\ v.detail = sv.detail
  BY <1>2, <1>3, <1>6 DEF SingleViews
<1>9. GoodSv(w)
  BY <1>3, <1>5, <1>7, <1>8, KeptGood DEF SamePane
<1> QED BY <1>1, <1>9, BroadcastKeeps

LEMMA TickKeeps ==
  ASSUME SvInv, NEW f \in Panel, TakeTick(f)
  PROVE  SvInv'
<1>1. PICK p \in Refilters(sv.list) :
        LET w    == [sv EXCEPT !.list = p]
            more == InOrder(Cascade(w)) (+) IF StillLoading(w, f) THEN One(Tick(f)) ELSE None
        IN  Handle(Tick(f), Synced(w), more)
  BY DEF TakeTick
<1> DEFINE w    == [sv EXCEPT !.list = p]
           last == IF StillLoading(w, f) THEN One(Tick(f)) ELSE None
           more == InOrder(Cascade(w)) (+) last
<1>2. GoodSv(Synced(w))
  BY RefiltersSame, ListKeptGood, SyncedGood DEF SvInv
<1>3. IsABag(last)
  BY EmptyIsABag, LoadsIsABag DEF None
<1> HIDE DEF last
<1>4. IsABag(more)
  BY <1>3, InOrderIsABag, AddIsABag
<1>5. Handle(Tick(f), Synced(w), more)
  BY <1>1 DEF last
<1> HIDE DEF more, w
<1> QED BY <1>2, <1>4, <1>5, HandleKeeps

\* The rows a message may name are numbers.
LEMMA RowNumbers ==
  ASSUME NEW k \in Kind
  PROVE  {0} \cup UNION {Rows(r, k) : r \in Run} \subseteq Nat
BY RowsAreNat

LEMMA MessageKeeps ==
  ASSUME SvInv, Message
  PROVE  SvInv'
<1>1. CASE PushScreen \/ PopScreen \/ TakeQuit \/ SubmitScopes \/ SubmitKind
  BY <1>1, AppMessages
<1>2. CASE TakeSwitchRun \/ Swallowed
  BY <1>2, SwitchRunKeeps, SwallowedKeeps
<1>3. CASE \E f \in Panel : TakeTick(f)
  BY <1>3, TickKeeps
<1>4. ASSUME NEW k \in Kind,
             \/ TakeKindSelected(k)
             \/ \E i \in {0} \cup UNION {Rows(r, k) : r \in Run} : TakeSwapLeft(k, i)
             \/ \E r \in Run, i \in UNION {Rows(x, k) : x \in Run} :
                  TakeResourceSelected([src |-> [run |-> r, kind |-> k], row |-> i])
      PROVE  SvInv'
  <2>1. CASE TakeKindSelected(k)
    BY <2>1, KindSelectedKeeps
  <2>2. ASSUME NEW i \in {0} \cup UNION {Rows(r, k) : r \in Run}, TakeSwapLeft(k, i)
        PROVE  SvInv'
    BY <2>2, RowNumbers, SwapLeftKeeps
  <2>3. ASSUME NEW r \in Run, NEW i \in UNION {Rows(x, k) : x \in Run},
               TakeResourceSelected([src |-> [run |-> r, kind |-> k], row |-> i])
        PROVE  SvInv'
    <3> DEFINE s == [src |-> [run |-> r, kind |-> k], row |-> i]
    <3>1. i \in Nat
      BY RowNumbers
    <3>2. s \in Selection
      BY <3>1 DEF Selection, Source, MaybeRun, MaybeKind
    <3> HIDE DEF s
    <3>3. TakeResourceSelected(s)
      BY <2>3 DEF s
    <3> QED BY <3>2, <3>3, ResourceSelectedKeeps
  <2> QED BY <1>4, <2>1, <2>2, <2>3
<1>5. ASSUME NEW ok \in Succeeds,
             \/ TakeScopesLoad(ok)
             \/ \E r \in Run : \/ TakeScopeSelected(r, ok)
                               \/ TakeOverviewLoad(r, ok)
                               \/ TakeEdgesLoad(r, ok)
                               \/ \E k \in Kind : TakeRowsLoad(r, k, ok)
      PROVE  SvInv'
  <2>1. ok \in BOOLEAN
    BY DEF Succeeds
  <2>2. CASE TakeScopesLoad(ok)
    BY <2>1, <2>2, ScopesLoadKeeps
  <2>3. ASSUME NEW r \in Run, TakeScopeSelected(r, ok) PROVE SvInv'
    BY <2>1, <2>3, ScopeSelectedKeeps
  <2>4. ASSUME NEW r \in Run, TakeOverviewLoad(r, ok) \/ TakeEdgesLoad(r, ok) PROVE SvInv'
    BY <2>1, <2>4, OverviewLoadKeeps, EdgesLoadKeeps
  <2>5. ASSUME NEW r \in Run, NEW k \in Kind, TakeRowsLoad(r, k, ok) PROVE SvInv'
    BY <2>1, <2>5, RowsLoadKeeps
  <2> QED BY <1>5, <2>2, <2>3, <2>4, <2>5
<1> QED BY <1>1, <1>2, <1>3, <1>4, <1>5 DEF Message

-----------------------------------------------------------------------------
(***************************************************************************)
(* Keys.                                                                   *)
(***************************************************************************)
LEMMA ReturnsKeep ==
  ASSUME SvInv, NEW cmds, IsABag(cmds), OnlyReturns(cmds)
  PROVE  SvInv'
BY ReturnIsABag, AppKeeps DEF OnlyReturns, SvInv

LEMMA CloseBarKeeps ==
  ASSUME SvInv, NEW cmds, IsABag(cmds), CloseBar(cmds)
  PROVE  SvInv'
<1>1. GoodSv(sv)'
  BY DEF CloseBar, SvInv
<1>2. IsABag(msgs')
  BY ReturnIsABag DEF CloseBar, SvInv
<1> QED BY <1>1, <1>2 DEF CloseBar, SvInv

LEMMA DispatchKeeps ==
  ASSUME SvInv, NEW w, GoodSv(w), NEW first, Dispatch(w, first)
  PROVE  SvInv'
<1>1. GoodSv(sv') /\ IsABag(msgs')
  BY SyncedGood, InOrderIsABag, ReturnIsABag DEF Dispatch, SvInv
<1>2. GoodSv(sv)'
  BY <1>1
<1> QED BY <1>1, <1>2 DEF Dispatch, SvInv

LEMMA KeyKeeps ==
  ASSUME SvInv, Key
  PROVE  SvInv'
<1> USE DEF SvInv
<1>1. IsABag(None)
  BY EmptyIsABag DEF None
<1>2. CASE QuitKey \/ AboveEsc \/ AboveEnter \/ Esc
  BY <1>2, LoadsIsABag, InOrderIsABag, ReturnsKeep
     DEF QuitKey, AboveEsc, AboveEnter, Esc
<1>3. CASE OpenBar
  <2>1. GoodSv(sv)' /\ IsABag(msgs')
    BY <1>3 DEF OpenBar
  <2> QED BY <1>3, <2>1 DEF OpenBar
<1>4. CASE BarEsc \/ BarEnter
  BY <1>1, <1>4, LoadsIsABag, CloseBarKeeps DEF BarEsc, BarEnter
<1>5. CASE Tab
  <2>1. PICK forward \in BOOLEAN : sv' = Cycled(sv, forward)
    BY <1>5 DEF Tab
  <2>2. GoodSv(sv')
    BY <2>1, CycledGood
  <2>3. GoodSv(sv)' /\ IsABag(msgs')
    BY <1>5, <2>2 DEF Tab
  <2> QED BY <1>5, <2>3 DEF Tab
<1>6. CASE ScopesKey
  <2>1. PICK r \in sv.scopes.rows :
          Dispatch([sv EXCEPT !.scopes.cursor = r,
                              !.wanted = IF r = sv.scopes.cursor THEN @ ELSE NoKind], <<>>)
    BY <1>6 DEF ScopesKey
  <2> DEFINE s == [sv.scopes EXCEPT !.cursor = r]
             k == IF r = sv.scopes.cursor THEN sv.wanted ELSE NoKind
             w == [sv EXCEPT !.scopes = s, !.wanted = k]
  <2>2. s \in ScopesPane /\ k \in MaybeKind
    BY DEF GoodSv, SingleViews, ScopesPane, MaybeRun, MaybeKind
  <2>3. w = [sv EXCEPT !.scopes.cursor = r,
                       !.wanted = IF r = sv.scopes.cursor THEN @ ELSE NoKind]
    OBVIOUS
  <2> HIDE DEF s, k
  <2>4. w \in SingleViews
    BY <2>2 DEF GoodSv, SingleViews
  <2>5. GoodSv(w)
    BY <2>4, OthersGood DEF GoodSv, SingleViews
  <2> QED BY <2>1, <2>3, <2>5, DispatchKeeps
<1>7. CASE OverviewKey
  <2>1. PICK k \in SelectedKinds(sv.overview) :
          Dispatch([sv EXCEPT !.picked = k,
                              !.wanted = IF k = sv.picked THEN @ ELSE NoKind], <<>>)
    BY <1>7 DEF OverviewKey
  <2> DEFINE a == IF k = sv.picked THEN sv.wanted ELSE NoKind
             w == [sv EXCEPT !.picked = k, !.wanted = a]
  <2>2. k \in MaybeKind /\ a \in MaybeKind
    BY DEF SelectedKinds, Stats, GoodSv, SingleViews, MaybeKind
  <2>3. w \in SingleViews
    BY <2>2 DEF GoodSv, SingleViews
  <2>4. GoodSv(w)
    BY <2>3, OthersGood DEF GoodSv, SingleViews
  <2> QED BY <2>1, <2>4, DispatchKeeps
<1>8. CASE ListKey
  <2>1. PICK p \in LeftKeys(sv.list) : Dispatch([sv EXCEPT !.list = p], <<>>)
    BY <1>8 DEF ListKey
  <2>2. SamePane(sv.list, p)
    BY <1>8, <2>1, LeftKeysGood DEF ListKey, SamePane, GoodSv, GoodList
  <2> QED BY <2>1, <2>2, ListKeptGood, DispatchKeeps
<1>9. CASE GraphKey \/ OtherKey
  BY <1>9, DispatchKeeps DEF GraphKey, OtherKey
<1> QED BY <1>2, <1>3, <1>4, <1>5, <1>6, <1>7, <1>8, <1>9 DEF Key

-----------------------------------------------------------------------------
(***************************************************************************)
(* The theorems for any user.                                              *)
(***************************************************************************)
LEMMA SvNext == SvInv /\ [Next]_vars => SvInv'
<1> SUFFICES ASSUME SvInv, [Next]_vars PROVE SvInv'
  OBVIOUS
<1>1. CASE UNCHANGED vars
  BY <1>1 DEF vars, SvInv
<1>2. CASE Next
  BY <1>2, MessageKeeps, KeyKeeps DEF Next
<1> QED BY <1>1, <1>2

\* SingleView's variables have their types, whoever presses the keys and
\* whichever queries fail.
THEOREM SvTypes == Spec => []SvTypeOK
<1>1. SvInv => SvTypeOK
  BY DEF SvInv, SvTypeOK, GoodSv, SingleViews, ScopesPane
<1> QED BY <1>1, SvInit, SvNext, PTL DEF Spec

\* The overview, the list and the detail are always of the run the SingleView
\* shows, and the list is of the kind it was built for last: in whatever
\* order the messages of the cascade, of the palette and of the queries come.
THEOREM PanesFollowTheRun == Spec => []PanesAreOneRun
<1>1. SvInv => PanesAreOneRun
  BY DEF SvInv, PanesAreOneRun, GoodSv, GoodOverview, GoodList, GoodDetail
<1> QED BY <1>1, SvInit, SvNext, PTL DEF Spec

-----------------------------------------------------------------------------
(***************************************************************************)
(* The inductive invariant for a patient user.  A scope is resolved, its   *)
(* overview loaded, and only then the panes below begin to follow; a        *)
(* message for App's own handlers comes alone, to a view that has settled.  *)
(***************************************************************************)
InBag(B) == UNION {{q[i] : i \in DOMAIN q} : q \in DOMAIN B}
Pending == InBag(msgs)

\* B has m once, by itself, and besides only ticks.
TickSequence == {<<Tick(f)>> : f \in Panel}
Only(B, m) ==
  <<m>> \in DOMAIN B /\ B[<<m>>] = 1 /\ DOMAIN B \subseteq TickSequence \cup {<<m>>}

\* What a pane has is of the run of the view, and the cursor of the scopes
\* has been followed.
Consistent(w) ==
  /\ w.scopes.last = w.scopes.cursor
  /\ w.scopes.cursor \in w.scopes.rows \cup {NoRun}
  /\ w.overview = NoPane => w.picked = NoKind
  /\ w.picked = NoKind => SelectedKinds(w.overview) = {}
  /\ w.overview.src \in {Nothing, [run |-> w.run, kind |-> NoKind]}
  /\ w.list.filter => w.focus = "list"
  /\ w.list.src.run \in {NoRun, w.run}
  /\ w.list.visible \subseteq Answered(w.list.src)
  /\ w.detailFor # NoSelection => w.detail # NoDetail
  /\ w.detail # NoDetail => w.detail.src.run = w.run /\ w.detail.edges \in {NoRun, w.run}

\* The messages below an overview; all but the tick end in a look at the cascade.
Below ==
  [type : {"kind"}, kind : Kind] \cup [type : {"resource"}, row : Selection] \cup
  [type : {"swap"}, kind : Kind, row : Nat] \cup
  [type : {"rows"}, run : Run, kind : Kind] \cup [type : {"edges"}, run : Run]
Ticks == [type : {"tick"}, pane : Panel]
Lower == Seq(Below \cup Ticks) \ {<<>>}

\* The palette asks for no kind, in the view or in messages P.
Unasked(w, P) == w.wanted = NoKind /\ \A m \in P : m.type # "swap"

\* Every message in P is for the run of w, and for the kind that is picked there
\* unless the palette asks for another; and so is what the list shows, or the
\* list will be replaced.
Fits(w, P) ==
  /\ \A m \in P :
       /\ m.type \in {"rows", "edges"} => m.run = w.run
       /\ m.type = "resource" => m.row.src.run = w.run
       /\ m.type = "swap" => w.run # NoRun
       /\ Unasked(w, P) /\ m.type \in {"kind", "rows"} => m.kind = w.picked
  /\ Unasked(w, P) =>
       \/ w.list.src \in {Nothing, [run |-> w.run, kind |-> w.listFor]}
       \/ w.picked \notin {NoKind, w.listFor}

\* What is not loaded yet will be, when the messages in P have come ...
Awaits(w, P) ==
  /\ w.scopes.loaded
  /\ w.run \in {w.scopes.cursor, NoRun}
  /\ w.overview # NoPane => w.overview.loaded
  /\ w.list # NoPane /\ ~w.list.loaded => \E m \in P : m.type = "rows"
  /\ w.detail # NoDetail /\ ~w.detail.loaded => \E m \in P : m.type = "edges"

\* ... and what does not follow yet will be looked at again.
Follows(w, P) == KindMoved(w) \/ ResourceMoved(w) => \E m \in P : m \in Below

Cascading(w, P) == Consistent(w) /\ Fits(w, P) /\ Awaits(w, P) /\ Follows(w, P)
Settled(w) == Cascading(w, {})

Starting == sv = NewSingleView /\ Only(msgs, ScopesLoad)

Resolving ==
  /\ Consistent(sv) /\ ~KindMoved(sv) /\ ~ResourceMoved(sv)
  /\ sv.scopes.loaded /\ sv.scopes.cursor # NoRun /\ ~sv.list.filter
  /\ Only(msgs, Resolve(sv.scopes.cursor))

Counting ==
  /\ Consistent(sv) /\ sv.scopes.loaded
  /\ sv.run # NoRun /\ sv.run = sv.scopes.cursor
  /\ sv.overview = NewOverview(sv.run) /\ sv.picked = NoKind
  /\ sv.list = NoPane /\ sv.detail = NoDetail /\ sv.detailFor = NoSelection
  /\ Only(msgs, OverviewLoad(sv.run))

Filling ==
  /\ DOMAIN msgs \subseteq Lower
  /\ Cascading(sv, Pending)

\* What App handles itself, one at a time.
AppSequence ==
  {<<OpenScopesModal>>, <<Pop>>, <<Quit>>} \cup {<<Push(x)>> : x \in {"scopes", "graph"}} \cup
  {<<Submit(k, i)>> : k \in Kind, i \in {0} \cup AnyRow} \cup
  (IF above = "none" THEN {<<SwitchRun(r)>> : r \in Run}
                     ELSE {<<Pop, SwitchRun(r)>> : r \in Run})

Handing == Settled(sv) /\ \E s \in AppSequence : msgs = InOrder(s)

Covered ==
  /\ Settled(sv)
  /\ \A q \in DOMAIN msgs :
       q \in {<<ScopesLoad>>} \cup {<<m>> : m \in Ticks} \cup
            {<<SwapLeft(k, i)>> : k \in Kind, i \in {0} \cup AnyRow}

CascadeInv ==
  \/ bar /\ Settled(sv) /\ Idle
  \/ ~bar /\ Handing
  \/ ~bar /\ above # "none" /\ Covered
  \/ Reached /\ (Starting \/ Resolving \/ Counting \/ Filling)

-----------------------------------------------------------------------------
(***************************************************************************)
(* What is pending.                                                        *)
(***************************************************************************)
LEMMA SumIs ==
  ASSUME NEW B, NEW C, IsABag(B), IsABag(C)
  PROVE  /\ DOMAIN (B (+) C) = DOMAIN B \cup DOMAIN C
         /\ \A e \in DOMAIN B \ DOMAIN C : (B (+) C)[e] = B[e]
         /\ \A e \in DOMAIN C \ DOMAIN B : (B (+) C)[e] = C[e]
<1>1. DOMAIN (B (+) C) = DOMAIN B \cup DOMAIN C
  BY DEF (+)
<1>2. ASSUME NEW e \in DOMAIN B \ DOMAIN C PROVE (B (+) C)[e] = B[e]
  <2>1. (B (+) C)[e] = B[e] + 0
    BY DEF (+)
  <2>2. B[e] \in Nat
    BY DEF IsABag
  <2> QED
    BY <2>1, <2>2
<1>3. ASSUME NEW e \in DOMAIN C \ DOMAIN B PROVE (B (+) C)[e] = C[e]
  <2>1. (B (+) C)[e] = 0 + C[e]
    BY DEF (+)
  <2>2. C[e] \in Nat
    BY DEF IsABag
  <2> QED
    BY <2>1, <2>2
<1> QED
  BY <1>1, <1>2, <1>3

LEMMA InOrderIs ==
  /\ DOMAIN None = {} /\ InOrder(<<>>) = None
  /\ \A s : s # <<>> => DOMAIN InOrder(s) = {s} /\ InOrder(s)[s] = 1
BY DEF InOrder, None, EmptyBag, SetToBag

\* One copy of q is taken away.
LEMMA DropOne ==
  ASSUME NEW B, IsABag(B), NEW q \in DOMAIN B
  PROVE  LET D == B (-) SetToBag({q})
         IN  /\ \A e : e \in DOMAIN D <=> e \in DOMAIN B /\ (e = q => B[q] # 1)
             /\ \A e \in DOMAIN D : e # q => D[e] = B[e]
<1> DEFINE S == SetToBag({q})
           F == [e \in DOMAIN B |-> IF e \in DOMAIN S THEN B[e] - S[e] ELSE B[e]]
           D == [e \in {d \in DOMAIN F : F[d] > 0} |-> F[e]]
<1>1. D = B (-) SetToBag({q})
  BY DEF (-)
<1>2. DOMAIN S = {q} /\ S[q] = 1
  BY DEF SetToBag
<1>3. ASSUME NEW e \in DOMAIN B PROVE B[e] \in Nat /\ B[e] > 0
  BY <1>3 DEF IsABag
<1>4. ASSUME NEW e \in DOMAIN B
      PROVE  F[e] = (IF e = q THEN B[e] - 1 ELSE B[e]) /\ (F[e] > 0 <=> (e = q => B[q] # 1))
  BY <1>2, <1>3
<1>5. \A e : e \in DOMAIN D <=> e \in DOMAIN B /\ F[e] > 0
  OBVIOUS
<1>6. \A e \in DOMAIN D : D[e] = F[e]
  OBVIOUS
<1> HIDE DEF D, F, S
<1> QED
  BY <1>1, <1>4, <1>5, <1>6

\* The bag after a message has been taken: q was its sequence.
TakenFrom(q, cmds) ==
  LET rest == DOMAIN InOrder(Tail(q)) \cup DOMAIN cmds
  IN  /\ DOMAIN msgs \ {q} \subseteq DOMAIN msgs'
      /\ rest \subseteq DOMAIN msgs'
      /\ \A e \in DOMAIN msgs' \ rest :
           e \in DOMAIN msgs /\ (IF e = q THEN msgs[e] # 1 ELSE msgs'[e] = msgs[e])
      /\ \A e \in DOMAIN cmds :
           e \notin DOMAIN msgs \cup DOMAIN InOrder(Tail(q)) => msgs'[e] = cmds[e]

LEMMA Taken ==
  ASSUME IsABag(msgs), NEW m, NEW cmds, IsABag(cmds), Take(m, cmds)
  PROVE  \E q \in DOMAIN msgs : Head(q) = m /\ TakenFrom(q, cmds)
<1>1. PICK q \in DOMAIN msgs :
        /\ Head(q) = m
        /\ msgs' = (msgs (-) SetToBag({q})) (+) InOrder(Tail(q)) (+) cmds
  BY DEF Take
<1> DEFINE D == msgs (-) SetToBag({q})
           T == InOrder(Tail(q))
           E == D (+) T
<1>2. /\ \A e : e \in DOMAIN D <=> e \in DOMAIN msgs /\ (e = q => msgs[q] # 1)
      /\ \A e \in DOMAIN D : e # q => D[e] = msgs[e]
  BY DropOne
<1>3. IsABag(D) /\ IsABag(T)
  <2>1. BagOver(msgs, DOMAIN msgs) /\ IsABag(SetToBag({q}))
    BY DEF BagOver, SetToBag, IsABag
  <2> QED
    BY <2>1, DropBag, InOrderIsABag DEF BagOver
<1> HIDE DEF D, T
<1>6. /\ DOMAIN E = DOMAIN D \cup DOMAIN T
      /\ \A e \in DOMAIN D \ DOMAIN T : E[e] = D[e]
  BY <1>3, SumIs
<1>7. msgs' = E (+) cmds
  BY <1>1 DEF D, T
<1>8. IsABag(E)
  BY <1>3, AddIsABag
<1> HIDE DEF E
<1>9. DOMAIN msgs' = DOMAIN D \cup DOMAIN T \cup DOMAIN cmds
  BY <1>6, <1>7, <1>8, SumIs
<1>10. ASSUME NEW e \in DOMAIN D, e \notin DOMAIN T \cup DOMAIN cmds
       PROVE  msgs'[e] = D[e]
  <2>0. e \in DOMAIN E \ DOMAIN cmds
    BY <1>6, <1>10
  <2>1. msgs'[e] = E[e]
    BY <1>7, <1>8, <2>0, SumIs
  <2> QED
    BY <1>6, <1>10, <2>1
<1>11. ASSUME NEW e \in DOMAIN cmds, e \notin DOMAIN D \cup DOMAIN T
       PROVE  msgs'[e] = cmds[e]
  <2>1. e \in DOMAIN cmds \ DOMAIN E
    BY <1>6, <1>11
  <2>2. \A c \in DOMAIN cmds \ DOMAIN E : (E (+) cmds)[c] = cmds[c]
    BY <1>8, SumIs
  <2> QED
    BY <1>7, <2>1, <2>2
<1>12. TakenFrom(q, cmds)
  <2>1. DOMAIN msgs \ {q} \subseteq DOMAIN msgs'
    BY <1>2, <1>9
  <2>2. ASSUME NEW e \in DOMAIN msgs' \ (DOMAIN T \cup DOMAIN cmds)
        PROVE  e \in DOMAIN msgs /\ (IF e = q THEN msgs[e] # 1 ELSE msgs'[e] = msgs[e])
    BY <1>2, <1>9, <1>10
  <2>3. ASSUME NEW e \in DOMAIN cmds, e \notin DOMAIN msgs \cup DOMAIN T
        PROVE  msgs'[e] = cmds[e]
    BY <1>2, <1>11, <2>3
  <2> QED
    BY <1>9, <2>1, <2>2, <2>3 DEF TakenFrom, T
<1> QED
  BY <1>1, <1>12

\* The only message and the ticks beside it.
LEMMA OnlyTakes ==
  ASSUME IsABag(msgs), NEW m, NEW n, Only(msgs, m), NEW cmds, IsABag(cmds), Take(n, cmds)
  PROVE  n = m \/ n \in Ticks
<1>1. PICK q \in DOMAIN msgs : Head(q) = n
  BY Taken
<1>2. q = <<m>> \/ \E f \in Panel : q = <<Tick(f)>>
  BY DEF Only, TickSequence
<1> QED
  BY <1>1, <1>2 DEF Tick, Ticks

LEMMA OnlyTicks ==
  ASSUME IsABag(msgs), NEW m, m.type # "tick", Only(msgs, m), NEW f \in Panel,
         NEW cmds, IsABag(cmds), DOMAIN cmds \subseteq TickSequence, Take(Tick(f), cmds)
  PROVE  Only(msgs', m)
<1>2. PICK q \in DOMAIN msgs : Head(q) = Tick(f) /\ TakenFrom(q, cmds)
  BY Taken
<1>3. q # <<m>> /\ q \in TickSequence
  BY <1>2 DEF Only, Tick
<1>4. Tail(q) = <<>>
  <2>1. PICK g \in Panel : q = <<Tick(g)>>
    BY <1>3 DEF TickSequence
  <2> QED
    BY <2>1
<1>5. DOMAIN InOrder(Tail(q)) = {}
  BY <1>4, InOrderIs
<1>6. <<m>> \notin DOMAIN cmds
  BY DEF TickSequence, Tick
<1>7. <<m>> \in DOMAIN msgs' /\ msgs'[<<m>>] = 1
  BY <1>2, <1>3, <1>5, <1>6 DEF TakenFrom, Only
<1>8. DOMAIN msgs' \subseteq TickSequence \cup {<<m>>}
  BY <1>2, <1>5 DEF TakenFrom, Only
<1> QED
  BY <1>7, <1>8 DEF Only

\* The only message is taken: what it sends is left, and the ticks.
LEMMA OnlyTaken ==
  ASSUME IsABag(msgs), NEW m, m.type # "tick", Only(msgs, m), NEW cmds, IsABag(cmds),
         <<m>> \notin DOMAIN cmds, Take(m, cmds)
  PROVE  /\ DOMAIN cmds \subseteq DOMAIN msgs'
         /\ DOMAIN msgs' \subseteq TickSequence \cup DOMAIN cmds
         /\ \A e \in DOMAIN cmds \ TickSequence : msgs'[e] = cmds[e]
<1>1. PICK q \in DOMAIN msgs : Head(q) = m /\ TakenFrom(q, cmds)
  BY Taken
<1>2. q = <<m>> /\ msgs[q] = 1
  BY <1>1 DEF Only, TickSequence, Tick
<1>3. DOMAIN InOrder(Tail(q)) = {}
  BY <1>2, InOrderIs
<1>4. ASSUME NEW e \in DOMAIN cmds \ TickSequence PROVE msgs'[e] = cmds[e]
  BY <1>1, <1>2, <1>3 DEF TakenFrom, Only
<1>5. DOMAIN msgs' \subseteq TickSequence \cup DOMAIN cmds
  BY <1>1, <1>2, <1>3 DEF TakenFrom, Only
<1> QED
  BY <1>1, <1>4, <1>5 DEF TakenFrom

(***************************************************************************)
(* The messages in a bag.                                                  *)
(***************************************************************************)
LEMMA InBagIs ==
  /\ InBag(None) = {}
  /\ \A m : InBag(One(m)) = {m}
  /\ \A m, n : InBag(InOrder(<<m, n>>)) = {m, n}
<1>1. InBag(None) = {}
  BY InOrderIs DEF InBag
<1>2. ASSUME NEW m PROVE InBag(One(m)) = {m}
  <2>1. DOMAIN One(m) = {<<m>>}
    BY InOrderIs DEF One
  <2> QED
    BY <2>1 DEF InBag
<1>3. ASSUME NEW m, NEW n PROVE InBag(InOrder(<<m, n>>)) = {m, n}
  <2>1. DOMAIN InOrder(<<m, n>>) = {<<m, n>>}
    BY InOrderIs
  <2>2. {<<m, n>>[i] : i \in DOMAIN <<m, n>>} = {m, n}
    OBVIOUS
  <2> QED
    BY <2>1, <2>2 DEF InBag
<1> QED
  BY <1>1, <1>2, <1>3

LEMMA InBagSum ==
  ASSUME NEW B, NEW C, IsABag(B), IsABag(C)
  PROVE  InBag(B (+) C) = InBag(B) \cup InBag(C)
<1>1. DOMAIN (B (+) C) = DOMAIN B \cup DOMAIN C
  BY SumIs
<1> HIDE DEF (+)
<1> QED
  BY <1>1 DEF InBag

LEMMA InBagLoads ==
  ASSUME NEW m, NEW f
  PROVE  /\ InBag(Loads(m, f)) = {m, Tick(f)}
         /\ DOMAIN Loads(m, f) = {<<m>>, <<Tick(f)>>}
         /\ m.type # "tick" => Loads(m, f)[<<m>>] = 1
<1>1. IsABag(One(m)) /\ IsABag(One(Tick(f)))
  BY LoadsIsABag
<1>2. InBag(Loads(m, f)) = {m, Tick(f)}
  BY <1>1, InBagSum, InBagIs DEF Loads
<1>3. DOMAIN One(m) = {<<m>>} /\ DOMAIN One(Tick(f)) = {<<Tick(f)>>} /\ One(m)[<<m>>] = 1
  BY InOrderIs DEF One
<1>4. DOMAIN Loads(m, f) = {<<m>>, <<Tick(f)>>}
  <2>1. DOMAIN (One(m) (+) One(Tick(f))) = DOMAIN One(m) \cup DOMAIN One(Tick(f))
    BY <1>1, SumIs
  <2> QED
    BY <1>3, <2>1 DEF Loads
<1>5. ASSUME m.type # "tick" PROVE Loads(m, f)[<<m>>] = 1
  <2>1. <<m>> \in DOMAIN One(m) \ DOMAIN One(Tick(f))
    BY <1>3, <1>5 DEF Tick
  <2>2. \A e \in DOMAIN One(m) \ DOMAIN One(Tick(f)) : (One(m) (+) One(Tick(f)))[e] = One(m)[e]
    BY <1>1, SumIs
  <2> QED
    BY <1>3, <2>1, <2>2 DEF Loads
<1> QED
  BY <1>2, <1>4, <1>5

LEMMA InBagOver ==
  ASSUME NEW B, DOMAIN B \subseteq Lower
  PROVE  InBag(B) \subseteq Below \cup Ticks
BY DEF InBag, Lower

LEMMA OneOrTwo ==
  ASSUME NEW S, NEW a \in S, NEW b \in S
  PROVE  /\ <<a>> \in Seq(S) \ {<<>>} /\ <<a, b>> \in Seq(S) \ {<<>>}
         /\ <<a>> \o <<b>> = <<a, b>>
<1>1. <<a>> \in Seq(S) /\ <<b>> \in Seq(S) /\ <<a, b>> \in Seq(S)
  OBVIOUS
<1>2. <<a>> # <<>> /\ <<a, b>> # <<>>
  OBVIOUS
<1>3. <<a>> \o <<b>> = <<a, b>>
  <2> DEFINE s == <<a>> \o <<b>>
             t == <<a, b>>
  <2>1. s \in Seq(S) /\ Len(s) = 2 /\ s[1] = a /\ s[2] = b
    BY <1>1
  <2>2. t \in Seq(S) /\ Len(t) = 2 /\ t[1] = a /\ t[2] = b
    OBVIOUS
  <2> HIDE DEF s, t
  <2>3. s = [i \in 1 .. 2 |-> s[i]] /\ t = [i \in 1 .. 2 |-> t[i]]
    BY <2>1, <2>2
  <2>4. \A i \in 1 .. 2 : s[i] = t[i]
    <3>1. \A i \in 1 .. 2 : i = 1 \/ i = 2
      OBVIOUS
    <3> QED
      BY <2>1, <2>2, <3>1
  <2>5. s = t
    BY <2>3, <2>4
  <2> QED
    BY <2>5 DEF s, t
<1> QED
  BY <1>1, <1>2, <1>3

LEMMA InLower ==
  ASSUME NEW a \in Below \cup Ticks, NEW b \in Below \cup Ticks
  PROVE  <<a>> \in Lower /\ <<a, b>> \in Lower
BY OneOrTwo DEF Lower

\* Taking one of several: m is gone, or pending still; the rest is there.
LEMMA LowerTaken ==
  ASSUME IsABag(msgs), DOMAIN msgs \subseteq Lower, NEW m,
         NEW cmds, IsABag(cmds), DOMAIN cmds \subseteq Lower, Take(m, cmds)
  PROVE  /\ m \in Pending /\ m \in Below \cup Ticks
         /\ DOMAIN msgs' \subseteq Lower
         /\ InBag(msgs') \subseteq Pending \cup InBag(cmds)
         /\ (Pending \ {m}) \cup InBag(cmds) \subseteq InBag(msgs')
<1>1. PICK q \in DOMAIN msgs : Head(q) = m /\ TakenFrom(q, cmds)
  BY Taken
<1> DEFINE M == Below \cup Ticks
           t == Tail(q)
<1>2. q \in Seq(M) /\ q # <<>>
  BY DEF Lower
<1> HIDE DEF M
<1>3. /\ Len(q) \in Nat /\ Len(q) > 0 /\ DOMAIN q = 1 .. Len(q) /\ m = q[1] /\ m \in M
      /\ t \in Seq(M) /\ Len(t) = Len(q) - 1 /\ DOMAIN t = 1 .. Len(t)
      /\ \A i \in 1 .. Len(t) : t[i] = q[i + 1]
  BY <1>1, <1>2
<1>4. {t[i] : i \in DOMAIN t} \subseteq {q[i] : i \in DOMAIN q}
  BY <1>3
<1>5. {q[i] : i \in DOMAIN q} \ {m} \subseteq {t[i] : i \in DOMAIN t}
  <2>1. ASSUME NEW i \in 1 .. Len(q), q[i] # m PROVE \E j \in DOMAIN t : t[j] = q[i]
    <3>1. i - 1 \in 1 .. Len(t)
      BY <1>3, <2>1
    <3>2. t[i - 1] = q[i]
      BY <1>3, <3>1
    <3> QED
      BY <1>3, <3>1, <3>2
  <2> HIDE DEF t
  <2> QED
    BY <1>3, <2>1
<1> HIDE DEF t
<1>6. t = <<>> \/ DOMAIN InOrder(t) = {t}
  BY InOrderIs
<1>7. t = <<>> => DOMAIN InOrder(t) = {} /\ {t[i] : i \in DOMAIN t} = {}
  BY InOrderIs
<1>8. TakenFrom(q, cmds) /\ InOrder(Tail(q)) = InOrder(t)
  BY <1>1 DEF t
<1>9. /\ DOMAIN msgs' \subseteq DOMAIN msgs \cup DOMAIN InOrder(t) \cup DOMAIN cmds
      /\ (DOMAIN msgs \ {q}) \cup DOMAIN InOrder(t) \cup DOMAIN cmds \subseteq DOMAIN msgs'
  BY <1>8 DEF TakenFrom
<1>10. DOMAIN msgs' \subseteq Lower
  <2>1. DOMAIN InOrder(t) \subseteq Lower
    BY <1>3, <1>6, <1>7 DEF Lower, M
  <2> QED
    BY <1>9, <2>1
<1>11. m \in Pending
  BY <1>3 DEF Pending, InBag
<1>12. InBag(msgs') \subseteq Pending \cup InBag(cmds)
  <2> SUFFICES ASSUME NEW s \in DOMAIN msgs', NEW i \in DOMAIN s
               PROVE  s[i] \in Pending \cup InBag(cmds)
    BY DEF InBag
  <2>1. CASE s \in DOMAIN msgs \cup DOMAIN cmds
    BY <2>1 DEF Pending, InBag
  <2>2. CASE s \in DOMAIN InOrder(t)
    <3>1. s = t
      BY <1>6, <1>7, <2>2
    <3>2. s[i] \in {q[j] : j \in DOMAIN q}
      BY <1>4, <3>1
    <3> QED
      BY <3>2 DEF Pending, InBag
  <2> QED
    BY <1>9, <2>1, <2>2
<1>13. (Pending \ {m}) \cup InBag(cmds) \subseteq InBag(msgs')
  <2>1. InBag(cmds) \subseteq InBag(msgs')
    BY <1>9 DEF InBag
  <2>2. ASSUME NEW s \in DOMAIN msgs, NEW i \in DOMAIN s, s[i] # m PROVE s[i] \in InBag(msgs')
    <3>1. CASE s # q
      <4>1. s \in DOMAIN msgs'
        BY <1>9, <3>1
      <4> QED
        BY <4>1 DEF InBag
    <3>2. CASE s = q
      <4>1. PICK j \in DOMAIN t : t[j] = s[i]
        BY <1>5, <2>2, <3>2
      <4>2. t # <<>>
        BY <4>1
      <4>3. t \in DOMAIN msgs'
        BY <1>6, <1>9, <4>2
      <4> QED
        BY <4>1, <4>3 DEF InBag
    <3> QED
      BY <3>1, <3>2
  <2> QED
    BY <2>1, <2>2 DEF Pending, InBag
<1> QED
  BY <1>3, <1>10, <1>11, <1>12, <1>13 DEF M

(***************************************************************************)
(* What the cascade sends.                                                 *)
(***************************************************************************)
\* A row that is selected was loaded for the view's run.
LEMMA SelectedIs ==
  ASSUME NEW w, GoodSv(w), Consistent(w), SelectedResource(w.list) # NoSelection
  PROVE  /\ SelectedResource(w.list) \in Selection
         /\ SelectedResource(w.list).src.run = w.run
         /\ w.list # NoPane /\ w.run \in Run
<1>1. /\ w.list.cursor \in w.list.visible
      /\ SelectedResource(w.list) = [src |-> w.list.src, row |-> w.list.cursor]
  BY DEF SelectedResource, SelectedRef
<1>2. w.list.src # Nothing
  BY <1>1 DEF Consistent, Answered
<1>3. w.list # NoPane
  BY <1>2, NoPaneFields
<1>4. w.list \in Pane /\ w.list.src.run \in Run
  BY <1>2, <1>3 DEF GoodSv, GoodList, GoodPane
<1>5. w.list.src.run = w.run
  BY <1>4, PanesAssumption DEF Consistent
<1> QED
  BY <1>1, <1>3, <1>4, <1>5 DEF Selection, Pane

LEMMA PickedIs ==
  ASSUME NEW w, GoodSv(w), Consistent(w), w.picked # NoKind
  PROVE  w.picked \in Kind /\ w.run \in Run
<1>1. w.picked \in Kind
  BY DEF GoodSv, SingleViews, MaybeKind
<1>2. w.overview # NoPane
  BY DEF Consistent
<1> QED
  BY <1>1, <1>2 DEF GoodSv, GoodOverview, GoodPane, Pane

\* The messages of the cascade for w, and only these.
Asks(w, C) ==
  /\ \A m \in C : \/ KindMoved(w) /\ m = KindSelected(w.picked)
                  \/ ResourceMoved(w) /\ m = ResourceSelected(SelectedResource(w.list))
  /\ KindMoved(w) \/ ResourceMoved(w) => C # {}

LEMMA CascadeIs ==
  ASSUME NEW w, GoodSv(w), Consistent(w)
  PROVE  /\ Synced(w) = w
         /\ IsABag(InOrder(Cascade(w))) /\ DOMAIN InOrder(Cascade(w)) \subseteq Lower
         /\ Asks(w, InBag(InOrder(Cascade(w))))
         /\ ~KindMoved(w) /\ ~ResourceMoved(w) => Cascade(w) = <<>>
<1> DEFINE k == KindSelected(w.picked)
           r == ResourceSelected(SelectedResource(w.list))
<1>1. ~ScopeMoved(w)
  BY DEF Consistent, ScopeMoved
<1>2. Synced(w) = w
  BY <1>1 DEF Synced
<1>3. IsABag(InOrder(Cascade(w)))
  BY InOrderIsABag
<1>4. KindMoved(w) => k \in Below
  BY PickedIs DEF KindMoved, KindSelected, Below
<1>5. ResourceMoved(w) => r \in Below
  BY SelectedIs DEF ResourceMoved, ResourceSelected, Below
<1>6. Cascade(w) = (IF KindMoved(w) THEN <<k>> ELSE <<>>) \o (IF ResourceMoved(w) THEN <<r>> ELSE <<>>)
  BY <1>1 DEF Cascade
<1> HIDE DEF k, r
<1>7. CASE ~KindMoved(w) /\ ~ResourceMoved(w)
  <2>1. Cascade(w) = <<>>
    BY <1>6, <1>7
  <2> QED
    BY <1>2, <1>3, <1>7, <2>1, InOrderIs, InBagIs DEF Asks
<1>8. CASE KindMoved(w) /\ ~ResourceMoved(w)
  <2>1. Cascade(w) = <<k>>
    BY <1>6, <1>8
  <2>2. DOMAIN InOrder(Cascade(w)) = {<<k>>} /\ <<k>> \in Lower
    BY <1>4, <1>8, <2>1, InOrderIs, InLower
  <2>3. InBag(InOrder(Cascade(w))) = {k}
    BY <2>1, InBagIs DEF One
  <2> QED
    BY <1>2, <1>3, <1>8, <2>2, <2>3 DEF Asks, k
<1>9. CASE ~KindMoved(w) /\ ResourceMoved(w)
  <2>1. Cascade(w) = <<r>>
    BY <1>6, <1>9
  <2>2. DOMAIN InOrder(Cascade(w)) = {<<r>>} /\ <<r>> \in Lower
    BY <1>5, <1>9, <2>1, InOrderIs, InLower
  <2>3. InBag(InOrder(Cascade(w))) = {r}
    BY <2>1, InBagIs DEF One
  <2> QED
    BY <1>2, <1>3, <1>9, <2>2, <2>3 DEF Asks, r
<1>10. CASE KindMoved(w) /\ ResourceMoved(w)
  <2>1. Cascade(w) = <<k, r>>
    <3>1. Cascade(w) = <<k>> \o <<r>>
      BY <1>6, <1>10
    <3> QED
      BY <1>4, <1>5, <1>10, <3>1, OneOrTwo
  <2>2. DOMAIN InOrder(Cascade(w)) = {<<k, r>>} /\ <<k, r>> \in Lower
    <3>1. <<k, r>> \in Lower /\ <<k, r>> # <<>>
      BY <1>4, <1>5, <1>10, InLower
    <3> QED
      BY <2>1, <3>1, InOrderIs
  <2>3. InBag(InOrder(Cascade(w))) = {k, r}
    BY <2>1, InBagIs
  <2> QED
    BY <1>2, <1>3, <1>10, <2>2, <2>3 DEF Asks, k, r
<1> QED
  BY <1>7, <1>8, <1>9, <1>10

\* What the cascade asks for fits the view it looked at.
LEMMA AskedFits ==
  ASSUME NEW w, GoodSv(w), Consistent(w), NEW C, Asks(w, C), NEW m \in C
  PROVE  /\ m \in Below /\ m.type \in {"kind", "resource"}
         /\ m.type = "resource" => m.row.src.run = w.run
         /\ m.type = "kind" => m.kind = w.picked
<1>1. CASE KindMoved(w) /\ m = KindSelected(w.picked)
  BY <1>1, PickedIs DEF KindMoved, KindSelected, Below
<1>2. CASE ResourceMoved(w) /\ m = ResourceSelected(SelectedResource(w.list))
  BY <1>2, SelectedIs DEF ResourceMoved, ResourceSelected, Below
<1> QED
  BY <1>1, <1>2 DEF Asks

\* After a look at the cascade: message m has been taken from P, and Q is
\* pending now.
LEMMA Looked ==
  ASSUME NEW w, GoodSv(w), Consistent(w), NEW P, Fits(w, P),
         NEW m, m.type # "swap", Awaits(w, P \ {m}),
         NEW C, Asks(w, C), NEW Q, (P \ {m}) \cup C \subseteq Q, Q \subseteq P \cup C \cup Ticks
  PROVE  Cascading(w, Q)
<1>1. Unasked(w, Q) => Unasked(w, P)
  BY DEF Unasked
<1>2. ASSUME NEW n \in Q
      PROVE  /\ n.type \in {"rows", "edges"} => n.run = w.run
             /\ n.type = "resource" => n.row.src.run = w.run
             /\ n.type = "swap" => w.run # NoRun
             /\ Unasked(w, Q) /\ n.type \in {"kind", "rows"} => n.kind = w.picked
  <2>1. CASE n \in P
    BY <1>1, <2>1 DEF Fits
  <2>2. CASE n \in C
    BY <2>2, AskedFits
  <2>3. CASE n \in Ticks
    BY <2>3 DEF Ticks
  <2> QED
    BY <2>1, <2>2, <2>3
<1>3. Fits(w, Q)
  BY <1>1, <1>2 DEF Fits
<1>4. Awaits(w, Q)
  BY DEF Awaits
<1>5. Follows(w, Q)
  BY AskedFits DEF Follows, Asks
<1> QED
  BY <1>3, <1>4, <1>5 DEF Cascading

(***************************************************************************)
(* A message below the overview is taken.                                  *)
(***************************************************************************)
LEMMA FillingStep ==
  ASSUME SvInv, Filling, NEW m, NEW w, NEW cmds, IsABag(cmds), DOMAIN cmds \subseteq Lower,
         Handle(m, w, cmds),
         \A Q : /\ (Pending \ {m}) \cup InBag(cmds) \subseteq Q
                /\ Q \subseteq Pending \cup InBag(cmds)
               => Cascading(w, Q)
  PROVE  Filling'
<1>1. Take(m, cmds) /\ sv' = w
  BY DEF Handle
<1>2. IsABag(msgs) /\ DOMAIN msgs \subseteq Lower
  BY DEF SvInv, Filling
<1>3. /\ DOMAIN msgs' \subseteq Lower
      /\ InBag(msgs') \subseteq Pending \cup InBag(cmds)
      /\ (Pending \ {m}) \cup InBag(cmds) \subseteq InBag(msgs')
  BY <1>1, <1>2, LowerTaken
<1>4. Cascading(sv', InBag(msgs'))
  BY <1>1, <1>3
<1> QED
  BY <1>3, <1>4 DEF Filling, Pending

LEMMA LowerPending ==
  ASSUME SvInv, Filling, NEW m, NEW cmds, Take(m, cmds)
  PROVE  m \in Pending /\ m \in Below \cup Ticks
<1>1. PICK q \in DOMAIN msgs : Head(q) = m
  BY DEF Take
<1> DEFINE M == Below \cup Ticks
<1>2. q \in Seq(M) /\ q # <<>>
  BY DEF Filling, Lower
<1> HIDE DEF M
<1>3. Len(q) \in Nat /\ Len(q) > 0 /\ DOMAIN q = 1 .. Len(q) /\ m = q[1] /\ m \in M
  BY <1>1, <1>2
<1> QED
  BY <1>3 DEF Pending, InBag, M

\* It was for all panes, and the cascade looks at them.
LEMMA FillingBroadcast ==
  ASSUME SvInv, Filling, NEW m, m.type # "swap",
         NEW w, GoodSv(w), Consistent(w), Fits(w, Pending), Awaits(w, Pending \ {m}),
         NEW more, IsABag(more), DOMAIN more \subseteq Lower, InBag(more) \subseteq Ticks,
         Handle(m, Synced(w), InOrder(Cascade(w)) (+) more)
  PROVE  Filling'
<1> DEFINE C == InOrder(Cascade(w))
           cmds == C (+) more
<1>1. /\ Synced(w) = w
      /\ IsABag(C) /\ DOMAIN C \subseteq Lower /\ Asks(w, InBag(C))
  BY CascadeIs
<1> HIDE DEF C
<1>2. IsABag(cmds) /\ DOMAIN cmds \subseteq Lower /\ InBag(cmds) = InBag(C) \cup InBag(more)
  <2>1. IsABag(cmds) /\ InBag(cmds) = InBag(C) \cup InBag(more)
    BY <1>1, AddIsABag, InBagSum
  <2>2. DOMAIN (C (+) more) = DOMAIN C \cup DOMAIN more
    BY <1>1, SumIs
  <2> QED
    BY <1>1, <2>1, <2>2
<1>3. Handle(m, w, cmds)
  BY <1>1 DEF C
<1> HIDE DEF cmds
<1>4. ASSUME NEW Q, (Pending \ {m}) \cup InBag(cmds) \subseteq Q, Q \subseteq Pending \cup InBag(cmds)
      PROVE  Cascading(w, Q)
  <2>1. (Pending \ {m}) \cup InBag(C) \subseteq Q /\ Q \subseteq Pending \cup InBag(C) \cup Ticks
    BY <1>2, <1>4
  <2> QED
    BY <1>1, <2>1, Looked
<1> QED
  BY <1>2, <1>3, <1>4, FillingStep

LEMMA NoneIsNothing ==
  ASSUME NEW B, IsABag(B)
  PROVE  B (+) None = B /\ None (+) B = B
<1>1. DOMAIN None = {} /\ IsABag(None)
  BY InOrderIs, EmptyIsABag DEF None
<1>2. \A e \in DOMAIN B : B[e] \in Nat
  BY DEF IsABag
<1>3. B = [e \in DOMAIN B |-> B[e]]
  BY DEF IsABag
<1>4. B (+) None = [e \in DOMAIN B |-> B[e] + 0]
  BY <1>1 DEF (+)
<1>5. None (+) B = [e \in DOMAIN B |-> 0 + B[e]]
  BY <1>1 DEF (+)
<1>6. \A e \in DOMAIN B : B[e] + 0 = B[e] /\ 0 + B[e] = B[e]
  BY <1>2
<1> QED
  BY <1>3, <1>4, <1>5, <1>6

LEMMA FillingBroadcasts ==
  ASSUME SvInv, Filling, NEW m, m.type # "swap",
         NEW w, GoodSv(w), Consistent(w), Fits(w, Pending), Awaits(w, Pending \ {m}),
         Broadcast(m, w)
  PROVE  Filling'
<1>1. InOrder(Cascade(w)) = InOrder(Cascade(w)) (+) None
  BY InOrderIsABag, NoneIsNothing
<1>2. IsABag(None) /\ DOMAIN None = {} /\ InBag(None) = {}
  BY EmptyIsABag, InOrderIs, InBagIs DEF None
<1>3. Handle(m, Synced(w), InOrder(Cascade(w)) (+) None)
  BY <1>1 DEF Broadcast
<1> QED
  BY <1>2, <1>3, FillingBroadcast

(***************************************************************************)
(* What the handlers below the overview do to the view.                    *)
(***************************************************************************)
\* A list that shows other rows of the same answer.
SameRows(p, q) ==
  /\ SamePane(p, q) /\ (p # NoPane => q # NoPane)
  /\ q.src = p.src /\ q.loaded = p.loaded /\ q.kind = p.kind
  /\ p.visible \subseteq Answered(p.src) => q.visible \subseteq Answered(q.src)

LEMMA FilteredRows ==
  ASSUME NEW p, NEW o, o \in Pane, o.src = p.src, o.loaded = p.loaded, o.kind = p.kind,
         NEW v \in SUBSET Answered(p.src), NEW q \in Filtered(o, v)
  PROVE  /\ q.src = p.src /\ q.loaded = p.loaded /\ q.kind = p.kind /\ q.filter = o.filter
         /\ q.visible \subseteq Answered(q.src)
<1>1. PICK c \in v \cup {0} : q = [o EXCEPT !.visible = v, !.cursor = c]
  BY DEF Filtered
<1>2. /\ q.src = o.src /\ q.loaded = o.loaded /\ q.kind = o.kind /\ q.filter = o.filter
      /\ q.visible = v
  BY <1>1 DEF Pane
<1> QED
  BY <1>2

LEMMA PaneIsThere ==
  ASSUME NEW p, GoodPane(p)
  PROVE  p # NoPane
BY PanesAssumption, NoPaneFields DEF GoodPane, Pane

LEMMA RefiltersRows ==
  ASSUME NEW w, GoodSv(w), NEW p \in Refilters(w.list)
  PROVE  SameRows(w.list, p) /\ p.filter = w.list.filter
<1>1. SamePane(w.list, p)
  BY RefiltersSame
<1>2. CASE p = w.list
  BY <1>1, <1>2 DEF SameRows
<1>3. CASE p # w.list
  <2>1. /\ w.list # NoPane /\ GoodPane(p)
        /\ p \in Filtered(w.list, Answered(w.list.src) \ w.list.hides)
    BY <1>1, <1>3 DEF Refilters, Refiltered, SamePane
  <2>2. w.list \in Pane
    BY <2>1 DEF GoodSv, GoodList, GoodPane
  <2>3. /\ p.src = w.list.src /\ p.loaded = w.list.loaded /\ p.kind = w.list.kind
        /\ p.filter = w.list.filter /\ p.visible \subseteq Answered(p.src)
    BY <2>1, <2>2, FilteredRows
  <2> QED
    BY <1>1, <2>1, <2>3, PaneIsThere DEF SameRows
<1> QED
  BY <1>2, <1>3

LEMMA ListKept ==
  ASSUME NEW w, GoodSv(w), Consistent(w), NEW P, Fits(w, P), Awaits(w, P),
         NEW p, SameRows(w.list, p), p.filter => w.focus = "list"
  PROVE  LET n == [w EXCEPT !.list = p]
         IN  GoodSv(n) /\ Consistent(n) /\ Fits(n, P) /\ Awaits(n, P)
<1> DEFINE n == [w EXCEPT !.list = p]
<1>1. GoodSv(n)
  BY ListKeptGood DEF SameRows
<1>2. /\ n.scopes = w.scopes /\ n.run = w.run /\ n.overview = w.overview /\ n.picked = w.picked
      /\ n.list = p /\ n.listFor = w.listFor /\ n.detail = w.detail
      /\ n.detailFor = w.detailFor /\ n.focus = w.focus /\ n.wanted = w.wanted
  BY DEF GoodSv, SingleViews
<1> HIDE DEF n
<1>3. Consistent(n)
  BY <1>2 DEF Consistent, SameRows
<1>4. Fits(n, P)
  BY <1>2 DEF Fits, Unasked, SameRows
<1>5. Awaits(n, P)
  <2>1. p # NoPane => w.list # NoPane
    BY DEF SameRows, SamePane
  <2> QED
    BY <1>2, <2>1 DEF Awaits, SameRows
<1> QED
  BY <1>1, <1>3, <1>4, <1>5 DEF n

\* A message nothing below the overview waits for.
LEMMA AwaitsLess ==
  ASSUME NEW w, NEW P, Awaits(w, P), NEW m,
         m.type = "rows" => w.list = NoPane \/ w.list.loaded,
         m.type = "edges" => w.detail = NoDetail \/ w.detail.loaded
  PROVE  Awaits(w, P \ {m})
BY DEF Awaits

LEMMA TickFills ==
  ASSUME SvInv, Filling, NEW f \in Panel, TakeTick(f)
  PROVE  Filling'
<1>1. PICK p \in Refilters(sv.list) :
        LET w    == [sv EXCEPT !.list = p]
            more == InOrder(Cascade(w)) (+) IF StillLoading(w, f) THEN One(Tick(f)) ELSE None
        IN  Handle(Tick(f), Synced(w), more)
  BY DEF TakeTick
<1> DEFINE w    == [sv EXCEPT !.list = p]
           more == IF StillLoading(w, f) THEN One(Tick(f)) ELSE None
<1>2. GoodSv(sv) /\ Consistent(sv) /\ Fits(sv, Pending) /\ Awaits(sv, Pending)
  BY DEF SvInv, Filling, Cascading
<1>3. GoodSv(w) /\ Consistent(w) /\ Fits(w, Pending) /\ Awaits(w, Pending)
  BY <1>2, RefiltersRows, ListKept DEF Consistent
<1>4. IsABag(more) /\ DOMAIN more \subseteq Lower /\ InBag(more) \subseteq Ticks
  <2>1. Tick(f) \in Ticks
    BY DEF Tick, Ticks
  <2>2. DOMAIN One(Tick(f)) = {<<Tick(f)>>} /\ InBag(One(Tick(f))) = {Tick(f)}
    BY InOrderIs, InBagIs DEF One
  <2>3. <<Tick(f)>> \in Lower
    BY <2>1, InLower
  <2>4. IsABag(One(Tick(f))) /\ IsABag(None) /\ DOMAIN None = {} /\ InBag(None) = {}
    BY LoadsIsABag, EmptyIsABag, InOrderIs, InBagIs DEF None
  <2> QED
    BY <2>1, <2>2, <2>3, <2>4
<1>5. Handle(Tick(f), Synced(w), InOrder(Cascade(w)) (+) more)
  BY <1>1
<1> HIDE DEF more, w
<1>6. Tick(f).type = "tick"
  BY DEF Tick
<1>7. Awaits(w, Pending \ {Tick(f)})
  BY <1>3, <1>6, AwaitsLess
<1> QED
  BY <1>3, <1>4, <1>5, <1>6, <1>7, FillingBroadcast

LEMMA EdgesFill ==
  ASSUME SvInv, Filling, NEW r \in Run, NEW ok \in BOOLEAN, TakeEdgesLoad(r, ok)
  PROVE  Filling'
<1> DEFINE e == IF ok THEN r ELSE NoRun
           d == TakeEdges(sv.detail, e)
           m == EdgesLoad(r)
<1>1. PICK p \in Refilters(sv.list) : Broadcast(m, [sv EXCEPT !.list = p, !.detail = d])
  BY DEF TakeEdgesLoad
<1> DEFINE v == [sv EXCEPT !.list = p]
           w == [sv EXCEPT !.list = p, !.detail = d]
<1>2. GoodSv(sv) /\ Consistent(sv) /\ Fits(sv, Pending) /\ Awaits(sv, Pending)
  BY DEF SvInv, Filling, Cascading
<1>3. GoodSv(v) /\ Consistent(v) /\ Fits(v, Pending) /\ Awaits(v, Pending)
  BY <1>2, RefiltersRows, ListKept DEF Consistent
<1>4. m.type = "edges" /\ m.run = r /\ m \in Pending
  <2>1. PICK cmds : Take(m, cmds)
    BY <1>1 DEF Broadcast, Handle
  <2> QED
    BY <2>1, LowerPending DEF EdgesLoad
<1>5. r = sv.run
  BY <1>2, <1>4 DEF Fits
<1>6. e \in MaybeRun /\ e \in {NoRun, sv.run}
  BY <1>5 DEF MaybeRun
<1>7. sv.detail \in Detail /\ NoDetail \in Detail /\ v.detail = sv.detail
  BY <1>2, NoDetailType DEF GoodSv, SingleViews
<1>8. /\ d \in Detail /\ d.run = sv.detail.run
      /\ sv.detail = NoDetail <=> d = NoDetail
      /\ sv.detail # NoDetail => d.loaded /\ d.src = sv.detail.src /\ d.edges = e
  <2>1. CASE sv.detail = NoDetail
    BY <1>7, <2>1 DEF TakeEdges
  <2>2. CASE sv.detail # NoDetail
    <3>1. d = [sv.detail EXCEPT !.loaded = TRUE, !.edges = e]
      BY <2>2 DEF TakeEdges
    <3>2. d \in Detail /\ d.run = sv.detail.run /\ d.src = sv.detail.src /\ d.loaded /\ d.edges = e
      BY <1>6, <1>7, <3>1 DEF Detail
    <3>3. d # NoDetail
      BY <3>2 DEF NoDetail
    <3> QED
      BY <2>2, <3>2, <3>3
  <2> QED
    BY <2>1, <2>2
<1> HIDE DEF d
<1>9. w = [v EXCEPT !.detail = d]
  BY <1>2 DEF GoodSv, SingleViews
<1>10. /\ w \in SingleViews
       /\ w.scopes = v.scopes /\ w.run = v.run /\ w.overview = v.overview /\ w.picked = v.picked
       /\ w.list = v.list /\ w.listFor = v.listFor /\ w.detail = d
       /\ w.detailFor = v.detailFor /\ w.focus = v.focus /\ w.wanted = v.wanted
  BY <1>3, <1>8, <1>9 DEF GoodSv, SingleViews
<1>11. v.run = sv.run
  BY <1>2 DEF GoodSv, SingleViews
<1> HIDE DEF w, v, m, e
<1>12. GoodSv(w)
  BY <1>3, <1>7, <1>8, <1>10, KeptGood DEF SamePane
<1>13. Consistent(w)
  BY <1>3, <1>6, <1>7, <1>8, <1>10, <1>11 DEF Consistent
<1>14. Fits(w, Pending)
  BY <1>3, <1>10 DEF Fits, Unasked
<1>15. Awaits(w, Pending \ {m})
  BY <1>3, <1>4, <1>7, <1>8, <1>10 DEF Awaits
<1>16. Broadcast(m, w)
  BY <1>1 DEF w
<1> QED
  BY <1>4, <1>12, <1>13, <1>14, <1>15, <1>16, FillingBroadcasts

LEMMA RowsFill ==
  ASSUME SvInv, Filling, NEW r \in Run, NEW k \in Kind, NEW ok \in BOOLEAN, TakeRowsLoad(r, k, ok)
  PROVE  Filling'
<1> DEFINE s == IF ok THEN [run |-> r, kind |-> k] ELSE Nothing
           m == RowsLoad(r, k)
<1>1. PICK p \in IF sv.list = NoPane THEN {NoPane} ELSE TakeRows(sv.list, s) :
        Broadcast(m, [sv EXCEPT !.list = p])
  BY DEF TakeRowsLoad
<1> DEFINE w == [sv EXCEPT !.list = p]
<1>2. GoodSv(sv) /\ Consistent(sv) /\ Fits(sv, Pending) /\ Awaits(sv, Pending)
  BY DEF SvInv, Filling, Cascading
<1>3. m.type = "rows" /\ m.run = r /\ m.kind = k /\ m \in Pending
  <2>1. PICK cmds : Take(m, cmds)
    BY <1>1 DEF Broadcast, Handle
  <2> QED
    BY <2>1, LowerPending DEF RowsLoad
<1>4. r = sv.run /\ (Unasked(sv, Pending) => k = sv.picked)
  BY <1>2, <1>3 DEF Fits
<1>5. s \in Source /\ GoodSource(s) /\ s.run \in {NoRun, sv.run}
      /\ (s = Nothing \/ s = [run |-> sv.run, kind |-> k])
  BY <1>4 DEF Source, Nothing, MaybeRun, MaybeKind, GoodSource
<1> HIDE DEF s
<1>6. SamePane(sv.list, p)
  BY <1>1, <1>2, <1>5, TakeRowsGood DEF SamePane, GoodSv, GoodList
<1>7. sv.list # NoPane => /\ p.loaded /\ p.src = s /\ p.visible = Answered(s)
                         /\ p.filter = sv.list.filter /\ p # NoPane
  <2> SUFFICES ASSUME sv.list # NoPane
               PROVE  /\ p.loaded /\ p.src = s /\ p.visible = Answered(s)
                      /\ p.filter = sv.list.filter /\ p # NoPane
    OBVIOUS
  <2>1. ~IsOverview(sv.list) /\ sv.list \in Pane /\ GoodPane(sv.list)
    BY <1>2 DEF GoodSv, GoodList, GoodPane
  <2>2. PICK c \in Nat :
          p = [sv.list EXCEPT !.loaded = TRUE, !.src = s, !.visible = Answered(s),
                              !.jump = 0, !.cursor = c]
    BY <1>1, <1>5, <2>1, AnsweredAreNat DEF TakeRows
  <2>3. /\ p.loaded /\ p.src = s /\ p.visible = Answered(s) /\ p.filter = sv.list.filter
    BY <2>1, <2>2 DEF Pane
  <2>4. GoodPane(p)
    BY <1>6, <2>1 DEF SamePane
  <2> QED
    BY <2>3, <2>4, PaneIsThere
<1>8. /\ w \in SingleViews
      /\ w.scopes = sv.scopes /\ w.run = sv.run /\ w.overview = sv.overview
      /\ w.picked = sv.picked /\ w.list = p /\ w.listFor = sv.listFor
      /\ w.detail = sv.detail /\ w.detailFor = sv.detailFor /\ w.focus = sv.focus
      /\ w.wanted = sv.wanted
  BY <1>2, <1>6 DEF GoodSv, SingleViews, SamePane, GoodPane
<1>9. GoodSv(w)
  BY <1>2, <1>6, ListKeptGood
<1> HIDE DEF w, m
<1>10. CASE sv.list = NoPane
  <2>1. w = sv
    <3>1. p = sv.list
      BY <1>1, <1>10
    <3> QED
      BY <1>2, <3>1 DEF w, GoodSv, SingleViews
  <2>2. Awaits(w, Pending \ {m})
    BY <1>2, <1>3, <1>10, <2>1, AwaitsLess
  <2> QED
    BY <1>1, <1>2, <1>3, <2>1, <2>2, FillingBroadcasts DEF w
<1>11. CASE sv.list # NoPane
  <2>1. Consistent(w)
    BY <1>2, <1>5, <1>7, <1>8, <1>11 DEF Consistent
  <2>2. Fits(w, Pending)
    <3>1. Unasked(w, Pending) => Unasked(sv, Pending)
      BY <1>8 DEF Unasked
    <3>2. Unasked(w, Pending) => \/ s \in {Nothing, [run |-> w.run, kind |-> w.listFor]}
                                 \/ w.picked \notin {NoKind, w.listFor}
      <4> SUFFICES ASSUME Unasked(w, Pending), w.picked \in {NoKind, w.listFor}
                   PROVE  s \in {Nothing, [run |-> w.run, kind |-> w.listFor]}
        OBVIOUS
      <4>1. w.picked = k /\ k # NoKind
        BY <1>4, <1>8, <3>1, PanesAssumption
      <4> QED
        BY <1>5, <1>8, <4>1
    <3> QED
      BY <1>2, <1>7, <1>8, <1>11, <3>1, <3>2 DEF Fits
  <2>3. Awaits(w, Pending \ {m})
    BY <1>2, <1>3, <1>7, <1>8, <1>11 DEF Awaits
  <2>4. Broadcast(m, w)
    BY <1>1 DEF w
  <2> QED
    BY <1>3, <1>9, <2>1, <2>2, <2>3, <2>4, FillingBroadcasts
<1> QED
  BY <1>10, <1>11

\* A message that finds no run: nothing happens.
LEMMA NoRunFills ==
  ASSUME SvInv, Filling, sv.run = NoRun, NEW m, m.type \in {"kind", "resource"},
         Handle(m, sv, None)
  PROVE  Filling'
<1>1. GoodSv(sv) /\ Consistent(sv) /\ Fits(sv, Pending) /\ Awaits(sv, Pending)
  BY DEF SvInv, Filling, Cascading
<1>2. IsABag(None) /\ DOMAIN None = {} /\ InBag(None) = {}
  BY EmptyIsABag, InOrderIs, InBagIs DEF None
<1>3. ~KindMoved(sv) /\ ~ResourceMoved(sv)
  BY <1>1, PickedIs, SelectedIs, PanesAssumption DEF KindMoved, ResourceMoved
<1>4. ASSUME NEW Q, Pending \ {m} \subseteq Q, Q \subseteq Pending
      PROVE  Cascading(sv, Q)
  <2>1. Unasked(sv, Q) => Unasked(sv, Pending)
    BY <1>4 DEF Unasked
  <2>2. Fits(sv, Q)
    BY <1>1, <1>4, <2>1 DEF Fits
  <2>3. Awaits(sv, Q)
    BY <1>1, <1>4 DEF Awaits
  <2> QED
    BY <1>1, <1>3, <2>2, <2>3 DEF Cascading, Follows
<1> QED
  BY <1>2, <1>4, FillingStep

\* n is w with a new list of kind k, and nothing below that.
NewList(n, w, k) ==
  /\ n.scopes = w.scopes /\ n.run = w.run /\ n.overview = w.overview
  /\ n.picked = w.picked /\ n.list.src = Nothing /\ n.list.visible = {}
  /\ n.list.filter = FALSE /\ n.listFor = k
  /\ n.detail = NoDetail /\ n.detailFor = NoSelection

LEMMA WithListFields ==
  ASSUME NEW w, GoodSv(w), w.run # NoRun, NEW k \in Kind, NEW i \in Nat
  PROVE  NewList(WithList(w, k, i), w, k) /\ WithList(w, k, i).wanted = w.wanted
<1> DEFINE e == WithoutList(w)
           p == NewResourceList(w.run, k, i)
<1>1. e \in SingleViews
  BY WithoutListGood DEF GoodSv
<1>2. /\ e.scopes = w.scopes /\ e.run = w.run /\ e.overview = w.overview
      /\ e.picked = w.picked /\ e.detail = NoDetail /\ e.detailFor = NoSelection
      /\ e.focus = w.focus /\ e.wanted = w.wanted
  BY DEF WithoutList, GoodSv, SingleViews
<1>3. p.src = Nothing /\ p.visible = {} /\ p.filter = FALSE
  BY DEF NewResourceList, NewOverview
<1>4. WithList(w, k, i) = [e EXCEPT !.list = p, !.listFor = k]
  BY DEF WithList
<1> HIDE DEF e, p
<1> QED
  BY <1>1, <1>2, <1>3, <1>4 DEF SingleViews, NewList

\* The list is replaced and its rows are asked for.
LEMMA NewListFits ==
  ASSUME NEW w, GoodSv(w), w.run # NoRun, NEW P, Cascading(w, P),
         NEW k \in Kind, NEW m, NEW n, NewList(n, w, k),
         \/ m.type = "kind" /\ m.kind = k /\ m \in P /\ n.wanted = w.wanted
         \/ m.type = "swap" /\ n.wanted = k,
         NEW Q, (P \ {m}) \cup {RowsLoad(w.run, k), Tick("list")} \subseteq Q,
         Q \subseteq P \cup {RowsLoad(w.run, k), Tick("list")}
  PROVE  Cascading(n, Q)
<1>1. Consistent(n)
  BY DEF Cascading, Consistent, Nothing, NewList
<1>2. Unasked(n, Q) => Unasked(w, P) /\ k = w.picked /\ m.type = "kind"
  <2> SUFFICES ASSUME Unasked(n, Q) PROVE Unasked(w, P) /\ k = w.picked /\ m.type = "kind"
    OBVIOUS
  <2>1. m.type = "kind" /\ m.kind = k /\ m \in P /\ w.wanted = NoKind
    BY PanesAssumption DEF Unasked
  <2>2. Unasked(w, P)
    BY <2>1 DEF Unasked
  <2> QED
    BY <2>1, <2>2 DEF Cascading, Fits
<1>3. ASSUME NEW q \in Q
      PROVE  /\ q.type \in {"rows", "edges"} => q.run = n.run
             /\ q.type = "resource" => q.row.src.run = n.run
             /\ q.type = "swap" => n.run # NoRun
             /\ Unasked(n, Q) /\ q.type \in {"kind", "rows"} => q.kind = n.picked
  <2>1. CASE q \in P
    BY <1>2, <2>1 DEF Cascading, Fits, NewList
  <2>2. CASE q = RowsLoad(w.run, k)
    BY <1>2, <2>2 DEF RowsLoad, NewList
  <2>3. CASE q = Tick("list")
    BY <2>3 DEF Tick
  <2> QED
    BY <2>1, <2>2, <2>3
<1>4. Fits(n, Q)
  BY <1>3 DEF Fits, NewList
<1>5. RowsLoad(w.run, k) \in Q /\ RowsLoad(w.run, k).type = "rows"
  BY DEF RowsLoad
<1>6. Awaits(n, Q)
  BY <1>5 DEF Cascading, Awaits, NewList
<1>7. w.run \in Run
  BY DEF GoodSv, SingleViews, MaybeRun
<1>8. Follows(n, Q)
  BY <1>5, <1>7 DEF Follows, Below, RowsLoad
<1> QED
  BY <1>1, <1>4, <1>6, <1>8 DEF Cascading

LEMMA LoadsLower ==
  ASSUME NEW m \in Below, NEW f \in Panel
  PROVE  /\ IsABag(Loads(m, f)) /\ DOMAIN Loads(m, f) \subseteq Lower
         /\ InBag(Loads(m, f)) = {m, Tick(f)}
<1>1. Tick(f) \in Ticks
  BY DEF Tick, Ticks
<1>2. <<m>> \in Lower /\ <<Tick(f)>> \in Lower
  BY <1>1, InLower
<1>3. IsABag(Loads(m, f))
  BY LoadsIsABag
<1>4. /\ DOMAIN Loads(m, f) = {<<m>>, <<Tick(f)>>}
      /\ InBag(Loads(m, f)) = {m, Tick(f)}
  BY InBagLoads
<1> HIDE DEF Loads, Tick
<1> QED
  BY <1>2, <1>3, <1>4

LEMMA KindFills ==
  ASSUME SvInv, Filling, NEW k \in Kind, TakeKindSelected(k)
  PROVE  Filling'
<1> DEFINE m == KindSelected(k)
           n == WithList(sv, k, 0)
           cmds == Loads(RowsLoad(sv.run, k), "list")
<1>1. m.type = "kind" /\ m.kind = k
  BY DEF KindSelected
<1>2. CASE sv.run = NoRun
  BY <1>1, <1>2, NoRunFills DEF TakeKindSelected
<1>3. CASE sv.run # NoRun
  <2>1. GoodSv(sv) /\ Cascading(sv, Pending)
    BY DEF SvInv, Filling
  <2>2. sv.run \in Run
    BY <1>3, <2>1 DEF GoodSv, SingleViews, MaybeRun
  <2>3. RowsLoad(sv.run, k) \in Below
    BY <2>2 DEF RowsLoad, Below
  <2>4. /\ IsABag(cmds) /\ DOMAIN cmds \subseteq Lower
        /\ InBag(cmds) = {RowsLoad(sv.run, k), Tick("list")}
    BY <2>3, LoadsLower DEF Panel
  <2>5. Handle(m, n, cmds)
    BY <1>3 DEF TakeKindSelected
  <2>6. m \in Pending
    BY <2>5, LowerPending DEF Handle
  <2> HIDE DEF cmds, m
  <2>7. NewList(n, sv, k) /\ n.wanted = sv.wanted
    BY <1>3, <2>1, WithListFields
  <2> HIDE DEF n
  <2>8. ASSUME NEW Q, (Pending \ {m}) \cup InBag(cmds) \subseteq Q, Q \subseteq Pending \cup InBag(cmds)
        PROVE  Cascading(n, Q)
    <3>1. /\ (Pending \ {m}) \cup {RowsLoad(sv.run, k), Tick("list")} \subseteq Q
          /\ Q \subseteq Pending \cup {RowsLoad(sv.run, k), Tick("list")}
      BY <2>4, <2>8
    <3> QED
      BY <1>1, <1>3, <2>1, <2>6, <2>7, <3>1, NewListFits
  <2> QED
    BY <2>4, <2>5, <2>8, FillingStep
<1> QED
  BY <1>2, <1>3

LEMMA SwapFills ==
  ASSUME SvInv, Filling, NEW k \in Kind, NEW i \in Nat, TakeSwapLeft(k, i)
  PROVE  Filling'
<1> DEFINE m == SwapLeft(k, i)
           e == WithList(sv, k, i)
           n == SwappedLeft(sv, k, i)
           cmds == Loads(RowsLoad(sv.run, k), "list")
<1>1. m.type = "swap"
  BY DEF SwapLeft
<1>2. GoodSv(sv) /\ Cascading(sv, Pending)
  BY DEF SvInv, Filling
<1>3. m \in Pending
  BY LowerPending DEF TakeSwapLeft, Handle
<1>4. sv.run # NoRun
  BY <1>1, <1>2, <1>3 DEF Cascading, Fits
<1>5. sv.run \in Run
  BY <1>2, <1>4 DEF GoodSv, SingleViews, MaybeRun
<1>6. RowsLoad(sv.run, k) \in Below
  BY <1>5 DEF RowsLoad, Below
<1>7. /\ IsABag(cmds) /\ DOMAIN cmds \subseteq Lower
      /\ InBag(cmds) = {RowsLoad(sv.run, k), Tick("list")}
  BY <1>6, LoadsLower DEF Panel
<1>8. Handle(m, n, cmds)
  BY <1>4 DEF TakeSwapLeft
<1>9. /\ n.scopes = e.scopes /\ n.run = e.run /\ n.overview = e.overview
      /\ n.picked = e.picked /\ n.list = e.list /\ n.listFor = e.listFor
      /\ n.detail = e.detail /\ n.detailFor = e.detailFor /\ n.wanted = k
  <2>1. e \in SingleViews
    BY <1>2, <1>4, WithListGood DEF GoodSv
  <2>2. n = [e EXCEPT !.focus = "list", !.wanted = k]
    BY DEF SwappedLeft
  <2> HIDE DEF e
  <2> QED
    BY <2>1, <2>2 DEF SingleViews
<1> HIDE DEF cmds, m, n, e
<1>10. NewList(n, sv, k) /\ n.wanted = k
  <2>1. NewList(e, sv, k)
    BY <1>2, <1>4, WithListFields DEF e
  <2> QED
    BY <1>9, <2>1 DEF NewList
<1>11. ASSUME NEW Q, (Pending \ {m}) \cup InBag(cmds) \subseteq Q, Q \subseteq Pending \cup InBag(cmds)
       PROVE  Cascading(n, Q)
  <2>1. /\ (Pending \ {m}) \cup {RowsLoad(sv.run, k), Tick("list")} \subseteq Q
        /\ Q \subseteq Pending \cup {RowsLoad(sv.run, k), Tick("list")}
    BY <1>7, <1>11
  <2> QED
    BY <1>1, <1>2, <1>4, <1>10, <2>1, NewListFits
<1> QED
  BY <1>7, <1>8, <1>11, FillingStep

LEMMA ResourceFills ==
  ASSUME SvInv, Filling, NEW s \in Selection, TakeResourceSelected(s)
  PROVE  Filling'
<1> DEFINE m == ResourceSelected(s)
           n == WithDetail(sv, s)
           edges == EdgesLoad(sv.run)
           cmds == Loads(edges, "detail")
<1>1. m.type = "resource" /\ m.row = s
  BY DEF ResourceSelected
<1>2. CASE sv.run = NoRun
  BY <1>1, <1>2, NoRunFills DEF TakeResourceSelected
<1>3. CASE sv.run # NoRun
  <2>1. GoodSv(sv) /\ Consistent(sv) /\ Fits(sv, Pending) /\ Awaits(sv, Pending)
    BY DEF SvInv, Filling, Cascading
  <2>2. sv.run \in Run
    BY <1>3, <2>1 DEF GoodSv, SingleViews, MaybeRun
  <2>3. edges \in Below /\ edges.type = "edges" /\ edges.run = sv.run
    BY <2>2 DEF EdgesLoad, Below
  <2>4. /\ IsABag(cmds) /\ DOMAIN cmds \subseteq Lower
        /\ InBag(cmds) = {edges, Tick("detail")}
    BY <2>3, LoadsLower DEF Panel
  <2>5. Handle(m, n, cmds)
    BY <1>3 DEF TakeResourceSelected
  <2>6. m \in Pending
    BY <2>5, LowerPending DEF Handle
  <2>7. s.src.run = sv.run
    BY <1>1, <2>1, <2>6 DEF Fits
  <2> DEFINE d == [NoDetail EXCEPT !.run = sv.run, !.src = s.src,
                                   !.ref = [kind |-> s.src.kind, row |-> s.row]]
  <2>8. d # NoDetail /\ d.src = s.src /\ d.edges = NoRun
    BY <1>3 DEF NoDetail
  <2>9. n = [sv EXCEPT !.detailFor = s, !.detail = d]
    BY DEF WithDetail
  <2> HIDE DEF cmds, m, edges, d
  <2>10. /\ n.scopes = sv.scopes /\ n.run = sv.run /\ n.overview = sv.overview
         /\ n.picked = sv.picked /\ n.list = sv.list /\ n.listFor = sv.listFor
         /\ n.detail = d /\ n.detailFor = s /\ n.focus = sv.focus /\ n.wanted = sv.wanted
    BY <2>1, <2>9 DEF GoodSv, SingleViews
  <2> HIDE DEF n
  <2>11. Consistent(n)
    BY <2>1, <2>7, <2>8, <2>10 DEF Consistent
  <2>12. ASSUME NEW Q, (Pending \ {m}) \cup InBag(cmds) \subseteq Q, Q \subseteq Pending \cup InBag(cmds)
         PROVE  Cascading(n, Q)
    <3>1. edges \in Q
      BY <2>4, <2>12
    <3>2. Unasked(n, Q) => Unasked(sv, Pending)
      BY <1>1, <2>10, <2>12 DEF Unasked
    <3>3. ASSUME NEW q \in Q
          PROVE  /\ q.type \in {"rows", "edges"} => q.run = n.run
                 /\ q.type = "resource" => q.row.src.run = n.run
                 /\ q.type = "swap" => n.run # NoRun
                 /\ Unasked(n, Q) /\ q.type \in {"kind", "rows"} => q.kind = n.picked
      <4>1. CASE q \in Pending
        BY <2>1, <2>10, <3>2, <4>1 DEF Fits
      <4>2. CASE q = edges
        BY <2>3, <2>10, <4>2
      <4>3. CASE q = Tick("detail")
        BY <4>3 DEF Tick
      <4> QED
        BY <2>4, <2>12, <4>1, <4>2, <4>3
    <3>4. Fits(n, Q)
      BY <2>1, <2>10, <3>2, <3>3 DEF Fits
    <3>5. Awaits(n, Q)
      BY <1>1, <2>1, <2>3, <2>10, <2>12, <3>1 DEF Awaits
    <3>6. Follows(n, Q)
      BY <2>3, <3>1 DEF Follows
    <3> QED
      BY <2>11, <3>4, <3>5, <3>6 DEF Cascading
  <2> QED
    BY <2>4, <2>5, <2>12, FillingStep
<1> QED
  BY <1>2, <1>3

(***************************************************************************)
(* Which action handles a message.                                         *)
(***************************************************************************)
Heads == {Head(q) : q \in DOMAIN msgs}

HandledAs(m) ==
  /\ m.type \in ForScreen \cup {"push", "pop", "quit", "scopesAlias", "submit", "switch"}
  /\ m.type = "push"        => PushScreen
  /\ m.type = "pop"         => PopScreen
  /\ m.type = "quit"        => TakeQuit
  /\ m.type = "scopesAlias" => SubmitScopes
  /\ m.type = "submit"      => SubmitKind
  /\ m.type = "switch"      => TakeSwitchRun
  /\ m.type \in ForScreen /\ ~Reached => Swallowed
  /\ m.type = "tick" /\ Reached => \E f \in Panel : TakeTick(f)
  /\ m.type = "kind" /\ Reached => \E k \in Kind : TakeKindSelected(k)
  /\ m.type = "swap" /\ Reached => \E k \in Kind, i \in Nat : TakeSwapLeft(k, i)
  /\ m.type = "resource" /\ Reached => \E s \in Selection : TakeResourceSelected(s)
  /\ m.type = "scopes" /\ Reached => \E ok \in BOOLEAN : TakeScopesLoad(ok)
  /\ m.type = "resolve" /\ Reached =>
       \E r \in Run, ok \in BOOLEAN : m.run = r /\ TakeScopeSelected(r, ok)
  /\ m.type = "overview" /\ Reached =>
       \E r \in Run, ok \in BOOLEAN : m.run = r /\ TakeOverviewLoad(r, ok)
  /\ m.type = "edges" /\ Reached => \E r \in Run, ok \in BOOLEAN : TakeEdgesLoad(r, ok)
  /\ m.type = "rows" /\ Reached =>
       \E r \in Run, k \in Kind, ok \in BOOLEAN : TakeRowsLoad(r, k, ok)

LEMMA HandledTaken ==
  ASSUME NEW m, NEW w, NEW cmds, Handle(m, w, cmds)
  PROVE  m \in Heads /\ Reached
BY DEF Handle, Take, Heads

LEMMA AppHandles ==
  ASSUME PushScreen \/ PopScreen \/ TakeQuit \/ SubmitScopes \/ SubmitKind \/ TakeSwitchRun \/ Swallowed
  PROVE  \E m \in Heads : HandledAs(m)
<1>1. CASE PushScreen
  <2>1. PICK x \in {"scopes", "graph"} : Push(x) \in Heads
    BY <1>1 DEF PushScreen, Take, Heads
  <2> QED
    BY <1>1, <2>1 DEF HandledAs, Push, ForScreen
<1>2. CASE PopScreen
  <2>1. Pop \in Heads
    BY <1>2 DEF PopScreen, Take, Heads
  <2> QED
    BY <1>2, <2>1 DEF HandledAs, Pop, ForScreen
<1>3. CASE TakeQuit
  <2>1. Quit \in Heads
    BY <1>3 DEF TakeQuit, Take, Heads
  <2> QED
    BY <1>3, <2>1 DEF HandledAs, Quit, ForScreen
<1>4. CASE SubmitScopes
  <2>1. OpenScopesModal \in Heads
    BY <1>4 DEF SubmitScopes, Take, Heads
  <2> QED
    BY <1>4, <2>1 DEF HandledAs, OpenScopesModal, ForScreen
<1>5. CASE SubmitKind
  <2>1. PICK k \in Kind : \E i \in {0} \cup UNION {Rows(r, k) : r \in Run} : Submit(k, i) \in Heads
    BY <1>5 DEF SubmitKind, Take, Heads
  <2>2. PICK i : Submit(k, i) \in Heads
    BY <2>1
  <2> QED
    BY <1>5, <2>2 DEF HandledAs, Submit, ForScreen
<1>6. CASE TakeSwitchRun
  <2>1. PICK r \in Run : SwitchRun(r) \in Heads
    BY <1>6 DEF TakeSwitchRun, Take, Heads
  <2> QED
    BY <1>6, <2>1 DEF HandledAs, SwitchRun, ForScreen
<1>7. CASE Swallowed
  <2>1. PICK m \in Heads : m.type \in ForScreen /\ ~Reached
    BY <1>7 DEF Swallowed, Heads
  <2> QED
    BY <1>7, <2>1 DEF HandledAs, ForScreen
<1> QED
  BY <1>1, <1>2, <1>3, <1>4, <1>5, <1>6, <1>7

LEMMA CascadeHandles ==
  ASSUME NEW k \in Kind,
         \/ TakeKindSelected(k)
         \/ \E i \in {0} \cup UNION {Rows(r, k) : r \in Run} : TakeSwapLeft(k, i)
         \/ \E r \in Run, i \in UNION {Rows(x, k) : x \in Run} :
              TakeResourceSelected([src |-> [run |-> r, kind |-> k], row |-> i])
  PROVE  \E m \in Heads : HandledAs(m)
<1>1. CASE TakeKindSelected(k)
  <2>1. KindSelected(k) \in Heads /\ Reached
    BY <1>1, HandledTaken DEF TakeKindSelected
  <2> QED
    BY <1>1, <2>1 DEF HandledAs, KindSelected, ForScreen
<1>2. ASSUME NEW i \in {0} \cup UNION {Rows(r, k) : r \in Run}, TakeSwapLeft(k, i)
      PROVE  \E m \in Heads : HandledAs(m)
  <2>1. SwapLeft(k, i) \in Heads /\ Reached
    BY <1>2, HandledTaken DEF TakeSwapLeft
  <2>2. i \in Nat
    BY RowNumbers
  <2> QED
    BY <1>2, <2>1, <2>2 DEF HandledAs, SwapLeft, ForScreen
<1>3. ASSUME NEW r \in Run, NEW i \in UNION {Rows(x, k) : x \in Run},
             TakeResourceSelected([src |-> [run |-> r, kind |-> k], row |-> i])
      PROVE  \E m \in Heads : HandledAs(m)
  <2> DEFINE s == [src |-> [run |-> r, kind |-> k], row |-> i]
  <2>1. i \in Nat
    BY RowNumbers
  <2>2. s \in Selection
    BY <2>1 DEF Selection, Source, MaybeRun, MaybeKind
  <2> HIDE DEF s
  <2>3. TakeResourceSelected(s)
    BY <1>3 DEF s
  <2>4. ResourceSelected(s) \in Heads /\ Reached
    BY <2>3, HandledTaken DEF TakeResourceSelected
  <2> QED
    BY <2>2, <2>3, <2>4 DEF HandledAs, ResourceSelected, ForScreen
<1> QED
  BY <1>1, <1>2, <1>3

LEMMA AnswersHandle ==
  ASSUME NEW ok \in Succeeds,
         \/ TakeScopesLoad(ok)
         \/ \E r \in Run : \/ TakeScopeSelected(r, ok)
                           \/ TakeOverviewLoad(r, ok)
                           \/ TakeEdgesLoad(r, ok)
                           \/ \E k \in Kind : TakeRowsLoad(r, k, ok)
  PROVE  \E m \in Heads : HandledAs(m)
<1>1. ok \in BOOLEAN
  BY DEF Succeeds
<1>2. CASE TakeScopesLoad(ok)
  <2>1. ScopesLoad \in Heads /\ Reached
    BY <1>2, HandledTaken DEF TakeScopesLoad, Broadcast
  <2> QED
    BY <1>1, <1>2, <2>1 DEF HandledAs, ScopesLoad, ForScreen
<1>3. ASSUME NEW r \in Run, TakeScopeSelected(r, ok) PROVE \E m \in Heads : HandledAs(m)
  <2>1. Resolve(r) \in Heads /\ Reached
    BY <1>3, HandledTaken DEF TakeScopeSelected
  <2> QED
    BY <1>1, <1>3, <2>1 DEF HandledAs, Resolve, ForScreen
<1>4. ASSUME NEW r \in Run, TakeOverviewLoad(r, ok) PROVE \E m \in Heads : HandledAs(m)
  <2>1. OverviewLoad(r) \in Heads /\ Reached
    BY <1>4, HandledTaken DEF TakeOverviewLoad, Broadcast
  <2> QED
    BY <1>1, <1>4, <2>1 DEF HandledAs, OverviewLoad, ForScreen
<1>5. ASSUME NEW r \in Run, TakeEdgesLoad(r, ok) PROVE \E m \in Heads : HandledAs(m)
  <2>1. EdgesLoad(r) \in Heads /\ Reached
    BY <1>5, HandledTaken DEF TakeEdgesLoad, Broadcast
  <2> QED
    BY <1>1, <1>5, <2>1 DEF HandledAs, EdgesLoad, ForScreen
<1>6. ASSUME NEW r \in Run, NEW k \in Kind, TakeRowsLoad(r, k, ok)
      PROVE  \E m \in Heads : HandledAs(m)
  <2>1. RowsLoad(r, k) \in Heads /\ Reached
    BY <1>6, HandledTaken DEF TakeRowsLoad, Broadcast
  <2> QED
    BY <1>1, <1>6, <2>1 DEF HandledAs, RowsLoad, ForScreen
<1> QED
  BY <1>2, <1>3, <1>4, <1>5, <1>6

LEMMA MessageHandles ==
  ASSUME Message
  PROVE  \E m \in Heads : HandledAs(m)
<1>1. ASSUME NEW f \in Panel, TakeTick(f) PROVE \E m \in Heads : HandledAs(m)
  <2>1. Tick(f) \in Heads /\ Reached
    BY <1>1, HandledTaken DEF TakeTick
  <2> QED
    BY <1>1, <2>1 DEF HandledAs, Tick, ForScreen
<1> QED
  BY <1>1, AppHandles, CascadeHandles, AnswersHandle DEF Message

LEMMA FillingKept ==
  ASSUME SvInv, Reached, Filling, Message
  PROVE  Reached' /\ Filling'
<1>1. PICK m \in Heads : HandledAs(m)
  BY MessageHandles
<1>2. m \in Below \cup Ticks
  <2>1. PICK q \in DOMAIN msgs : m = Head(q)
    BY DEF Heads
  <2> DEFINE M == Below \cup Ticks
  <2>2. q \in Seq(M) /\ q # <<>>
    BY DEF Filling, Lower
  <2> HIDE DEF M
  <2>3. m \in M
    BY <2>1, <2>2
  <2> QED
    BY <2>3 DEF M
<1>3. m.type \in {"kind", "resource", "swap", "rows", "edges", "tick"}
  BY <1>2 DEF Below, Ticks
<1>4. Filling'
  BY <1>1, <1>3, TickFills, KindFills, SwapFills, ResourceFills, RowsFill, EdgesFill
     DEF HandledAs
<1>5. UNCHANGED <<above, bar>>
  BY <1>1, <1>3
     DEF HandledAs, TakeTick, TakeKindSelected, TakeSwapLeft, TakeResourceSelected,
         TakeRowsLoad, TakeEdgesLoad, Broadcast, Handle
<1> QED
  BY <1>4, <1>5 DEF Reached

(***************************************************************************)
(* The start, a scope that is resolved, and its overview.                  *)
(***************************************************************************)
LEMMA TicksAreLower ==
  ASSUME NEW B, DOMAIN B \subseteq TickSequence
  PROVE  DOMAIN B \subseteq Lower /\ InBag(B) \subseteq Ticks
<1>1. ASSUME NEW f \in Panel PROVE Tick(f) \in Ticks /\ <<Tick(f)>> \in Lower
  <2>1. Tick(f) \in Ticks
    BY DEF Tick, Ticks
  <2> QED
    BY <2>1, InLower
<1>2. DOMAIN B \subseteq Lower
  BY <1>1 DEF TickSequence
<1>3. InBag(B) \subseteq Ticks
  <2> SUFFICES ASSUME NEW q \in DOMAIN B, NEW i \in DOMAIN q PROVE q[i] \in Ticks
    BY DEF InBag
  <2>1. PICK f \in Panel : q = <<Tick(f)>>
    BY DEF TickSequence
  <2>2. DOMAIN q = {1} /\ q[1] = Tick(f)
    BY <2>1
  <2> QED
    BY <1>1, <2>2
<1> QED
  BY <1>2, <1>3

LEMMA SettledWithTicks ==
  ASSUME NEW w, Settled(w), NEW Q, Q \subseteq Ticks
  PROVE  Cascading(w, Q)
<1>1. \A m \in Q : m.type = "tick"
  BY DEF Ticks
<1>2. Unasked(w, Q) => Unasked(w, {})
  BY DEF Unasked
<1>3. Fits(w, Q)
  BY <1>1, <1>2 DEF Settled, Cascading, Fits
<1>4. Awaits(w, Q)
  BY DEF Settled, Cascading, Awaits
<1>5. Follows(w, Q)
  BY DEF Settled, Cascading, Follows
<1> QED
  BY <1>3, <1>4, <1>5 DEF Settled, Cascading

\* A view that has settled, and only ticks.
LEMMA SettledFills ==
  ASSUME Settled(sv'), DOMAIN msgs' \subseteq TickSequence
  PROVE  Filling'
<1>1. DOMAIN msgs' \subseteq Lower /\ InBag(msgs') \subseteq Ticks
  BY TicksAreLower
<1>2. Cascading(sv', InBag(msgs'))
  BY <1>1, SettledWithTicks
<1> QED
  BY <1>1, <1>2 DEF Filling, Pending

\* A tick while the view waits for one message changes nothing.
LEMMA OnlyTick ==
  ASSUME SvInv, NEW m, m.type # "tick", Only(msgs, m), Consistent(sv),
         ~KindMoved(sv), ~ResourceMoved(sv), ~sv.list.filter,
         NEW f \in Panel, TakeTick(f)
  PROVE  UNCHANGED <<sv, above, bar>> /\ Only(msgs', m)
<1>1. PICK p \in Refilters(sv.list) :
        LET w    == [sv EXCEPT !.list = p]
            more == InOrder(Cascade(w)) (+) IF StillLoading(w, f) THEN One(Tick(f)) ELSE None
        IN  Handle(Tick(f), Synced(w), more)
  BY DEF TakeTick
<1> DEFINE w    == [sv EXCEPT !.list = p]
           more == IF StillLoading(w, f) THEN One(Tick(f)) ELSE None
<1>2. GoodSv(sv)
  BY DEF SvInv
<1>3. w = sv
  <2>1. p = sv.list
    BY DEF Refilters, Refiltered
  <2> QED
    BY <1>2, <2>1 DEF GoodSv, SingleViews
<1>4. IsABag(more) /\ DOMAIN more \subseteq TickSequence
  <2>1. DOMAIN One(Tick(f)) = {<<Tick(f)>>}
    BY InOrderIs DEF One
  <2>2. IsABag(One(Tick(f))) /\ IsABag(None) /\ DOMAIN None = {}
    BY LoadsIsABag, EmptyIsABag, InOrderIs DEF None
  <2> QED
    BY <2>1, <2>2 DEF TickSequence
<1>5. Handle(Tick(f), Synced(w), InOrder(Cascade(w)) (+) more)
  BY <1>1
<1> HIDE DEF more, w
<1>6. Synced(w) = sv /\ InOrder(Cascade(w)) = None
  BY <1>2, <1>3, CascadeIs, InOrderIs
<1>7. Handle(Tick(f), sv, more)
  BY <1>4, <1>5, <1>6, NoneIsNothing
<1> QED
  BY <1>4, <1>7, OnlyTicks DEF Handle, SvInv

\* What is at the head, when only m and ticks are pending.
LEMMA OnlyHeads ==
  ASSUME NEW m, Only(msgs, m), NEW n \in Heads
  PROVE  n = m \/ n.type = "tick"
<1>1. PICK q \in DOMAIN msgs : n = Head(q)
  BY DEF Heads
<1>2. q = <<m>> \/ \E f \in Panel : q = <<Tick(f)>>
  BY DEF Only, TickSequence
<1> QED
  BY <1>1, <1>2 DEF Tick

\* The next message to wait for.
LEMMA OnlyNext ==
  ASSUME SvInv, NEW m, m.type # "tick", Only(msgs, m), NEW n, n # m, n.type # "tick",
         NEW cmds, IsABag(cmds), <<n>> \in DOMAIN cmds, cmds[<<n>>] = 1,
         DOMAIN cmds \subseteq TickSequence \cup {<<n>>}, Take(m, cmds)
  PROVE  Only(msgs', n)
<1>1. <<m>> # <<n>>
  OBVIOUS
<1>2. <<m>> \notin TickSequence /\ <<n>> \notin TickSequence
  BY DEF TickSequence, Tick
<1>3. <<m>> \notin DOMAIN cmds
  BY <1>1, <1>2
<1>4. /\ DOMAIN cmds \subseteq DOMAIN msgs'
      /\ DOMAIN msgs' \subseteq TickSequence \cup DOMAIN cmds
      /\ \A e \in DOMAIN cmds \ TickSequence : msgs'[e] = cmds[e]
  BY <1>3, OnlyTaken DEF SvInv
<1>5. msgs'[<<n>>] = 1
  BY <1>2, <1>4
<1> QED
  BY <1>4, <1>5 DEF Only

LEMMA NewSingleViewIs ==
  /\ Consistent(NewSingleView) /\ ~KindMoved(NewSingleView) /\ ~ResourceMoved(NewSingleView)
  /\ ~NewSingleView.list.filter /\ NewSingleView.list = NoPane
<1> DEFINE w == NewSingleView
<1>1. /\ w.scopes.rows = {} /\ w.scopes.cursor = NoRun /\ w.scopes.last = NoRun
      /\ w.run = NoRun /\ w.overview = NoPane /\ w.picked = NoKind /\ w.list = NoPane
      /\ w.listFor = NoKind /\ w.detail = NoDetail /\ w.detailFor = NoSelection
  BY DEF NewSingleView
<1>2. NoPane.visible = {} /\ NoPane.filter = FALSE /\ NoPane.src = Nothing /\ NoPane.cursor = 0
  BY DEF NoPane, NewOverview
<1>3. SelectedKinds(NoPane) = {}
  BY <1>2 DEF SelectedKinds
<1>4. SelectedResource(NoPane) = NoSelection
  BY <1>2 DEF SelectedResource, SelectedRef
<1> HIDE DEF w
<1>5. Consistent(w)
  BY <1>1, <1>2, <1>3 DEF Consistent, Nothing
<1> QED
  BY <1>1, <1>2, <1>4, <1>5 DEF KindMoved, ResourceMoved, w

\* The scopes have come: one is resolved if the cursor is on one.
LEMMA ScopesStart ==
  ASSUME SvInv, Starting, NEW ok \in BOOLEAN, TakeScopesLoad(ok)
  PROVE  UNCHANGED <<above, bar>> /\ (Resolving' \/ Filling')
<1> DEFINE rows == IF ok THEN Run ELSE {}
<1>1. rows \in SUBSET Run
  OBVIOUS
<1> HIDE DEF rows
<1>2. /\ GoodSv(sv) /\ Consistent(sv) /\ ~KindMoved(sv) /\ ~ResourceMoved(sv)
      /\ ~sv.list.filter /\ sv.list = NoPane
  BY NewSingleViewIs DEF SvInv, Starting
<1>3. PICK s \in ScopesLoaded(sv.scopes, rows), p \in Refilters(sv.list) :
        Broadcast(ScopesLoad, [sv EXCEPT !.scopes = s, !.list = p])
  BY DEF TakeScopesLoad, rows
<1>4. p = sv.list
  BY <1>2 DEF Refilters
<1>5. /\ sv.scopes.cursor = NoRun /\ sv.scopes.last = NoRun
      /\ sv.run = NoRun /\ sv.overview = NoPane /\ sv.picked = NoKind
      /\ sv.listFor = NoKind /\ sv.detail = NoDetail /\ sv.detailFor = NoSelection
  BY DEF Starting, NewSingleView
<1>6. PICK c \in rows \cup {NoRun} :
        s = [sv.scopes EXCEPT !.loaded = TRUE, !.rows = rows, !.cursor = c]
  BY <1>1, <1>5, PanesAssumption DEF ScopesLoaded
<1>7. /\ s.loaded /\ s.rows = rows /\ s.cursor = c /\ s.last = NoRun
      /\ s \in ScopesPane
  BY <1>1, <1>2, <1>5, <1>6 DEF GoodSv, SingleViews, ScopesPane, MaybeRun
<1> DEFINE w == [sv EXCEPT !.scopes = s]
<1>8. w = [sv EXCEPT !.scopes = s, !.list = p]
  BY <1>2, <1>4 DEF GoodSv, SingleViews
<1>9. /\ w \in SingleViews
      /\ w.scopes = s /\ w.run = sv.run /\ w.overview = sv.overview /\ w.picked = sv.picked
      /\ w.list = sv.list /\ w.listFor = sv.listFor /\ w.detail = sv.detail
      /\ w.detailFor = sv.detailFor /\ w.focus = sv.focus /\ w.wanted = sv.wanted
  BY <1>2, <1>7 DEF GoodSv, SingleViews
<1>10. Handle(ScopesLoad, Synced(w), InOrder(Cascade(w)))
  BY <1>3, <1>8 DEF Broadcast
<1> HIDE DEF w
<1>11. GoodSv(w)
  BY <1>2, <1>9, OthersGood
<1>12. ~KindMoved(w) /\ ~ResourceMoved(w)
  BY <1>2, <1>9 DEF KindMoved, ResourceMoved
<1>13. Only(msgs, ScopesLoad) /\ Take(ScopesLoad, InOrder(Cascade(w))) /\ sv' = Synced(w)
       /\ UNCHANGED <<above, bar>>
  BY <1>10 DEF Starting, Handle
<1>14. CASE c \in Run
  <2> DEFINE n == [w EXCEPT !.scopes.last = w.scopes.cursor]
             t == [s EXCEPT !.last = c]
  <2>1. ScopeMoved(w) /\ c # NoRun
    BY <1>6, <1>7, <1>9, <1>14, PanesAssumption DEF ScopeMoved
  <2>2. sv' = n
    BY <1>13, <2>1 DEF Synced
  <2>3. n = [w EXCEPT !.scopes = t]
    BY <1>7, <1>9 DEF SingleViews
  <2>4. t.loaded /\ t.rows = rows /\ t.cursor = c /\ t.last = c
    BY <1>7 DEF ScopesPane
  <2> HIDE DEF t
  <2>5. /\ n.scopes = t /\ n.run = w.run /\ n.overview = w.overview /\ n.picked = w.picked
        /\ n.list = w.list /\ n.listFor = w.listFor /\ n.detail = w.detail
        /\ n.detailFor = w.detailFor /\ n.focus = w.focus
    BY <1>9, <2>3 DEF SingleViews
  <2> HIDE DEF n
  <2>6. Cascade(w) = <<Resolve(c)>>
    BY <1>7, <1>9, <1>12, <2>1 DEF Cascade
  <2>7. /\ IsABag(InOrder(<<Resolve(c)>>)) /\ DOMAIN InOrder(<<Resolve(c)>>) = {<<Resolve(c)>>}
        /\ InOrder(<<Resolve(c)>>)[<<Resolve(c)>>] = 1
    BY InOrderIsABag, InOrderIs
  <2>8. Resolve(c) # ScopesLoad /\ Resolve(c).type # "tick" /\ ScopesLoad.type # "tick"
    BY DEF Resolve, ScopesLoad
  <2>9. Only(msgs', Resolve(c))
    BY <1>13, <2>6, <2>7, <2>8, OnlyNext
  <2>10. Consistent(n)
    BY <1>2, <1>6, <1>9, <2>4, <2>5 DEF Consistent
  <2>11. ~KindMoved(n) /\ ~ResourceMoved(n)
    BY <1>12, <2>5 DEF KindMoved, ResourceMoved
  <2>12. n.scopes.loaded /\ n.scopes.cursor = c /\ ~n.list.filter
    BY <1>2, <1>9, <2>4, <2>5
  <2>13. Resolving'
    BY <2>1, <2>2, <2>9, <2>10, <2>11, <2>12 DEF Resolving
  <2> QED
    BY <1>13, <2>13
<1>15. CASE c = NoRun
  <2>1. Consistent(w)
    BY <1>2, <1>5, <1>7, <1>9, <1>15 DEF Consistent
  <2>2. sv' = w /\ InOrder(Cascade(w)) = None
    BY <1>11, <1>12, <1>13, <2>1, CascadeIs, InOrderIs
  <2>3. Fits(w, {})
    BY <1>2, <1>9, NoPaneFields DEF Fits
  <2>4. Awaits(w, {})
    BY <1>2, <1>5, <1>7, <1>9 DEF Awaits
  <2>5. Settled(w)
    BY <1>12, <2>1, <2>3, <2>4 DEF Settled, Cascading, Follows
  <2>6. IsABag(None) /\ DOMAIN None = {}
    BY EmptyIsABag, InOrderIs DEF None
  <2>7. ScopesLoad.type # "tick"
    BY DEF ScopesLoad
  <2>8. DOMAIN msgs' \subseteq TickSequence
    BY <1>13, <2>2, <2>6, <2>7, OnlyTaken DEF SvInv
  <2> QED
    BY <1>13, <2>2, <2>5, <2>8, SettledFills
<1> QED
  BY <1>1, <1>6, <1>14, <1>15

LEMMA StartingKept ==
  ASSUME SvInv, Reached, Starting, Message
  PROVE  Reached' /\ (Starting \/ Resolving \/ Filling)'
<1>1. PICK m \in Heads : HandledAs(m)
  BY MessageHandles
<1>2. m = ScopesLoad \/ m.type = "tick"
  BY <1>1, OnlyHeads DEF Starting
<1>3. ScopesLoad.type = "scopes"
  BY DEF ScopesLoad
<1>4. CASE m = ScopesLoad
  <2>1. PICK ok \in BOOLEAN : TakeScopesLoad(ok)
    BY <1>1, <1>3, <1>4 DEF HandledAs
  <2> QED
    BY <2>1, ScopesStart DEF Reached
<1>5. CASE m.type = "tick"
  <2>1. PICK f \in Panel : TakeTick(f)
    BY <1>1, <1>5 DEF HandledAs
  <2>2. UNCHANGED <<sv, above, bar>> /\ Only(msgs', ScopesLoad)
    BY <1>3, <2>1, OnlyTick, NewSingleViewIs DEF Starting
  <2> QED
    BY <2>2 DEF Starting, Reached
<1> QED
  BY <1>2, <1>4, <1>5

LEMMA ScopeSelectedIs ==
  ASSUME NEW w, GoodSv(w), NEW r \in MaybeRun
  PROVE  LET n == ScopeSelected(w, r)
         IN  /\ n.scopes = w.scopes /\ n.run = r /\ n.picked = NoKind
             /\ n.overview = (IF r = NoRun THEN NoPane ELSE NewOverview(r))
             /\ n.list = NoPane /\ n.listFor = NoKind
             /\ n.detail = NoDetail /\ n.detailFor = NoSelection
<1> DEFINE e == WithoutList(w)
           p == IF r = NoRun THEN NoPane ELSE NewOverview(r)
           n == ScopeSelected(w, r)
<1>1. e \in SingleViews
  BY WithoutListGood DEF GoodSv
<1>2. /\ e.scopes = w.scopes /\ e.list = NoPane /\ e.listFor = NoKind
      /\ e.detail = NoDetail /\ e.detailFor = NoSelection
  BY DEF WithoutList, GoodSv, SingleViews
<1>3. n = [e EXCEPT !.run = r, !.picked = NoKind, !.overview = p]
  BY DEF ScopeSelected
<1> HIDE DEF e, p
<1>4. /\ n.scopes = e.scopes /\ n.run = r /\ n.picked = NoKind /\ n.overview = p
      /\ n.list = e.list /\ n.listFor = e.listFor
      /\ n.detail = e.detail /\ n.detailFor = e.detailFor
  BY <1>1, <1>3 DEF SingleViews
<1> QED
  BY <1>2, <1>4 DEF p

\* The scope is resolved: its overview is asked for, unless that failed.
LEMMA ScopeResolved ==
  ASSUME SvInv, Resolving, NEW r \in Run, r = sv.scopes.cursor, NEW ok \in BOOLEAN,
         TakeScopeSelected(r, ok)
  PROVE  UNCHANGED <<above, bar>> /\ (Counting' \/ Filling')
<1> DEFINE m == Resolve(r)
           x == IF ok THEN r ELSE NoRun
           n == ScopeSelected(sv, x)
           cmds == IF ok THEN Loads(OverviewLoad(r), "overview") ELSE None
<1>1. /\ GoodSv(sv) /\ Consistent(sv) /\ sv.scopes.loaded /\ Only(msgs, m)
  BY DEF SvInv, Resolving
<1>2. Take(m, cmds) /\ sv' = n /\ UNCHANGED <<above, bar>>
  BY DEF TakeScopeSelected, Handle
<1>3. x \in MaybeRun
  BY DEF MaybeRun
<1>4. /\ n.scopes = sv.scopes /\ n.run = x /\ n.picked = NoKind
      /\ n.overview = (IF x = NoRun THEN NoPane ELSE NewOverview(x))
      /\ n.list = NoPane /\ n.listFor = NoKind
      /\ n.detail = NoDetail /\ n.detailFor = NoSelection
  BY <1>1, <1>3, ScopeSelectedIs
<1>5. IsABag(cmds)
  BY EmptyIsABag, LoadsIsABag DEF None
<1>6. m.type = "resolve"
  BY DEF Resolve
<1>7. NoPane.visible = {} /\ NoPane.filter = FALSE /\ NoPane.src = Nothing /\ NoPane.cursor = 0
  BY DEF NoPane, NewOverview
<1>8. SelectedResource(NoPane) = NoSelection /\ SelectedKinds(NoPane) = {}
  BY <1>7 DEF SelectedResource, SelectedRef, SelectedKinds
<1>9. x = NoRun \/ NewOverview(x).src = Nothing
  BY DEF NewOverview
<1>10. SelectedKinds(n.overview) = {}
  BY <1>4, <1>8, <1>9 DEF SelectedKinds
<1> HIDE DEF m, n
<1>11. Consistent(n)
  BY <1>1, <1>4, <1>7, <1>9, <1>10, NoPaneFields DEF Consistent, Nothing
<1>12. ~KindMoved(n) /\ ~ResourceMoved(n)
  BY <1>4, <1>8 DEF KindMoved, ResourceMoved
<1>13. CASE ok
  <2> DEFINE o == OverviewLoad(r)
  <2>1. x = r /\ r # NoRun
    BY <1>13, PanesAssumption
  <2>2. o.type = "overview"
    BY DEF OverviewLoad
  <2>3. cmds = Loads(o, "overview")
    BY <1>13
  <2> HIDE DEF cmds, o
  <2>4. DOMAIN cmds = {<<o>>, <<Tick("overview")>>} /\ cmds[<<o>>] = 1
    BY <2>2, <2>3, InBagLoads
  <2>5. Tick("overview") \in {Tick(f) : f \in Panel}
    BY DEF Panel
  <2>6. DOMAIN cmds \subseteq TickSequence \cup {<<o>>}
    BY <2>4, <2>5 DEF TickSequence
  <2>7. Only(msgs', o)
    BY <1>1, <1>2, <1>5, <1>6, <2>2, <2>4, <2>6, OnlyNext
  <2>8. Counting'
    BY <1>1, <1>2, <1>4, <1>11, <2>1, <2>7 DEF Counting, o
  <2> QED
    BY <1>2, <2>8
<1>14. CASE ~ok
  <2>1. x = NoRun /\ cmds = None /\ DOMAIN None = {}
    BY <1>14, InOrderIs
  <2>2. Fits(n, {})
    BY <1>4, <1>7 DEF Fits
  <2>3. Awaits(n, {})
    BY <1>1, <1>4, <2>1 DEF Awaits
  <2>4. Settled(n)
    BY <1>11, <1>12, <2>2, <2>3 DEF Settled, Cascading, Follows
  <2>5. DOMAIN msgs' \subseteq TickSequence
    BY <1>1, <1>2, <1>5, <1>6, <2>1, OnlyTaken DEF SvInv
  <2> QED
    BY <1>2, <2>4, <2>5, SettledFills
<1> QED
  BY <1>13, <1>14

LEMMA ResolvingKept ==
  ASSUME SvInv, Reached, Resolving, Message
  PROVE  Reached' /\ (Resolving \/ Counting \/ Filling)'
<1> DEFINE n == Resolve(sv.scopes.cursor)
<1>1. PICK m \in Heads : HandledAs(m)
  BY MessageHandles
<1>2. m = n \/ m.type = "tick"
  BY <1>1, OnlyHeads DEF Resolving
<1>3. n.type = "resolve" /\ n.run = sv.scopes.cursor
  BY DEF Resolve
<1>4. CASE m = n
  <2>1. PICK r \in Run, ok \in BOOLEAN : m.run = r /\ TakeScopeSelected(r, ok)
    BY <1>1, <1>3, <1>4 DEF HandledAs
  <2> QED
    BY <1>3, <1>4, <2>1, ScopeResolved DEF Reached
<1>5. CASE m.type = "tick"
  <2>1. PICK f \in Panel : TakeTick(f)
    BY <1>1, <1>5 DEF HandledAs
  <2>2. UNCHANGED <<sv, above, bar>> /\ Only(msgs', n)
    BY <1>3, <2>1, OnlyTick DEF Resolving
  <2> QED
    BY <2>2 DEF Resolving, Reached
<1> QED
  BY <1>2, <1>4, <1>5

\* The overview has come, with the kind under its cursor.
LEMMA OverviewCounted ==
  ASSUME SvInv, Counting, NEW r \in Run, r = sv.run, NEW ok \in BOOLEAN, TakeOverviewLoad(r, ok)
  PROVE  UNCHANGED <<above, bar>> /\ Filling'
<1> DEFINE src == IF ok THEN [run |-> r, kind |-> NoKind] ELSE Nothing
           k == IF ok THEN FirstKind(r) ELSE NoKind
           o == TakeOverview(sv.overview, src)
           m == OverviewLoad(r)
<1>1. /\ GoodSv(sv) /\ Consistent(sv) /\ sv.scopes.loaded
      /\ sv.run # NoRun /\ sv.run = sv.scopes.cursor
      /\ sv.overview = NewOverview(sv.run) /\ sv.picked = NoKind
      /\ sv.list = NoPane /\ sv.detail = NoDetail /\ sv.detailFor = NoSelection
      /\ Only(msgs, m)
  BY DEF SvInv, Counting
<1>2. sv.overview # NoPane
  <2>1. sv.overview.run = sv.run
    BY <1>1 DEF NewOverview
  <2> QED
    BY <1>1, <2>1, NoPaneFields
<1>3. PICK p \in Refilters(sv.list) :
        Broadcast(m, [sv EXCEPT !.overview = o, !.picked = k, !.list = p])
  BY <1>2 DEF TakeOverviewLoad
<1>4. p = sv.list
  BY <1>1 DEF Refilters
<1>5. GoodPane(sv.overview) /\ IsOverview(sv.overview) /\ sv.overview.run = sv.run
  BY <1>1, <1>2 DEF GoodSv, GoodOverview
<1>6. src \in Source /\ src \in {Nothing, [run |-> sv.run, kind |-> NoKind]}
  BY DEF Source, Nothing, MaybeRun, MaybeKind
<1>7. k \in MaybeKind
  BY FirstKindType DEF MaybeKind
<1>8. k = NoKind => (IF src # Nothing THEN Stats(src.run) ELSE {}) = {}
  <2> SUFFICES ASSUME k = NoKind, src # Nothing PROVE Stats(src.run) = {}
    OBVIOUS
  <2>1. ok /\ src.run = r /\ FirstKind(r) = NoKind
    OBVIOUS
  <2>2. Stats(r) # {} => FirstKind(r) \in Stats(r)
    <3> SUFFICES ASSUME Stats(r) # {} PROVE FirstKind(r) \in Stats(r)
      OBVIOUS
    <3>1. \E y \in Stats(r) : \A j \in Stats(r) : Size[r][j] <= Size[r][y]
      BY FirstKindAssumption
    <3> QED
      BY <3>1 DEF FirstKind
  <2>3. NoKind \notin Stats(r)
    BY PanesAssumption DEF Stats
  <2> QED
    BY <2>1, <2>2, <2>3
<1> HIDE DEF src, k
<1>9. /\ GoodPane(o) /\ o.run = sv.overview.run
      /\ o.kind = sv.overview.kind /\ o.src = src /\ o.loaded
  <2>1. GoodPane(o) /\ o.run = sv.overview.run
    BY <1>5, <1>6, TakeOverviewGood
  <2>2. o.kind = sv.overview.kind /\ o.src = src /\ o.loaded
    BY <1>5 DEF TakeOverview, GoodPane, Pane
  <2> QED
    BY <2>1, <2>2
<1>10. SamePane(sv.overview, o) /\ o \in Pane /\ o # NoPane
  BY <1>2, <1>9, PaneIsThere DEF SamePane, GoodPane
<1>11. SelectedKinds(o) = (IF src # Nothing THEN Stats(src.run) ELSE {})
  BY <1>5, <1>9 DEF SelectedKinds, IsOverview
<1> HIDE DEF o
<1> DEFINE w == [sv EXCEPT !.overview = o, !.picked = k]
<1>12. w = [sv EXCEPT !.overview = o, !.picked = k, !.list = p]
  BY <1>1, <1>4 DEF GoodSv, SingleViews
<1>13. /\ w \in SingleViews
       /\ w.scopes = sv.scopes /\ w.run = sv.run /\ w.overview = o /\ w.picked = k
       /\ w.list = sv.list /\ w.listFor = sv.listFor /\ w.detail = sv.detail
       /\ w.detailFor = sv.detailFor /\ w.focus = sv.focus /\ w.wanted = sv.wanted
  BY <1>1, <1>7, <1>10 DEF GoodSv, SingleViews
<1>14. Handle(m, Synced(w), InOrder(Cascade(w)))
  BY <1>3, <1>12 DEF Broadcast
<1> HIDE DEF w
<1>15. GoodSv(w)
  BY <1>1, <1>10, <1>13, KeptGood DEF SamePane
<1>16. Consistent(w)
  BY <1>1, <1>6, <1>8, <1>9, <1>10, <1>11, <1>13 DEF Consistent
<1>17. Fits(w, {})
  BY <1>1, <1>13, NoPaneFields DEF Fits
<1>18. Awaits(w, {} \ {m})
  BY <1>1, <1>9, <1>13 DEF Awaits
<1> DEFINE C == InOrder(Cascade(w))
<1>19. /\ Synced(w) = w /\ IsABag(C) /\ DOMAIN C \subseteq Lower /\ Asks(w, InBag(C))
  BY <1>15, <1>16, CascadeIs
<1>20. Take(m, C) /\ sv' = w /\ UNCHANGED <<above, bar>>
  BY <1>14, <1>19 DEF Handle
<1> HIDE DEF C
<1>21. m.type = "overview"
  BY DEF OverviewLoad
<1> HIDE DEF m
<1>22. <<m>> \notin DOMAIN C
  <2> SUFFICES ASSUME <<m>> \in Lower PROVE FALSE
    BY <1>19
  <2> DEFINE M == Below \cup Ticks
  <2>1. <<m>> \in Seq(M)
    BY DEF Lower
  <2> HIDE DEF M
  <2>2. m \in M
    <3> DEFINE t == <<m>>
    <3>1. t # <<>> /\ m = Head(t)
      OBVIOUS
    <3>2. t \in Seq(M)
      BY <2>1
    <3> HIDE DEF t
    <3> QED
      BY <3>1, <3>2
  <2> QED
    BY <1>21, <2>2 DEF M, Below, Ticks
<1>23. DOMAIN C \subseteq DOMAIN msgs' /\ DOMAIN msgs' \subseteq TickSequence \cup DOMAIN C
  BY <1>1, <1>19, <1>20, <1>21, <1>22, OnlyTaken DEF SvInv
<1>24. DOMAIN msgs' \subseteq Lower
  <2>1. TickSequence \subseteq Lower
    <3>1. \A f \in Panel : Tick(f) \in Ticks
      BY DEF Tick, Ticks
    <3> QED
      BY <3>1, InLower DEF TickSequence
  <2> QED
    BY <1>19, <1>23, <2>1
<1>25. InBag(C) \subseteq InBag(msgs') /\ InBag(msgs') \subseteq InBag(C) \cup Ticks
  <2>1. InBag(C) \subseteq InBag(msgs')
    BY <1>23 DEF InBag
  <2>2. ASSUME NEW q \in DOMAIN msgs', NEW i \in DOMAIN q PROVE q[i] \in InBag(C) \cup Ticks
    <3>1. CASE q \in DOMAIN C
      BY <3>1 DEF InBag
    <3>2. CASE q \in TickSequence
      <4>1. PICK f \in Panel : q = <<Tick(f)>>
        BY <3>2 DEF TickSequence
      <4>2. DOMAIN q = {1} /\ q[1] = Tick(f)
        BY <4>1
      <4> QED
        BY <4>2 DEF Tick, Ticks
    <3> QED
      BY <1>23, <3>1, <3>2
  <2> QED
    BY <2>1, <2>2 DEF InBag
<1>26. Cascading(w, InBag(msgs'))
  <2>1. /\ ({} \ {m}) \cup InBag(C) \subseteq InBag(msgs')
        /\ InBag(msgs') \subseteq {} \cup InBag(C) \cup Ticks
    BY <1>25
  <2> QED
    BY <1>15, <1>16, <1>17, <1>18, <1>19, <1>21, <2>1, Looked
<1> QED
  BY <1>20, <1>24, <1>26 DEF Filling, Pending

LEMMA CountingKept ==
  ASSUME SvInv, Reached, Counting, Message
  PROVE  Reached' /\ (Counting \/ Filling)'
<1> DEFINE n == OverviewLoad(sv.run)
<1>1. PICK m \in Heads : HandledAs(m)
  BY MessageHandles
<1>2. m = n \/ m.type = "tick"
  BY <1>1, OnlyHeads DEF Counting
<1>3. n.type = "overview" /\ n.run = sv.run
  BY DEF OverviewLoad
<1>4. CASE m = n
  <2>1. PICK r \in Run, ok \in BOOLEAN : m.run = r /\ TakeOverviewLoad(r, ok)
    BY <1>1, <1>3, <1>4 DEF HandledAs
  <2> QED
    BY <1>3, <1>4, <2>1, OverviewCounted DEF Reached
<1>5. CASE m.type = "tick"
  <2>1. PICK f \in Panel : TakeTick(f)
    BY <1>1, <1>5 DEF HandledAs
  <2>2. ~KindMoved(sv) /\ ~ResourceMoved(sv) /\ ~sv.list.filter
    <3>1. NoPane.visible = {} /\ NoPane.filter = FALSE
      BY DEF NoPane, NewOverview
    <3>2. SelectedResource(NoPane) = NoSelection
      BY <3>1 DEF SelectedResource, SelectedRef
    <3> QED
      BY <3>1, <3>2 DEF Counting, KindMoved, ResourceMoved
  <2>3. UNCHANGED <<sv, above, bar>> /\ Only(msgs', n)
    BY <1>3, <2>1, <2>2, OnlyTick DEF Counting
  <2> QED
    BY <2>3 DEF Counting, Reached
<1> QED
  BY <1>2, <1>4, <1>5

(***************************************************************************)
(* What App handles itself, and a screen above.                            *)
(***************************************************************************)
\* The only sequence there is is taken.
LEMMA AloneTaken ==
  ASSUME NEW s, s # <<>>, msgs = InOrder(s), NEW m, NEW cmds, Take(m, cmds)
  PROVE  m = Head(s) /\ msgs' = InOrder(Tail(s)) (+) cmds
<1>1. PICK q \in DOMAIN msgs :
        /\ Head(q) = m
        /\ msgs' = (msgs (-) SetToBag({q})) (+) InOrder(Tail(q)) (+) cmds
  BY DEF Take
<1>2. DOMAIN msgs = {s} /\ msgs = SetToBag({s})
  BY InOrderIs DEF InOrder
<1>3. q = s
  BY <1>1, <1>2
<1>4. SetToBag({s}) (-) SetToBag({s}) = EmptyBag
  <2> DEFINE D == SetToBag({s}) (-) SetToBag({s})
  <2>0. IsABag(SetToBag({s})) /\ DOMAIN SetToBag({s}) = {s} /\ SetToBag({s})[s] = 1
    BY DEF SetToBag, IsABag
  <2>1. \A e : e \in DOMAIN D <=> e \in {s} /\ (e = s => 1 # 1)
    BY <2>0, DropOne
  <2>2. DOMAIN D = {}
    BY <2>1
  <2>3. D = [e \in DOMAIN D |-> D[e]]
    BY DEF (-)
  <2>4. EmptyBag = [e \in {} |-> D[e]]
    BY DEF EmptyBag, SetToBag
  <2> QED
    BY <2>2, <2>3, <2>4
<1>5. IsABag(InOrder(Tail(s))) /\ None = EmptyBag
  BY InOrderIsABag DEF None
<1>6. None (+) InOrder(Tail(s)) = InOrder(Tail(s))
  BY <1>5, NoneIsNothing
<1> QED
  BY <1>1, <1>2, <1>3, <1>4, <1>5, <1>6

\* A single message is taken: what it returns is left.
LEMMA SingleTaken ==
  ASSUME NEW n, msgs = InOrder(<<n>>), NEW m, NEW cmds, IsABag(cmds), Take(m, cmds)
  PROVE  m = n /\ msgs' = cmds
<1>1. <<n>> # <<>> /\ Head(<<n>>) = n /\ Tail(<<n>>) = <<>>
  OBVIOUS
<1>2. m = n /\ msgs' = InOrder(<<>>) (+) cmds
  BY <1>1, AloneTaken
<1> QED
  BY <1>2, InOrderIs, NoneIsNothing

LEMMA AloneHeads ==
  ASSUME NEW s, s # <<>>, msgs = InOrder(s), NEW m \in Heads
  PROVE  m = Head(s)
BY InOrderIs DEF Heads

\* Nothing is pending, and no palette is open.
LEMMA IdleAgain ==
  ASSUME Settled(sv'), msgs' = None, ~bar', above' \in {"none", "graph", "scopes", "scopesLoaded"}
  PROVE  CascadeInv'
<1>1. DOMAIN msgs' = {}
  BY InOrderIs
<1>2. CASE above' = "none"
  <2>1. Filling'
    BY <1>1, SettledFills
  <2> QED
    BY <1>2, <2>1 DEF CascadeInv, Reached
<1>3. CASE above' # "none"
  <2>1. Covered'
    BY <1>1 DEF Covered
  <2> QED
    BY <1>3, <2>1 DEF CascadeInv
<1> QED
  BY <1>2, <1>3

\* One sequence for App is pending.
LEMMA HandedOver ==
  ASSUME Settled(sv'), ~bar', NEW s, s \in AppSequence', msgs' = InOrder(s)
  PROVE  CascadeInv'
BY DEF CascadeInv, Handing

LEMMA ScopesAliasTaken ==
  ASSUME SvInv, Settled(sv), ~bar, msgs = InOrder(<<OpenScopesModal>>), SubmitScopes
  PROVE  CascadeInv'
<1>1. IsABag(One(Push("scopes")))
  BY LoadsIsABag
<1>2. msgs' = InOrder(<<Push("scopes")>>) /\ UNCHANGED <<sv, above, bar>>
  BY <1>1, SingleTaken DEF SubmitScopes, One
<1>3. <<Push("scopes")>> \in AppSequence'
  BY DEF AppSequence
<1> QED
  BY <1>2, <1>3, HandedOver

LEMMA QuitTaken ==
  ASSUME SvInv, Settled(sv), ~bar, msgs = InOrder(<<Quit>>), TakeQuit
  PROVE  CascadeInv'
<1>1. IsABag(None)
  BY EmptyIsABag DEF None
<1>2. msgs' = None /\ UNCHANGED <<sv, above, bar>>
  BY <1>1, SingleTaken DEF TakeQuit
<1> QED
  BY <1>2, IdleAgain DEF SvInv

LEMMA PopTaken ==
  ASSUME SvInv, Settled(sv), ~bar, msgs = InOrder(<<Pop>>), PopScreen
  PROVE  CascadeInv'
<1>1. IsABag(None) /\ IsABag(One(Quit))
  BY EmptyIsABag, LoadsIsABag DEF None
<1>2. CASE above = "none"
  <2>1. msgs' = InOrder(<<Quit>>) /\ UNCHANGED <<sv, above, bar>>
    BY <1>1, <1>2, SingleTaken DEF PopScreen, One
  <2>2. <<Quit>> \in AppSequence'
    BY DEF AppSequence
  <2> QED
    BY <2>1, <2>2, HandedOver
<1>3. CASE above # "none"
  <2>1. msgs' = None /\ above' = "none" /\ UNCHANGED <<sv, bar>>
    BY <1>1, <1>3, SingleTaken DEF PopScreen
  <2> QED
    BY <2>1, IdleAgain
<1> QED
  BY <1>2, <1>3

\* The scopes modal closes, and the run picked in it is next.
LEMMA PickTaken ==
  ASSUME SvInv, Settled(sv), ~bar, above # "none", NEW r \in Run,
         msgs = InOrder(<<Pop, SwitchRun(r)>>), PopScreen
  PROVE  CascadeInv'
<1> DEFINE s == <<Pop, SwitchRun(r)>>
           t == <<SwitchRun(r)>>
<1>1. s # <<>> /\ Tail(s) = t
  <2>1. s # <<>>
    OBVIOUS
  <2>2. Tail(s) = t
    <3> DEFINE S == {Pop, SwitchRun(r)}
               u == Tail(s)
    <3>1. s \in Seq(S) /\ Len(s) = 2 /\ s[2] = SwitchRun(r)
      OBVIOUS
    <3>2. t \in Seq(S) /\ Len(t) = 1 /\ t[1] = SwitchRun(r)
      OBVIOUS
    <3> HIDE DEF s, t, S
    <3>3. /\ u \in Seq(S) /\ Len(u) = Len(s) - 1
          /\ \A i \in 1 .. Len(u) : u[i] = s[i + 1]
      BY <2>1, <3>1
    <3> HIDE DEF u
    <3>4. u = [i \in 1 .. 1 |-> u[i]] /\ t = [i \in 1 .. 1 |-> t[i]]
      BY <3>1, <3>2, <3>3
    <3>5. \A i \in 1 .. 1 : u[i] = t[i]
      BY <3>1, <3>2, <3>3
    <3>6. u = t
      BY <3>4, <3>5
    <3> QED
      BY <3>6 DEF u
  <2> QED
    BY <2>1, <2>2
<1> HIDE DEF s, t
<1>2. Take(Pop, None) /\ above' = "none" /\ UNCHANGED <<sv, bar>>
  BY DEF PopScreen
<1>3. msgs' = InOrder(t) (+) None
  BY <1>1, <1>2, AloneTaken DEF s
<1>4. msgs' = InOrder(t)
  BY <1>3, InOrderIsABag, NoneIsNothing
<1>5. t \in AppSequence'
  BY <1>2 DEF AppSequence, t
<1> QED
  BY <1>2, <1>4, <1>5, HandedOver

LEMMA PushTaken ==
  ASSUME SvInv, Settled(sv), ~bar, NEW x, msgs = InOrder(<<Push(x)>>), PushScreen
  PROVE  CascadeInv'
<1>1. PICK screen \in {"scopes", "graph"} :
        /\ Take(Push(screen), IF screen = "scopes" THEN Loads(ScopesLoad, "scopes") ELSE None)
        /\ above' = screen /\ UNCHANGED <<sv, bar>>
  BY DEF PushScreen
<1> DEFINE cmds == IF screen = "scopes" THEN Loads(ScopesLoad, "scopes") ELSE None
<1>2. /\ IsABag(cmds)
      /\ DOMAIN cmds \subseteq {<<ScopesLoad>>, <<Tick("scopes")>>}
  <2>1. IsABag(None) /\ DOMAIN None = {}
    BY EmptyIsABag, InOrderIs DEF None
  <2>2. IsABag(Loads(ScopesLoad, "scopes"))
    BY LoadsIsABag
  <2>3. DOMAIN Loads(ScopesLoad, "scopes") = {<<ScopesLoad>>, <<Tick("scopes")>>}
    BY InBagLoads
  <2> QED
    BY <2>1, <2>2, <2>3
<1>3. Take(Push(screen), cmds)
  BY <1>1
<1> HIDE DEF cmds
<1>4. msgs' = cmds
  BY <1>2, <1>3, SingleTaken
<1>5. Tick("scopes") \in Ticks
  BY DEF Tick, Ticks, Panel
<1>6. Covered'
  BY <1>1, <1>2, <1>4, <1>5 DEF Covered
<1>7. above' # "none"
  BY <1>1
<1> QED
  BY <1>1, <1>6, <1>7 DEF CascadeInv

\* The list that the palette asked for, in a view that has settled.
LEMMA SwapAlone ==
  ASSUME NEW w, Settled(w), w.run # NoRun, NEW m, m.type = "swap"
  PROVE  Cascading(w, {m})
<1>1. ~Unasked(w, {m})
  BY DEF Unasked
<1>2. Fits(w, {m})
  BY <1>1 DEF Fits
<1>3. Awaits(w, {m}) /\ Follows(w, {m}) /\ Consistent(w)
  BY DEF Settled, Cascading, Awaits, Follows
<1> QED
  BY <1>2, <1>3 DEF Cascading

LEMMA SubmitTaken ==
  ASSUME SvInv, Settled(sv), ~bar, NEW n, msgs = InOrder(<<n>>), SubmitKind
  PROVE  CascadeInv'
<1>0. PICK k \in Kind : \E i \in {0} \cup UNION {Rows(r, k) : r \in Run} :
        Take(Submit(k, i), IF sv.run # NoRun THEN One(SwapLeft(k, i)) ELSE None)
  BY DEF SubmitKind
<1>1. PICK i \in {0} \cup UNION {Rows(r, k) : r \in Run} :
        Take(Submit(k, i), IF sv.run # NoRun THEN One(SwapLeft(k, i)) ELSE None)
  BY <1>0
<1>2. UNCHANGED <<sv, above, bar>>
  BY DEF SubmitKind
<1>3. i \in Nat /\ i \in {0} \cup AnyRow
  BY RowNumbers DEF AnyRow
<1> DEFINE m == SwapLeft(k, i)
<1>4. CASE sv.run = NoRun
  <2>1. IsABag(None)
    BY EmptyIsABag DEF None
  <2>2. msgs' = None
    BY <1>1, <1>4, <2>1, SingleTaken
  <2> QED
    BY <1>2, <2>2, IdleAgain DEF SvInv
<1>5. CASE sv.run # NoRun
  <2>1. IsABag(One(m)) /\ DOMAIN One(m) = {<<m>>} /\ InBag(One(m)) = {m}
    BY LoadsIsABag, InOrderIs, InBagIs DEF One
  <2>2. msgs' = One(m)
    BY <1>1, <1>5, <2>1, SingleTaken
  <2>3. m \in Below /\ m.type = "swap"
    BY <1>3 DEF Below, SwapLeft
  <2>4. CASE above = "none"
    <3>1. DOMAIN msgs' \subseteq Lower
      BY <2>1, <2>2, <2>3, InLower
    <3>2. Cascading(sv', InBag(msgs'))
      BY <1>2, <1>5, <2>1, <2>2, <2>3, SwapAlone
    <3>3. Filling'
      BY <3>1, <3>2 DEF Filling, Pending
    <3> QED
      BY <1>2, <2>4, <3>3 DEF CascadeInv, Reached
  <2>5. CASE above # "none"
    <3>1. \A q \in DOMAIN msgs' : q \in {<<SwapLeft(j, x)>> : j \in Kind, x \in {0} \cup AnyRow}
      BY <1>3, <2>1, <2>2
    <3>2. Covered'
      BY <1>2, <3>1 DEF Covered
    <3> QED
      BY <1>2, <2>5, <3>2 DEF CascadeInv
  <2> QED
    BY <2>4, <2>5
<1> QED
  BY <1>4, <1>5

\* A look at the cascade of a view that had settled.
LEMMA LookedAgain ==
  ASSUME NEW w, GoodSv(w), Consistent(w), Fits(w, {}), Awaits(w, {}),
         sv' = Synced(w), msgs' = InOrder(Cascade(w))
  PROVE  Filling'
<1> DEFINE C == InOrder(Cascade(w))
<1>1. /\ Synced(w) = w /\ DOMAIN C \subseteq Lower /\ Asks(w, InBag(C))
  BY CascadeIs
<1> HIDE DEF C
<1> DEFINE m == Pop
<1>2. m.type # "swap"
  BY DEF Pop
<1> HIDE DEF m
<1>3. Awaits(w, {} \ {m})
  BY DEF Awaits
<1>4. /\ ({} \ {m}) \cup InBag(C) \subseteq InBag(C)
      /\ InBag(C) \subseteq {} \cup InBag(C) \cup Ticks
  OBVIOUS
<1>5. Cascading(w, InBag(C))
  BY <1>1, <1>2, <1>3, <1>4, Looked
<1>6. sv' = w /\ msgs' = C
  BY <1>1 DEF C
<1> QED
  BY <1>1, <1>5, <1>6 DEF Filling, Pending

LEMMA SwitchTaken ==
  ASSUME SvInv, Settled(sv), ~bar, above = "none", NEW n, msgs = InOrder(<<n>>), TakeSwitchRun
  PROVE  CascadeInv'
<1>1. PICK r \in Run, p \in Refilters(sv.list) :
        LET w == [sv EXCEPT !.list = p]
        IN  /\ Take(SwitchRun(r), InOrder(Cascade(w)))
            /\ sv' = Synced(w)
  BY DEF TakeSwitchRun
<1> DEFINE w == [sv EXCEPT !.list = p]
<1>2. GoodSv(sv) /\ Consistent(sv) /\ Fits(sv, {}) /\ Awaits(sv, {})
  BY DEF SvInv, Settled, Cascading
<1>3. GoodSv(w) /\ Consistent(w) /\ Fits(w, {}) /\ Awaits(w, {})
  <2>1. SameRows(sv.list, p) /\ p.filter = sv.list.filter
    BY <1>2, RefiltersRows
  <2>2. p.filter => sv.focus = "list"
    BY <1>2, <2>1 DEF Consistent
  <2> QED
    BY <1>2, <2>1, <2>2, ListKept
<1>4. Take(SwitchRun(r), InOrder(Cascade(w))) /\ sv' = Synced(w)
  BY <1>1
<1> HIDE DEF w
<1>5. msgs' = InOrder(Cascade(w))
  BY <1>4, InOrderIsABag, SingleTaken
<1>6. Filling'
  BY <1>3, <1>4, <1>5, LookedAgain
<1>7. UNCHANGED <<above, bar>>
  BY DEF TakeSwitchRun
<1> QED
  BY <1>6, <1>7 DEF CascadeInv, Reached

LEMMA HandingKept ==
  ASSUME SvInv, ~bar, Handing, Message
  PROVE  CascadeInv'
<1>1. PICK m \in Heads : HandledAs(m)
  BY MessageHandles
<1>2. Settled(sv) /\ \E s \in AppSequence : msgs = InOrder(s)
  BY DEF Handing
<1>3. ASSUME NEW n, msgs = InOrder(<<n>>) PROVE m = n
  <2>1. <<n>> # <<>> /\ Head(<<n>>) = n
    OBVIOUS
  <2> QED
    BY <1>3, <2>1, AloneHeads
<1>4. CASE msgs = InOrder(<<OpenScopesModal>>)
  <2>1. m.type = "scopesAlias"
    BY <1>3, <1>4 DEF OpenScopesModal
  <2> QED
    BY <1>1, <1>2, <1>4, <2>1, ScopesAliasTaken DEF HandledAs
<1>5. CASE msgs = InOrder(<<Pop>>)
  <2>1. m.type = "pop"
    BY <1>3, <1>5 DEF Pop
  <2> QED
    BY <1>1, <1>2, <1>5, <2>1, PopTaken DEF HandledAs
<1>6. CASE msgs = InOrder(<<Quit>>)
  <2>1. m.type = "quit"
    BY <1>3, <1>6 DEF Quit
  <2> QED
    BY <1>1, <1>2, <1>6, <2>1, QuitTaken DEF HandledAs
<1>7. ASSUME NEW x, msgs = InOrder(<<Push(x)>>) PROVE CascadeInv'
  <2>1. m.type = "push"
    BY <1>3, <1>7 DEF Push
  <2> QED
    BY <1>1, <1>2, <1>7, <2>1, PushTaken DEF HandledAs
<1>8. ASSUME NEW k, NEW i, msgs = InOrder(<<Submit(k, i)>>) PROVE CascadeInv'
  <2>1. m.type = "submit"
    BY <1>3, <1>8 DEF Submit
  <2> QED
    BY <1>1, <1>2, <1>8, <2>1, SubmitTaken DEF HandledAs
<1>9. ASSUME NEW r \in Run, above = "none", msgs = InOrder(<<SwitchRun(r)>>) PROVE CascadeInv'
  <2>1. m.type = "switch"
    BY <1>3, <1>9 DEF SwitchRun
  <2> QED
    BY <1>1, <1>2, <1>9, <2>1, SwitchTaken DEF HandledAs
<1>10. ASSUME NEW r \in Run, above # "none", msgs = InOrder(<<Pop, SwitchRun(r)>>)
       PROVE  CascadeInv'
  <2>1. <<Pop, SwitchRun(r)>> # <<>> /\ Head(<<Pop, SwitchRun(r)>>) = Pop
    OBVIOUS
  <2>2. m = Pop
    BY <1>10, <2>1, AloneHeads
  <2>3. m.type = "pop"
    BY <2>2 DEF Pop
  <2> QED
    BY <1>1, <1>2, <1>10, <2>3, PickTaken DEF HandledAs
<1> QED
  BY <1>2, <1>4, <1>5, <1>6, <1>7, <1>8, <1>9, <1>10 DEF AppSequence

\* Under a screen, the view does not change.
LEMMA CoveredKept ==
  ASSUME SvInv, ~bar, above # "none", Covered, Message
  PROVE  CascadeInv'
<1>1. PICK m \in Heads : HandledAs(m)
  BY MessageHandles
<1> DEFINE Under == {<<ScopesLoad>>} \cup {<<n>> : n \in Ticks} \cup
                    {<<SwapLeft(k, i)>> : k \in Kind, i \in {0} \cup AnyRow}
<1>2. Settled(sv) /\ DOMAIN msgs \subseteq Under
  BY DEF Covered
<1>3. ASSUME NEW q \in Under
      PROVE  Tail(q) = <<>> /\ Head(q).type \in {"scopes", "tick", "swap"}
  <2>1. PICK n : q = <<n>> /\ n.type \in {"scopes", "tick", "swap"}
    <3>1. CASE q = <<ScopesLoad>>
      BY <3>1 DEF ScopesLoad
    <3>2. CASE q \in {<<n>> : n \in Ticks}
      BY <3>2 DEF Ticks
    <3>3. CASE q \in {<<SwapLeft(k, i)>> : k \in Kind, i \in {0} \cup AnyRow}
      BY <3>3 DEF SwapLeft
    <3> QED
      BY <3>1, <3>2, <3>3
  <2>2. Tail(<<n>>) = <<>> /\ Head(<<n>>) = n
    OBVIOUS
  <2> QED
    BY <2>1, <2>2
<1> HIDE DEF Under
<1>4. Swallowed
  <2>1. m.type \in {"scopes", "tick", "swap"}
    BY <1>2, <1>3 DEF Heads
  <2> QED
    BY <1>1, <2>1 DEF HandledAs, ForScreen, Reached
<1>5. PICK n : Take(n, None)
  BY <1>4 DEF Swallowed
<1>6. IsABag(None) /\ DOMAIN None = {}
  BY EmptyIsABag, InOrderIs DEF None
<1>7. PICK q \in DOMAIN msgs : TakenFrom(q, None)
  BY <1>5, <1>6, Taken DEF SvInv
<1>8. DOMAIN InOrder(Tail(q)) = {}
  BY <1>2, <1>3, InOrderIs
<1>9. DOMAIN msgs' \subseteq Under
  BY <1>2, <1>6, <1>7, <1>8 DEF TakenFrom
<1>10. UNCHANGED <<sv, bar>> /\ above' # "none"
  BY <1>4 DEF Swallowed
<1>11. Covered'
  BY <1>2, <1>9, <1>10 DEF Covered, Under
<1> QED
  BY <1>10, <1>11 DEF CascadeInv

(***************************************************************************)
(* Keys, once nothing is pending.                                          *)
(***************************************************************************)
LEMMA IdleSettled ==
  ASSUME CascadeInv, Idle
  PROVE  Settled(sv)
<1>1. DOMAIN msgs = {}
  BY InOrderIs DEF Idle, None
<1>2. ~Starting /\ ~Resolving /\ ~Counting
  BY <1>1 DEF Starting, Resolving, Counting, Only
<1>3. ~Handing
  <2> SUFFICES ASSUME NEW s \in AppSequence, msgs = InOrder(s) PROVE FALSE
    BY DEF Handing
  <2>1. s # <<>>
    <3>1. \A m, n : <<m>> # <<>> /\ <<m, n>> # <<>>
      OBVIOUS
    <3> QED
      BY <3>1 DEF AppSequence
  <2> QED
    BY <1>1, <2>1, InOrderIs
<1>4. CASE Filling
  <2>1. Pending = {}
    BY <1>1 DEF Pending, InBag
  <2> QED
    BY <1>4, <2>1 DEF Filling, Settled
<1>5. CASE Covered
  BY <1>5 DEF Covered
<1> QED
  BY <1>2, <1>3, <1>4, <1>5 DEF CascadeInv

\* A key only returns a sequence for App.
LEMMA HandsOver ==
  ASSUME Settled(sv), Idle, NEW s, Return(InOrder(s)), UNCHANGED <<sv, above>>, ~bar',
         s \in AppSequence
  PROVE  CascadeInv'
<1>1. msgs' = InOrder(s)
  BY InOrderIsABag, NoneIsNothing DEF Return, Idle, None
<1>2. s \in AppSequence'
  BY DEF AppSequence
<1> QED
  BY <1>1, <1>2, HandedOver

\* The focused pane has the key.
LEMMA DispatchSettles ==
  ASSUME SvInv, Idle, NEW w, GoodSv(w), Settled(w), Dispatch(w, <<>>)
  PROVE  CascadeInv'
<1>1. Consistent(w) /\ ~KindMoved(w) /\ ~ResourceMoved(w)
  BY DEF Settled, Cascading, Follows
<1>2. Synced(w) = w /\ Cascade(w) = <<>>
  BY <1>1, CascadeIs
<1>3. sv' = w /\ msgs' = msgs (+) InOrder(<<>> \o <<>>) /\ UNCHANGED <<above, bar>> /\ ~bar
  BY <1>2 DEF Dispatch, Return, Reached
<1>4. msgs' = None
  <2>1. <<>> \o <<>> = <<>>
    OBVIOUS
  <2> QED
    BY <1>3, <2>1, InOrderIs, NoneIsNothing, EmptyIsABag DEF Idle, None
<1> QED
  BY <1>3, <1>4, IdleAgain DEF SvInv

LEMMA DispatchLooks ==
  ASSUME SvInv, Idle, NEW w, GoodSv(w), Consistent(w), Fits(w, {}), Awaits(w, {}),
         Dispatch(w, <<>>)
  PROVE  CascadeInv'
<1> DEFINE c == Cascade(w)
<1>1. c = <<>> \/ c \in Lower
  <2>1. DOMAIN InOrder(c) \subseteq Lower
    BY CascadeIs
  <2> HIDE DEF c
  <2> QED
    BY <2>1, InOrderIs
<1>2. <<>> \o c = c
  <2> DEFINE M == Below \cup Ticks
  <2> HIDE DEF c
  <2>1. Lower \subseteq Seq(M)
    BY DEF Lower
  <2> HIDE DEF M
  <2>2. CASE c \in Lower
    BY <2>1, <2>2
  <2>3. CASE c = <<>>
    BY <2>3
  <2> QED
    BY <1>1, <2>2, <2>3
<1>3. sv' = Synced(w) /\ msgs' = msgs (+) InOrder(<<>> \o c) /\ UNCHANGED <<above, bar>> /\ Reached
  BY DEF Dispatch, Return
<1>4. msgs' = InOrder(c)
  <2> HIDE DEF c
  <2> QED
    BY <1>2, <1>3, InOrderIsABag, NoneIsNothing DEF Idle, None
<1>5. Filling'
  BY <1>3, <1>4, LookedAgain
<1> QED
  BY <1>3, <1>5 DEF CascadeInv, Reached

\* A key for the Resource List, the answer it has stays.
LEMMA LeftKeysRows ==
  ASSUME NEW w, GoodSv(w), Consistent(w), w.list # NoPane, NEW p \in LeftKeys(w.list)
  PROVE  SameRows(w.list, p)
<1> DEFINE l == w.list
<1>1. GoodPane(l) /\ ~IsOverview(l) /\ l \in Pane
  BY DEF GoodSv, GoodList, GoodPane
<1>2. GoodPane(p) /\ p.run = l.run /\ p.kind = l.kind
  BY <1>1, LeftKeysGood
<1>3. SamePane(l, p) /\ p # NoPane
  BY <1>2, PaneIsThere DEF SamePane
<1>4. l.visible \subseteq Answered(l.src) /\ p \in LeftKeys(l)
  BY DEF Consistent
<1> HIDE DEF l
<1>5. p.src = l.src /\ p.loaded = l.loaded /\ p.visible \subseteq Answered(p.src)
  <2>1. CASE p = FilterOpened(l) \/ p = FilterKept(l)
    BY <1>1, <1>4, <2>1 DEF FilterOpened, FilterKept, Pane
  <2>2. CASE p \in Moved(l)
    <3>1. PICK c \in l.visible : p = [l EXCEPT !.cursor = c, !.goal = 0]
      BY <2>2 DEF Moved
    <3> QED
      BY <1>1, <1>4, <3>1 DEF Pane
  <2>3. CASE p \in FilterClosed(l)
    <3> DEFINE o == [l EXCEPT !.filter = FALSE]
    <3>1. o \in Pane /\ o.src = l.src /\ o.loaded = l.loaded /\ o.kind = l.kind
      BY <1>1 DEF Pane
    <3> HIDE DEF o
    <3>2. p \in Filtered(o, Answered(l.src))
      BY <2>3 DEF FilterClosed, o
    <3> QED
      BY <3>1, <3>2, FilteredRows
  <2>4. CASE p \in FilterTyped(l)
    <3>1. PICK h \in SUBSET AnyRow : p \in Filtered([l EXCEPT !.hides = h], Answered(l.src) \ h)
      BY <2>4 DEF FilterTyped
    <3> DEFINE o == [l EXCEPT !.hides = h]
    <3>2. o \in Pane /\ o.src = l.src /\ o.loaded = l.loaded /\ o.kind = l.kind
      BY <1>1, RowsAreNat DEF Pane, AnyRow
    <3>3. p \in Filtered(o, Answered(l.src) \ h)
      BY <3>1
    <3> HIDE DEF o
    <3> QED
      BY <3>2, <3>3, FilteredRows
  <2>5. CASE p \in Sorted(l)
    <3> DEFINE o == [l EXCEPT !.goal = 0]
    <3>1. o \in Pane /\ o.src = l.src /\ o.loaded = l.loaded /\ o.kind = l.kind
      BY <1>1 DEF Pane
    <3> HIDE DEF o
    <3>2. p \in Filtered(o, Answered(l.src) \ l.hides)
      BY <2>5 DEF Sorted, o
    <3> QED
      BY <3>1, <3>2, FilteredRows
  <2> QED
    BY <1>1, <1>4, <2>1, <2>2, <2>3, <2>4, <2>5 DEF LeftKeys
<1> QED
  BY <1>2, <1>3, <1>5 DEF SameRows, l

LEMMA ListKeySettles ==
  ASSUME SvInv, Settled(sv), Idle, ListKey
  PROVE  CascadeInv'
<1>1. PICK p \in LeftKeys(sv.list) : Dispatch([sv EXCEPT !.list = p], <<>>)
  BY DEF ListKey
<1>2. GoodSv(sv) /\ Consistent(sv) /\ Fits(sv, {}) /\ Awaits(sv, {})
  BY DEF SvInv, Settled, Cascading
<1>3. sv.focus = "list" /\ SameRows(sv.list, p)
  BY <1>2, LeftKeysRows DEF ListKey
<1> DEFINE w == [sv EXCEPT !.list = p]
<1>4. GoodSv(w) /\ Consistent(w) /\ Fits(w, {}) /\ Awaits(w, {})
  BY <1>2, <1>3, ListKept
<1>5. Dispatch(w, <<>>)
  BY <1>1
<1> HIDE DEF w
<1> QED
  BY <1>4, <1>5, DispatchLooks

\* Another kind under the Overview's cursor.
LEMMA OverviewKeySettles ==
  ASSUME SvInv, Settled(sv), Idle, OverviewKey
  PROVE  CascadeInv'
<1>1. PICK k \in SelectedKinds(sv.overview) :
        Dispatch([sv EXCEPT !.picked = k,
                            !.wanted = IF k = sv.picked THEN @ ELSE NoKind], <<>>)
  BY DEF OverviewKey
<1> DEFINE a == IF k = sv.picked THEN sv.wanted ELSE NoKind
           w == [sv EXCEPT !.picked = k, !.wanted = a]
<1>2. GoodSv(sv) /\ Consistent(sv) /\ Fits(sv, {}) /\ Awaits(sv, {}) /\ ~KindMoved(sv)
      /\ ~ResourceMoved(sv)
  BY DEF SvInv, Settled, Cascading, Follows
<1>3. k \in Kind /\ k # NoKind /\ a \in MaybeKind
  BY <1>2, PanesAssumption DEF SelectedKinds, Stats, GoodSv, SingleViews, MaybeKind
<1>4. sv.picked # NoKind /\ sv.picked = sv.listFor
  BY <1>2 DEF Consistent, KindMoved
<1>5. k = sv.picked => a = sv.wanted
  OBVIOUS
<1>6. Dispatch(w, <<>>)
  BY <1>1
<1> HIDE DEF a
<1>7. /\ w \in SingleViews
      /\ w.scopes = sv.scopes /\ w.run = sv.run /\ w.overview = sv.overview /\ w.picked = k
      /\ w.list = sv.list /\ w.listFor = sv.listFor /\ w.detail = sv.detail
      /\ w.detailFor = sv.detailFor /\ w.focus = sv.focus /\ w.wanted = a
  BY <1>2, <1>3 DEF GoodSv, SingleViews, MaybeKind
<1> HIDE DEF w
<1>8. GoodSv(w)
  BY <1>2, <1>7, OthersGood
<1>9. Consistent(w)
  BY <1>2, <1>3, <1>4, <1>7 DEF Consistent
<1>10. Fits(w, {})
  <2>1. CASE k = sv.picked
    BY <1>2, <1>4, <1>5, <1>7, <2>1 DEF Fits, Unasked
  <2>2. CASE k # sv.picked
    BY <1>3, <1>4, <1>7, <2>2 DEF Fits
  <2> QED
    BY <2>1, <2>2
<1>11. Awaits(w, {})
  BY <1>2, <1>7 DEF Awaits
<1> QED
  BY <1>6, <1>8, <1>9, <1>10, <1>11, DispatchLooks

\* Another scope under the cursor: it is resolved.
LEMMA ScopesKeySettles ==
  ASSUME SvInv, Settled(sv), Idle, ScopesKey
  PROVE  CascadeInv'
<1>1. PICK r \in sv.scopes.rows :
        Dispatch([sv EXCEPT !.scopes.cursor = r,
                            !.wanted = IF r = sv.scopes.cursor THEN @ ELSE NoKind], <<>>)
  BY DEF ScopesKey
<1>2. GoodSv(sv) /\ Consistent(sv) /\ Fits(sv, {}) /\ Awaits(sv, {}) /\ ~KindMoved(sv)
      /\ ~ResourceMoved(sv) /\ sv.focus = "scopes"
  BY DEF SvInv, Settled, Cascading, Follows, ScopesKey
<1> DEFINE s == [sv.scopes EXCEPT !.cursor = r]
           a == IF r = sv.scopes.cursor THEN sv.wanted ELSE NoKind
           w == [sv EXCEPT !.scopes = s, !.wanted = a]
<1>3. /\ s \in ScopesPane /\ s.cursor = r /\ s.last = sv.scopes.last
      /\ s.rows = sv.scopes.rows /\ s.loaded = sv.scopes.loaded
      /\ a \in MaybeKind /\ r \in Run
  BY <1>2 DEF GoodSv, SingleViews, ScopesPane, MaybeRun, MaybeKind
<1>4. Dispatch(w, <<>>)
  BY <1>1
<1>5. r = sv.scopes.cursor => a = sv.wanted
  OBVIOUS
<1> HIDE DEF s, a
<1>6. /\ w \in SingleViews
      /\ w.scopes = s /\ w.run = sv.run /\ w.overview = sv.overview /\ w.picked = sv.picked
      /\ w.list = sv.list /\ w.listFor = sv.listFor /\ w.detail = sv.detail
      /\ w.detailFor = sv.detailFor /\ w.focus = sv.focus /\ w.wanted = a
  BY <1>2, <1>3 DEF GoodSv, SingleViews
<1> HIDE DEF w
<1>7. GoodSv(w)
  BY <1>2, <1>6, OthersGood
<1>8. ~KindMoved(w) /\ ~ResourceMoved(w)
  BY <1>2, <1>6 DEF KindMoved, ResourceMoved
<1>9. CASE r = sv.scopes.cursor
  <2>1. Consistent(w)
    BY <1>2, <1>3, <1>6, <1>9 DEF Consistent
  <2>2. Fits(w, {})
    BY <1>2, <1>5, <1>6, <1>9 DEF Fits, Unasked
  <2>3. Awaits(w, {})
    BY <1>2, <1>3, <1>6, <1>9 DEF Awaits
  <2>4. Settled(w)
    BY <1>8, <2>1, <2>2, <2>3 DEF Settled, Cascading, Follows
  <2> QED
    BY <1>4, <1>7, <2>4, DispatchSettles
<1>10. CASE r # sv.scopes.cursor
  <2> DEFINE t == [s EXCEPT !.last = r]
             n == [w EXCEPT !.scopes = t]
  <2>1. ScopeMoved(w)
    BY <1>1, <1>2, <1>3, <1>6, <1>10 DEF ScopeMoved, Consistent
  <2>2. Synced(w) = n
    BY <1>3, <1>6, <2>1 DEF Synced, SingleViews
  <2>3. /\ t.cursor = r /\ t.last = r /\ t.rows = sv.scopes.rows /\ t.loaded = sv.scopes.loaded
    BY <1>3 DEF ScopesPane
  <2> HIDE DEF t
  <2>4. /\ n.scopes = t /\ n.run = w.run /\ n.overview = w.overview /\ n.picked = w.picked
        /\ n.list = w.list /\ n.listFor = w.listFor /\ n.detail = w.detail
        /\ n.detailFor = w.detailFor /\ n.focus = w.focus
    BY <1>6 DEF SingleViews
  <2> HIDE DEF n
  <2>5. Cascade(w) = <<Resolve(r)>>
    BY <1>3, <1>6, <1>8, <2>1 DEF Cascade
  <2>6. <<>> \o <<Resolve(r)>> = <<Resolve(r)>>
    OBVIOUS
  <2>7. sv' = n /\ msgs' = InOrder(<<Resolve(r)>>) /\ UNCHANGED <<above, bar>> /\ Reached
    BY <1>4, <2>2, <2>5, <2>6, InOrderIsABag, NoneIsNothing DEF Dispatch, Return, Idle, None
  <2>8. Consistent(n)
    BY <1>1, <1>2, <1>6, <2>3, <2>4 DEF Consistent
  <2>9. ~KindMoved(n) /\ ~ResourceMoved(n)
    BY <1>8, <2>4 DEF KindMoved, ResourceMoved
  <2>10. n.scopes.loaded /\ n.scopes.cursor = r /\ r # NoRun /\ ~n.list.filter
    <3>1. ~sv.list.filter
      BY <1>2 DEF Consistent
    <3>2. sv.scopes.loaded
      BY <1>2 DEF Awaits
    <3> QED
      BY <1>3, <1>6, <2>3, <2>4, <3>1, <3>2, PanesAssumption
  <2>11. Only(msgs', Resolve(r))
    <3>1. <<Resolve(r)>> # <<>>
      OBVIOUS
    <3>2. DOMAIN InOrder(<<Resolve(r)>>) = {<<Resolve(r)>>} /\ InOrder(<<Resolve(r)>>)[<<Resolve(r)>>] = 1
      BY <3>1, InOrderIs
    <3> QED
      BY <2>7, <3>2 DEF Only
  <2>12. Resolving'
    BY <2>7, <2>8, <2>9, <2>10, <2>11 DEF Resolving
  <2> QED
    BY <2>7, <2>12 DEF CascadeInv, Reached
<1> QED
  BY <1>9, <1>10

\* "Tab": only the focus moves.
LEMMA TabSettles ==
  ASSUME SvInv, Settled(sv), Idle, Tab
  PROVE  CascadeInv'
<1>1. PICK forward \in BOOLEAN : sv' = Cycled(sv, forward)
  BY DEF Tab
<1>2. GoodSv(sv) /\ Consistent(sv) /\ Fits(sv, {}) /\ Awaits(sv, {}) /\ ~KindMoved(sv)
      /\ ~ResourceMoved(sv)
  BY DEF SvInv, Settled, Cascading, Follows
<1>3. ~sv.list.filter
  BY <1>2 DEF Tab, OwnKey, ActivePaneAbsorbing, Consistent
<1>4. \E f : sv' = [sv EXCEPT !.focus = f]
  BY <1>1 DEF Cycled
<1>5. PICK f : sv' = [sv EXCEPT !.focus = f]
  BY <1>4
<1> DEFINE w == [sv EXCEPT !.focus = f]
<1>6. /\ w.scopes = sv.scopes /\ w.run = sv.run /\ w.overview = sv.overview
      /\ w.picked = sv.picked /\ w.list = sv.list /\ w.listFor = sv.listFor
      /\ w.detail = sv.detail /\ w.detailFor = sv.detailFor /\ w.wanted = sv.wanted
  BY <1>2 DEF GoodSv, SingleViews
<1>7. sv' = w
  BY <1>5
<1> HIDE DEF w
<1>8. Consistent(w)
  BY <1>2, <1>3, <1>6 DEF Consistent
<1>9. Fits(w, {})
  BY <1>2, <1>6 DEF Fits, Unasked
<1>10. Awaits(w, {})
  BY <1>2, <1>6 DEF Awaits
<1>11. ~KindMoved(w) /\ ~ResourceMoved(w)
  BY <1>2, <1>6 DEF KindMoved, ResourceMoved
<1>12. Settled(w)
  BY <1>8, <1>9, <1>10, <1>11 DEF Settled, Cascading, Follows
<1>13. msgs' = None /\ UNCHANGED <<above, bar>> /\ ~bar
  BY DEF Tab, OwnKey, Reached, Idle, None
<1> QED
  BY <1>7, <1>12, <1>13, IdleAgain DEF SvInv

LEMMA GraphKeySettles ==
  ASSUME SvInv, Settled(sv), Idle, GraphKey
  PROVE  CascadeInv'
<1>1. GoodSv(sv) /\ Consistent(sv) /\ ~KindMoved(sv) /\ ~ResourceMoved(sv)
  BY DEF SvInv, Settled, Cascading, Follows
<1>2. Synced(sv) = sv /\ Cascade(sv) = <<>>
  BY <1>1, CascadeIs
<1>3. <<Push("graph")>> \o <<>> = <<Push("graph")>>
  OBVIOUS
<1>4. Return(InOrder(<<Push("graph")>>)) /\ UNCHANGED <<sv, above, bar>> /\ ~bar
  BY <1>2, <1>3 DEF GraphKey, Dispatch, Reached
<1>5. <<Push("graph")>> \in AppSequence
  BY DEF AppSequence
<1> QED
  BY <1>4, <1>5, HandsOver

\* The palette closes, and hands over what was asked for.
LEMMA BarSettles ==
  ASSUME SvInv, Settled(sv), Idle, BarEsc \/ BarEnter
  PROVE  CascadeInv'
<1>1. CASE BarEsc
  <2>1. msgs' = None /\ UNCHANGED <<sv, above>> /\ ~bar'
    BY <1>1, InOrderIs, NoneIsNothing, EmptyIsABag DEF BarEsc, CloseBar, Return, Idle, None
  <2> QED
    BY <2>1, IdleAgain DEF SvInv
<1>2. ASSUME NEW m, <<m>> \in AppSequence, CloseBar(One(m)) PROVE CascadeInv'
  <2>1. Return(InOrder(<<m>>)) /\ UNCHANGED <<sv, above>> /\ ~bar'
    BY <1>2 DEF CloseBar, One
  <2> QED
    BY <1>2, <2>1, HandsOver
<1>3. <<OpenScopesModal>> \in AppSequence
  BY DEF AppSequence
<1>4. ASSUME NEW k \in Kind, NEW i \in {0} \cup AnyRow PROVE <<Submit(k, i)>> \in AppSequence
  BY DEF AppSequence
<1>5. ASSUME BarEnter PROVE CascadeInv'
  <2>1. CASE CloseBar(One(OpenScopesModal))
    BY <1>2, <1>3, <2>1
  <2>2. ASSUME NEW k \in Kind, CloseBar(One(Submit(k, 0))) PROVE CascadeInv'
    BY <1>2, <1>4, <2>2
  <2>3. ASSUME NEW k \in Kind, corpus # NoRun, NEW i \in Rows(corpus, k), CloseBar(One(Submit(k, i)))
        PROVE  CascadeInv'
    <3>1. i \in AnyRow
      BY <2>3 DEF AnyRow, SvInv, MaybeRun
    <3> QED
      BY <1>2, <1>4, <2>3, <3>1
  <2> QED
    BY <1>5, <2>1, <2>2, <2>3 DEF BarEnter
<1> QED
  BY <1>1, <1>5

LEMMA AppKeySettles ==
  ASSUME SvInv, Settled(sv), Idle, QuitKey \/ AboveEsc \/ AboveEnter \/ Esc
  PROVE  CascadeInv'
<1>1. ASSUME NEW s \in AppSequence, OnlyReturns(InOrder(s)), ~bar PROVE CascadeInv'
  <2>1. Return(InOrder(s)) /\ UNCHANGED <<sv, above>> /\ ~bar'
    BY <1>1 DEF OnlyReturns
  <2> QED
    BY <2>1, HandsOver
<1>2. CASE QuitKey
  <2>1. <<Quit>> \in AppSequence
    BY DEF AppSequence
  <2> QED
    BY <1>1, <1>2, <2>1 DEF QuitKey, One
<1>3. CASE AboveEsc \/ Esc
  <2>1. <<Pop>> \in AppSequence
    BY DEF AppSequence
  <2> QED
    BY <1>1, <1>3, <2>1 DEF AboveEsc, Esc, OwnKey, Reached, One
<1>4. CASE AboveEnter
  <2>1. PICK r \in Run : OnlyReturns(InOrder(<<Pop, SwitchRun(r)>>))
    BY <1>4 DEF AboveEnter
  <2>2. above # "none" /\ ~bar
    BY <1>4 DEF AboveEnter
  <2>3. <<Pop, SwitchRun(r)>> \in AppSequence
    BY <2>2 DEF AppSequence
  <2> QED
    BY <1>1, <2>1, <2>2, <2>3
<1> QED
  BY <1>2, <1>3, <1>4

LEMMA KeySettles ==
  ASSUME SvInv, CascadeInv, Patient, Key
  PROVE  CascadeInv'
<1>1. Idle
  BY DEF Key, QuitKey, OpenBar, BarEsc, BarEnter, CloseBar, AboveEsc, AboveEnter, OwnKey,
         Tab, Esc, ScopesKey, OverviewKey, ListKey, GraphKey, OtherKey, Dispatch, Press
<1>2. Settled(sv)
  BY <1>1, IdleSettled
<1>3. CASE OpenBar
  BY <1>1, <1>2, <1>3 DEF OpenBar, CascadeInv, Idle
<1>4. CASE OtherKey
  BY <1>1, <1>2, <1>4, DispatchSettles DEF OtherKey, SvInv
<1> QED
  BY <1>1, <1>2, <1>3, <1>4, AppKeySettles, BarSettles, TabSettles, ScopesKeySettles,
     OverviewKeySettles, ListKeySettles, GraphKeySettles DEF Key

(***************************************************************************)
(* The theorems for a patient user.                                        *)
(***************************************************************************)
LEMMA CascadeInit == Init => CascadeInv
<1> SUFFICES ASSUME Init PROVE CascadeInv
  OBVIOUS
<1>1. ScopesLoad.type # "tick"
  BY DEF ScopesLoad
<1>2. DOMAIN msgs = {<<ScopesLoad>>, <<Tick("scopes")>>} /\ msgs[<<ScopesLoad>>] = 1
  BY <1>1, InBagLoads DEF Init
<1>3. Tick("scopes") \in {Tick(f) : f \in Panel}
  BY DEF Panel
<1>4. Only(msgs, ScopesLoad)
  BY <1>2, <1>3 DEF Only, TickSequence
<1> QED
  BY <1>4 DEF Init, CascadeInv, Reached, Starting

LEMMA CascadeMessage ==
  ASSUME SvInv, CascadeInv, Message
  PROVE  CascadeInv'
<1>1. CASE Idle
  <2>1. Heads = {}
    BY <1>1, InOrderIs DEF Heads, Idle, None
  <2> QED
    BY <2>1, MessageHandles
<1>2. CASE ~bar /\ Handing
  BY <1>2, HandingKept
<1>3. CASE ~bar /\ above # "none" /\ Covered
  BY <1>3, CoveredKept
<1>4. CASE Reached /\ Starting
  BY <1>4, StartingKept DEF CascadeInv
<1>5. CASE Reached /\ Resolving
  BY <1>5, ResolvingKept DEF CascadeInv
<1>6. CASE Reached /\ Counting
  BY <1>6, CountingKept DEF CascadeInv
<1>7. CASE Reached /\ Filling
  BY <1>7, FillingKept DEF CascadeInv
<1> QED
  BY <1>1, <1>2, <1>3, <1>4, <1>5, <1>6, <1>7 DEF CascadeInv

LEMMA CascadeNext == Patient /\ SvInv /\ CascadeInv /\ [Next]_vars => CascadeInv'
<1> SUFFICES ASSUME Patient, SvInv, CascadeInv, [Next]_vars PROVE CascadeInv'
  OBVIOUS
<1>1. CASE UNCHANGED vars
  <2>1. UNCHANGED <<sv, above, bar, msgs>>
    BY <1>1 DEF vars
  <2>2. Handing => Handing'
    BY <2>1 DEF Handing, AppSequence
  <2>3. /\ Covered => Covered'
        /\ Starting => Starting'
        /\ Resolving => Resolving'
        /\ Counting => Counting'
        /\ Filling => Filling'
    BY <2>1 DEF Covered, Starting, Resolving, Counting, Filling, Pending
  <2> QED
    BY <2>1, <2>2, <2>3 DEF CascadeInv, Reached, Idle
<1>2. CASE Next
  BY <1>2, CascadeMessage, KeySettles DEF Next
<1> QED
  BY <1>1, <1>2

\* The inductive invariant: a patient user finds the panes in one of the
\* phases of the cascade, for every number of scopes, kinds and resources.
THEOREM CascadeInvariant == Patient => (Spec => [](SvInv /\ CascadeInv))
<1> SUFFICES ASSUME Patient PROVE Spec => [](SvInv /\ CascadeInv)
  OBVIOUS
<1>1. SvInv /\ CascadeInv /\ [Next]_vars => (SvInv /\ CascadeInv)'
  BY SvNext, CascadeNext
<1> QED
  BY <1>1, SvInit, CascadeInit, PTL DEF Spec

\* The cascade reaches the bottom: when a user who waits finds nothing
\* pending, every pane has loaded and follows the cursor above it, whichever
\* queries failed and whatever the palette asked for.
THEOREM CascadeReachesTheBottom == Patient => (Spec => []CascadeSettles)
<1> SUFFICES ASSUME Patient PROVE Spec => []CascadeSettles
  OBVIOUS
<1>1. SvInv /\ CascadeInv => CascadeSettles
  <2> SUFFICES ASSUME SvInv, CascadeInv, Idle PROVE CascadeSettles
    BY DEF CascadeSettles
  <2>1. Consistent(sv) /\ Awaits(sv, {}) /\ ~KindMoved(sv) /\ ~ResourceMoved(sv)
    BY IdleSettled DEF Settled, Cascading, Follows
  <2>2. \A p \in {sv.overview, sv.list} : p # NoPane => p.loaded
    BY <2>1 DEF Awaits
  <2>3. sv.picked # NoKind => sv.listFor = sv.picked
    BY <2>1 DEF KindMoved
  <2>4. SelectedResource(sv.list) # NoSelection =>
          sv.detailFor = SelectedResource(sv.list) /\ sv.detail # NoDetail
    BY <2>1 DEF ResourceMoved, Consistent
  <2> QED
    BY <2>1, <2>2, <2>3, <2>4 DEF CascadeSettles, Awaits
<1> QED
  BY <1>1, CascadeInvariant, PTL

\* Once nothing is pending, each pane shows what it was built for, unless the
\* palette has swapped the list.
THEOREM PanesShowTheirOwn == Patient => (Spec => []SvShowsItsOwn)
<1> SUFFICES ASSUME Patient PROVE Spec => []SvShowsItsOwn
  OBVIOUS
<1>1. SvInv /\ CascadeInv => SvShowsItsOwn
  <2> SUFFICES ASSUME SvInv, CascadeInv, Idle, sv.wanted = NoKind PROVE SvShowsItsOwn
    BY DEF SvShowsItsOwn
  <2>1. Consistent(sv) /\ Fits(sv, {}) /\ ~KindMoved(sv) /\ GoodSv(sv)
    BY IdleSettled DEF Settled, Cascading, Follows, SvInv
  <2>2. sv.list.src \in {Nothing, [run |-> sv.run, kind |-> sv.listFor]}
    <3>1. Unasked(sv, {})
      BY DEF Unasked
    <3> QED
      BY <2>1, <3>1 DEF Fits, KindMoved
  <2>3. sv.list # NoPane => sv.list.run = sv.run /\ sv.list.kind = sv.listFor
    BY <2>1 DEF GoodSv, GoodList
  <2>4. sv.overview # NoPane =>
          /\ sv.overview.run = sv.run /\ sv.overview.kind = NoKind
          /\ sv.overview.src \in {Nothing, [run |-> sv.run, kind |-> NoKind]}
    BY <2>1 DEF GoodSv, GoodOverview, IsOverview, Consistent
  <2>5. \A p \in {sv.overview, sv.list} :
          p # NoPane => p.src \in {Nothing, [run |-> p.run, kind |-> p.kind]}
    BY <2>2, <2>3, <2>4
  <2>6. NoPane.src = Nothing
    BY NoPaneFields
  <2> QED
    BY <2>1, <2>5, <2>6 DEF SvShowsItsOwn, Consistent
<1> QED
  BY <1>1, CascadeInvariant, PTL
=============================================================================
