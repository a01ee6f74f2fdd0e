----------------------------- MODULE TuiLemmas ------------------------------
(***************************************************************************)
(* Lemmas the proofs about the terminal screens share: bags of messages,   *)
(* and what the handlers of Panes do to a part.                            *)
(***************************************************************************)
EXTENDS Panes, Integers, Bags, TLAPS

(***************************************************************************)
(* Bags.                                                                   *)
(***************************************************************************)
BagOver(B, S) == IsABag(B) /\ DOMAIN B \subseteq S

\* Adding bags: what a handler's commands do to msgs.
LEMMA AddBag ==
  ASSUME NEW B, NEW C, NEW S, BagOver(B, S), BagOver(C, S)
  PROVE  BagOver(B (+) C, S)
<1> DEFINE D == B (+) C
<1>1. DOMAIN D = DOMAIN B \cup DOMAIN C
  BY DEF (+)
<1>2. ASSUME NEW e \in DOMAIN D PROVE D[e] \in {n \in Nat : n > 0}
  <2>1. D[e] = (IF e \in DOMAIN B THEN B[e] ELSE 0) + (IF e \in DOMAIN C THEN C[e] ELSE 0)
    BY <1>1 DEF (+)
  <2>2. e \in DOMAIN B => B[e] \in {n \in Nat : n > 0}
    BY DEF BagOver, IsABag
  <2>3. e \in DOMAIN C => C[e] \in {n \in Nat : n > 0}
    BY DEF BagOver, IsABag
  <2>4. e \in DOMAIN B \/ e \in DOMAIN C
    BY <1>1
  <2> QED BY <2>1, <2>2, <2>3, <2>4
<1>3. D = [e \in DOMAIN D |-> D[e]]
  BY <1>1 DEF (+)
<1>4. IsABag(D)
  BY <1>2, <1>3 DEF IsABag
<1> QED BY <1>1, <1>4 DEF BagOver

\* Removing from a bag: what taking a message does to msgs.
LEMMA DropBag ==
  ASSUME NEW B, NEW C, NEW S, BagOver(B, S), IsABag(C)
  PROVE  BagOver(B (-) C, S)
<1> DEFINE F == [e \in DOMAIN B |-> IF e \in DOMAIN C THEN B[e] - C[e] ELSE B[e]]
           D == [e \in {d \in DOMAIN F : F[d] > 0} |-> F[e]]
<1>1. D = B (-) C
  BY DEF (-)
<1>2. ASSUME NEW e \in DOMAIN D PROVE D[e] \in {n \in Nat : n > 0} /\ e \in DOMAIN B
  <2>1. e \in DOMAIN B /\ F[e] > 0 /\ D[e] = F[e]
    OBVIOUS
  <2>2. B[e] \in Nat /\ (e \in DOMAIN C => C[e] \in Nat)
    BY <2>1 DEF BagOver, IsABag
  <2>3. F[e] = IF e \in DOMAIN C THEN B[e] - C[e] ELSE B[e]
    BY <2>1
  <2>4. F[e] \in Int
    BY <2>2, <2>3
  <2> QED BY <2>1, <2>4
<1>3. IsABag(D)
  BY <1>2 DEF IsABag
<1>4. DOMAIN D \subseteq S
  BY <1>2 DEF BagOver
<1> QED BY <1>1, <1>3, <1>4 DEF BagOver

-----------------------------------------------------------------------------
(***************************************************************************)
(* Panes.  A filter is open in lists only, and the rows of a list come     *)
(* from a list's query.                                                    *)
(***************************************************************************)
GoodPane(p) ==
  /\ p \in Pane
  /\ p.filter => ~IsOverview(p)
  /\ ~IsOverview(p) => p.src = Nothing \/ (p.src.run \in Run /\ p.src.kind \in Kind)

LEMMA RowsAreNat ==
  ASSUME NEW r \in Run, NEW k \in Kind
  PROVE  Rows(r, k) \subseteq Nat
BY PanesAssumption DEF Rows

\* A source a pane may have: of an overview's query, or of a list's.
GoodSource(s) == s = Nothing \/ (s.run \in Run /\ s.kind \in Kind)

LEMMA AnsweredAreNat ==
  ASSUME NEW s, GoodSource(s)
  PROVE  Answered(s) \subseteq Nat
BY RowsAreNat DEF Answered, GoodSource

LEMMA NewOverviewGood ==
  ASSUME NEW r \in Run
  PROVE  GoodPane(NewOverview(r)) /\ NewOverview(r).run = r
BY DEF GoodPane, NewOverview, Pane, IsOverview, Nothing, Source, MaybeRun, MaybeKind

LEMMA NewResourceListGood ==
  ASSUME NEW r \in Run, NEW k \in Kind, NEW j \in Nat
  PROVE  GoodPane(NewResourceList(r, k, j)) /\ NewResourceList(r, k, j).run = r
BY DEF GoodPane, NewResourceList, NewOverview, Pane, IsOverview, Nothing, Source,
       MaybeRun, MaybeKind

LEMMA TakeOverviewGood ==
  ASSUME NEW p, GoodPane(p), IsOverview(p), NEW s \in Source
  PROVE  GoodPane(TakeOverview(p, s)) /\ TakeOverview(p, s).run = p.run
BY DEF GoodPane, TakeOverview, Pane, IsOverview

\* The rows, cursor and flags of a list change; its run and kind never do.
LEMMA ListGood ==
  ASSUME NEW p, GoodPane(p), ~IsOverview(p), NEW q \in Pane,
         q.run = p.run, q.kind = p.kind, GoodSource(q.src)
  PROVE  GoodPane(q) /\ q.run = p.run /\ q.kind = p.kind
BY DEF GoodPane, IsOverview, GoodSource

LEMMA TakeRowsGood ==
  ASSUME NEW p, GoodPane(p), NEW s \in Source, GoodSource(s), NEW q \in TakeRows(p, s)
  PROVE  GoodPane(q) /\ q.run = p.run /\ q.kind = p.kind
<1>1. CASE IsOverview(p)
  BY <1>1 DEF TakeRows
<1>2. CASE ~IsOverview(p)
  <2>1. PICK c \in Nat :
          q = [p EXCEPT !.loaded = TRUE, !.src = s, !.visible = Answered(s),
                        !.jump = 0, !.cursor = c]
    BY <1>2, AnsweredAreNat DEF TakeRows
  <2>2. q \in Pane /\ q.run = p.run /\ q.kind = p.kind /\ q.src = s
    BY <2>1, AnsweredAreNat DEF GoodPane, Pane
  <2> QED BY <1>2, <2>2, ListGood
<1> QED BY <1>1, <1>2

\* What applyFilter leaves of a list with other flags.
LEMMA FilteredGood ==
  ASSUME NEW p, GoodPane(p), ~IsOverview(p),
         NEW o \in Pane, o.run = p.run, o.kind = p.kind, o.src = p.src,
         NEW v \in SUBSET Answered(p.src), NEW q \in Filtered(o, v)
  PROVE  GoodPane(q) /\ q.run = p.run /\ q.kind = p.kind
<1>1. GoodSource(p.src)
  BY DEF GoodPane, GoodSource
<1>2. v \in SUBSET Nat
  BY <1>1, AnsweredAreNat
<1>3. PICK c \in Nat : q = [o EXCEPT !.visible = v, !.cursor = c]
  BY <1>2 DEF Filtered
<1>4. q \in Pane /\ q.run = p.run /\ q.kind = p.kind /\ q.src = p.src
  BY <1>2, <1>3 DEF Pane
<1> QED BY <1>1, <1>4, ListGood

LEMMA RefilteredGood ==
  ASSUME NEW p, GoodPane(p), NEW q \in Refiltered(p)
  PROVE  GoodPane(q) /\ q.run = p.run /\ q.kind = p.kind
<1>1. CASE q = p
  BY <1>1
<1>2. CASE q # p
  <2>1. ~IsOverview(p) /\ q \in Filtered(p, Answered(p.src) \ p.hides) /\ p \in Pane
    BY <1>2 DEF Refiltered, GoodPane
  <2> QED BY <2>1, FilteredGood
<1> QED BY <1>1, <1>2

\* Every key a left pane takes.
LEMMA LeftKeysGood ==
  ASSUME NEW p, GoodPane(p), NEW q \in LeftKeys(p)
  PROVE  GoodPane(q) /\ q.run = p.run /\ q.kind = p.kind
<1>1. CASE IsOverview(p)
  BY <1>1 DEF LeftKeys
<1>2. CASE ~IsOverview(p)
  <2>1. GoodSource(p.src) /\ p \in Pane
    BY <1>2 DEF GoodPane, GoodSource
  <2>2. Answered(p.src) \subseteq Nat
    BY <2>1, AnsweredAreNat
  <2>3. CASE q \in Moved(p) \cup {FilterOpened(p)}
    <3>1. CASE q = FilterOpened(p)
      BY <1>2, <2>1, <3>1, ListGood DEF FilterOpened, Pane
    <3>2. CASE q \in Moved(p)
      <4>1. PICK c \in Nat : q = [p EXCEPT !.cursor = c, !.goal = 0]
        BY <2>1, <3>2 DEF Moved, Pane
      <4> QED BY <1>2, <2>1, <4>1, ListGood DEF Pane
    <3> QED BY <2>3, <3>1, <3>2
  <2>4. CASE q \in FilterTyped(p)
    <3>1. PICK h \in SUBSET AnyRow :
            q \in Filtered([p EXCEPT !.hides = h], Answered(p.src) \ h)
      BY <2>4 DEF FilterTyped
    <3>2. [p EXCEPT !.hides = h] \in Pane
      BY <2>1, RowsAreNat DEF Pane, AnyRow
    <3> QED BY <1>2, <2>1, <3>1, <3>2, FilteredGood DEF Pane
  <2>5. CASE q \in FilterClosed(p) \cup {FilterKept(p)}
    <3>1. CASE q = FilterKept(p)
      BY <1>2, <2>1, <3>1, ListGood DEF FilterKept, Pane
    <3>2. CASE q \in FilterClosed(p)
      <4>1. [p EXCEPT !.filter = FALSE] \in Pane
        BY <2>1 DEF Pane
      <4> QED BY <1>2, <2>1, <3>2, <4>1, FilteredGood DEF FilterClosed, Pane
    <3> QED BY <2>5, <3>1, <3>2
  <2>6. CASE q \in Sorted(p)
    <3>1. [p EXCEPT !.goal = 0] \in Pane
      BY <2>1 DEF Pane
    <3> QED BY <1>2, <2>1, <2>6, <3>1, FilteredGood DEF Sorted, Pane
  <2> QED BY <1>2, <2>3, <2>4, <2>5, <2>6 DEF LeftKeys
<1> QED BY <1>1, <1>2

-----------------------------------------------------------------------------
(***************************************************************************)
(* Details.                                                                *)
(***************************************************************************)
LEMMA SelectedRefType ==
  ASSUME NEW p, GoodPane(p)
  PROVE  SelectedRef(p) \in Ref
BY DEF SelectedRef, Ref, NoRef, GoodPane, Pane, Source, MaybeKind

LEMMA NoDetailType == NoDetail \in Detail
BY DEF NoDetail, Detail, Nothing, NoRef, Ref, Source, MaybeRun, MaybeKind

LEMMA NewDetailType ==
  ASSUME NEW r \in Run, NEW p, GoodPane(p)
  PROVE  /\ NewDetail(r, p) \in Detail
         /\ NewDetail(r, p).run = r
         /\ NewDetail(r, p).ref = SelectedRef(p)
BY SelectedRefType, NoDetailType
   DEF NewDetail, NoDetail, Detail, GoodPane, Pane, MaybeRun

\* The answer to a Detail's query changes neither its run nor its row.
LEMMA TakeEdgesType ==
  ASSUME NEW d \in Detail, NEW r \in MaybeRun
  PROVE  /\ TakeEdges(d, r) \in Detail
         /\ TakeEdges(d, r).run = d.run
         /\ TakeEdges(d, r).ref = d.ref
         /\ d = NoDetail => TakeEdges(d, r) = NoDetail
BY DEF TakeEdges, Detail
=============================================================================
