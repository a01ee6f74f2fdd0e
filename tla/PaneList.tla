------------------------------ MODULE PaneList ------------------------------
(***************************************************************************)
(* What the models of the screens take a resource list to be: the record   *)
(* Pane and the handlers of Panes, over a history of such records.         *)
(* Whatever a list does with cursors, patterns, columns and sizes is one   *)
(* of these steps, or invisible.                                           *)
(***************************************************************************)
EXTENDS Panes, Sequences

VARIABLES
  pane,     \* the list on the screen
  history   \* those left for another kind's, last one last

Answers == [run : Run, kind : Kind] \cup {Nothing}

PaneInit ==
  /\ \E r \in Run, k \in Kind : pane = NewResourceList(r, k, 0)
  /\ history = <<>>

\* A list of the same run, with or without a jump, takes its place.
NextList ==
  \E k \in Kind, j \in AnyRow \cup {0} : pane' = NewResourceList(pane.run, k, j)

\* The palette's list, this one kept under it.
Swap == NextList /\ history' = Append(history, pane)

\* The Overview under the last list shows the next one.
Drill == history = <<>> /\ NextList /\ UNCHANGED history

\* Esc: the list left last is back, as it was.
Back ==
  /\ history # <<>>
  /\ pane' = history[Len(history)]
  /\ history' = SubSeq(history, 1, Len(history) - 1)

\* A list of a run that was switched to; none of the old run's is kept.
Switch ==
  /\ \E r \in Run, k \in Kind : pane' = NewResourceList(r, k, 0)
  /\ history' = <<>>

Take == (\E s \in Answers : pane' \in TakeRows(pane, s)) /\ UNCHANGED history
Press == pane' \in LeftKeys(pane) /\ UNCHANGED history
Repeat == pane' \in Refiltered(pane) /\ UNCHANGED history

PaneNext == Swap \/ Drill \/ Back \/ Switch \/ Take \/ Press \/ Repeat

PaneSpec == PaneInit /\ [][PaneNext]_<<pane, history>>
=============================================================================
