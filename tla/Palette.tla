------------------------------ MODULE Palette -------------------------------
(***************************************************************************)
(* The command bar (internal/tui/components/cmdbar.go): suggestions for    *)
(* the typed text, the highlighted one, and the window over them.  Fuzzy   *)
(* search is external.  Suggestions are counted from 1.                    *)
(***************************************************************************)
EXTENDS Panes, Integers, Sequences, FiniteSetsExt

CONSTANTS
  Typed,            \* what may be typed
  Blank,            \* the empty input
  AliasHits,        \* AliasHits[t]: the aliases t finds, best first
  IndexHits,        \* IndexHits[r][t]: the resources of run r it finds
  maxFuzzyResults,
  visibleWindow

\* An alias for kind alias, or row number row of a kind.
AliasEntry == [kind : {NoKind}, row : {0}, alias : Kind]
ResourceEntry == [kind : Kind, row : AnyRow, alias : {NoKind}]
Suggestion == AliasEntry \cup ResourceEntry

ASSUME PaletteAssumption ==
  /\ Blank \notin Typed
  /\ AliasHits \in [Typed -> Seq(AliasEntry)]
  /\ IndexHits \in [MaybeRun -> [Typed -> Seq(ResourceEntry)]]
  /\ maxFuzzyResults \in Nat \ {0} /\ visibleWindow \in Nat \ {0}

VARIABLES
  open,
  text,         \* the input
  resources,    \* the run whose resources it suggests, NoRun for none
  suggestions, selected,
  offset        \* how many suggestions are above the window

bvars == <<open, text, resources, suggestions, selected, offset>>

IsAlias(s) == s.kind = NoKind

\* Aliases first, maxFuzzyResults at most.
Found(t, r) ==
  LET all == AliasHits[t] \o IndexHits[r][t]
  IN  IF t = Blank THEN <<>> ELSE SubSeq(all, 1, Min({maxFuzzyResults, Len(all)}))

BarInit ==
  /\ open = FALSE /\ text = Blank /\ resources \in Run
  /\ suggestions = <<>> /\ selected = 1 /\ offset = 0

\* Close; the input keeps its text until the next Open.
Close ==
  /\ open' = FALSE
  /\ suggestions' = <<>>
  /\ selected' = 1
  /\ offset' = 0

\* Where the entry the user moved to is in the new list.
Highlighted(new) ==
  IF selected > 1 /\ selected \in DOMAIN suggestions
  THEN {i \in DOMAIN new : new[i] = suggestions[selected]} ELSE {}

\* Mutant of WindowOver: the window starts at the top again.
WindowOverTop(i) == 0

\* The window whose last line is entry i, or the first one.
WindowOver(i) == IF i > visibleWindow THEN i - visibleWindow ELSE 0

\* recomputeSuggestions, for input t.
recomputeSuggestions(t) ==
  /\ text' = t
  /\ suggestions' = Found(t, resources)
  /\ LET kept == Highlighted(suggestions')
     IN  IF kept = {}
         THEN selected' = 1 /\ offset' = 0
         ELSE selected' = Min(kept) /\ offset' = WindowOver(selected')

Open ==
  /\ ~open
  /\ open' = TRUE
  /\ recomputeSuggestions(Blank)
  /\ UNCHANGED resources

BarUp ==
  /\ open /\ selected > 1
  /\ selected' = selected - 1
  /\ offset' = IF selected' <= offset THEN selected' - 1 ELSE offset
  /\ UNCHANGED <<open, text, resources, suggestions>>

BarDown ==
  /\ open /\ selected < Len(suggestions)
  /\ selected' = selected + 1
  /\ offset' = IF selected' > offset + visibleWindow THEN WindowOver(selected') ELSE offset
  /\ UNCHANGED <<open, text, resources, suggestions>>

Esc == open /\ Close /\ UNCHANGED <<text, resources>>

\* commit returns what is highlighted, none when nothing is.
commit == IF suggestions = <<>> THEN {} ELSE {suggestions[selected]}

Enter == open /\ Close /\ UNCHANGED <<text, resources>>

\* Any other key, or a message that is not the router's own: the input may
\* change, and the suggestions are found again.
Input(t) == open /\ recomputeSuggestions(t) /\ UNCHANGED <<open, resources>>

\* refreshCmdbarCorpus: SetCorpus, open or not.
SetCorpus(r) ==
  /\ resources' = r
  /\ UNCHANGED <<open, text, suggestions, selected, offset>>

-----------------------------------------------------------------------------
(* Properties.                                                             *)

BarTypeOK ==
  /\ open \in BOOLEAN /\ text \in Typed \cup {Blank} /\ resources \in Run
  /\ suggestions \in Seq(Suggestion)
  /\ selected \in Nat \ {0} /\ offset \in Nat

\* What Enter commits is on the screen, and the window is never moved past
\* the last suggestion while there are enough to fill it.
HighlightOnScreen ==
  /\ suggestions # <<>> => /\ selected \in offset + 1 .. offset + visibleWindow
                           /\ selected \in DOMAIN suggestions
  /\ offset = 0 \/ offset + visibleWindow <= Len(suggestions)

\* The inductive invariant of both.
BarInv ==
  /\ BarTypeOK /\ HighlightOnScreen
  /\ suggestions = <<>> => selected = 1 /\ offset = 0

\* An entry the user moved to stays highlighted for as long as the text finds
\* it, wherever it is in the list by then ("without this, every refining
\* keystroke would yank the cursor back to the top mid-navigation").
PickSurvives ==
  [][\A i \in DOMAIN suggestions' :
       /\ open /\ open' /\ selected > 1 /\ text' # text
       /\ suggestions'[i] = suggestions[selected]
       => suggestions'[selected'] = suggestions[selected]]_bvars

\* The resources suggested are those of the run shown ("the next Open()
\* rebuilds suggestions", and SetCorpus is "cheap to call every time the
\* active run changes").
SuggestsCurrentRun == open => suggestions = Found(text, resources)
=============================================================================
