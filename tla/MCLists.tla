------------------------------ MODULE MCLists -------------------------------
(***************************************************************************)
(* A small instance of Lookup: three machines in one run and two in the    *)
(* other.  Pattern p finds the last machine best and the first not at all, *)
(* pattern q finds two of them equally well; two machines are in the same  *)
(* zone.  Both columns ask for more than two of the widths offer, one of   *)
(* them for less than its share of the floor.                              *)
(***************************************************************************)
EXTENDS Lookup

CONSTANTS r1, r2, vm, p, q, a, b

MCSize == [r \in Run |-> [k \in Kind |-> IF r = r1 THEN 3 ELSE 2]]
MCScore == [t \in Pattern |-> IF t = p THEN <<0, 1, 2>> ELSE <<1, 0, 1>>]
MCCell == << <<2, 3, 1>>, <<1, 2, 1>> >>
MCNatural == <<12, 5>>
MCLow == [width |-> 100, height |-> 8]
MCWindow == {[width |-> w, height |-> 13] : w \in {16, 21, 100}} \cup {MCLow}

\* Filters, sorts, redraws and foreign answers do not meet a list that was left
\* or is restored in another window, the low window, or a text in the palette;
\* and lists are left in one run, by one of the texts, with no row asked for.
MCPlain(l) ==
  /\ ~l.filterOn /\ l.filterIn = NoText /\ l.sort = Unsorted /\ l.innerWidth = 0
  /\ l.src \in {Nothing, l.own}
MCBounded ==
  /\ leftHistory # <<>> \/ sizedFor # window \/ window = MCLow \/ text # Blank =>
       MCPlain(This)
  /\ leftHistory # <<>> => own.run = r1 /\ text # b
  /\ \A i \in DOMAIN leftHistory :
       MCPlain(leftHistory[i].list) /\ leftHistory[i].list.goal = 0

Alias(k) == [kind |-> NoKind, row |-> 0, alias |-> k]
Resource(k, i) == [kind |-> k, row |-> i, alias |-> NoKind]

MCAliasHits == [t \in Typed |-> IF t = a THEN <<Alias(vm)>> ELSE <<>>]
MCIndexHits ==
  [r \in MaybeRun |-> [t \in Typed |->
     CASE r = NoRun -> <<>>
       [] r = r2    -> <<Resource(vm, 2)>>
       [] t = a     -> <<Resource(vm, 3), Resource(vm, 1), Resource(vm, 2)>>
       [] OTHER     -> <<Resource(vm, 2), Resource(vm, 3), Resource(vm, 1)>>]]
=============================================================================
