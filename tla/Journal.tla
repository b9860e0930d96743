------------------------------ MODULE Journal ------------------------------
(***************************************************************************)
(* What the history of matches promises its readers: a page for each       *)
(* match, opened once, by the only writer, who fills it on leaving it and  *)
(* never comes back to it.                                                 *)
(*                                                                         *)
(* Two kinds of pages are marked, since less is promised of them.  A page  *)
(* that the writer left without an outcome is lost.  A page whose number   *)
(* was taken for that of another match is borrowed: it remains the page of *)
(* its match, and has an outcome once it had one.                          *)
(***************************************************************************)
EXTENDS Naturals, Sequences

CONSTANT Guids

VARIABLES
  pages,       \* the pages, in the order they were opened
  current,     \* the page the writer is at, or 0
  lost,        \* pages left without an outcome
  borrowed     \* pages written to for another match

vars == <<pages, current, lost, borrowed>>

Blank(g) == [guid |-> g, outcome |-> <<>>, scores |-> <<>>]

Init == pages = <<>> /\ current = 0 /\ lost = {} /\ borrowed = {}

\* The pages that a step leaves: the current one, or none.
Left == {current} \ {0, current'}

\* The writer stays at its page, or is at none.
Stay == Len(pages') = Len(pages) /\ current' \in {0, current}

\* The writer goes on with a blank page, of a match without one.
Open(g) ==
  /\ \A i \in DOMAIN pages : pages[i].guid # g
  /\ Len(pages') = Len(pages) + 1
  /\ current' = Len(pages')
  /\ pages'[current'] = Blank(g)

\* Nothing is written but to the page that is left, and to borrowed ones.
Keep(i) ==
  \/ pages'[i] = pages[i]
  \/ /\ i \in Left \cup borrowed'
     /\ pages'[i].guid = pages[i].guid
     /\ pages[i].outcome # <<>> => pages'[i].outcome # <<>>

Next ==
  /\ Stay \/ \E g \in Guids : Open(g)
  /\ \A i \in DOMAIN pages : Keep(i)
  /\ lost' = lost \cup {i \in Left : pages'[i].outcome = <<>>}
  /\ borrowed \subseteq borrowed'

Spec == Init /\ [][Next]_vars
=============================================================================
