------------------------------- MODULE Lists -------------------------------
(***************************************************************************)
(* The linked lists of dwm (m->clients through c->next, m->stack through   *)
(* c->snext) as sequences without repetition, and the walks over them.     *)
(***************************************************************************)
EXTENDS Integers, SequencesExt

\* q holds every element of S, once.
Lists(q, S) == q \in Seq(S) /\ IsInjective(q) /\ Range(q) = S

IndexOf(q, e) == CHOOSE i \in DOMAIN q : q[i] = e

Before(q, c, d) == IndexOf(q, c) < IndexOf(q, d)

\* The walk of focusstack and movestack from position k over the positions
\* Good, 0 if there is none: with +1 the first one after k, else the first of
\* all; with -1 the last one before k, else the last of all from k on.
Cyclic(Good, k, dir) ==
  LET ahead == {i \in Good : IF dir > 0 THEN i > k ELSE i < k}
      from  == IF ahead # {} THEN ahead
               ELSE IF dir > 0 THEN Good ELSE {i \in Good : i >= k}
  IN  IF from = {} THEN 0 ELSE IF dir > 0 THEN Min(from) ELSE Max(from)

============================================================================
