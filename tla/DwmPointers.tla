---------------------------- MODULE DwmPointers ----------------------------
(***************************************************************************)
(* The list of clients of one monitor of dwm as the code keeps it: a chain *)
(* of pointers.  ptr[Anchor] is m->clients and ptr[c] is c->next, so that an *)
(* element of the domain of ptr is what the Client **tc of the code can    *)
(* point to.  movestack exchanges two elements by rewriting up to five of  *)
(* these pointers; the module shows that it, attach, attachbottom, detach  *)
(* and zoom do to the chain what ClientRow says they do to the list.       *)
(***************************************************************************)
EXTENDS Lists

CONSTANTS Client, Null, Anchor

VARIABLES ptr, sel, tiled

chainVars == <<ptr, sel, tiled>>

\* The first cell from cell a on whose content is NULL or in Stop.
RECURSIVE Seek(_, _, _)
Seek(p, a, Stop) ==
  IF p[a] = Null \/ p[a] \in Stop THEN a ELSE Seek(p, p[a], Stop)

\* The clients from cell a on, in order; n bounds the walk.
RECURSIVE Walk(_, _, _)
Walk(p, a, n) ==
  IF p[a] = Null \/ n = 0 THEN << >> ELSE <<p[a]>> \o Walk(p, p[a], n - 1)

Row(p) == Walk(p, Anchor, Cardinality(Client) + 1)

Listed == Range(Row(ptr))

Attach(p, c) == [p EXCEPT ![c] = p[Anchor], ![Anchor] = c]

AttachBottom(p, c) ==
  LET q == [p EXCEPT ![c] = Null]
  IN  [q EXCEPT ![Seek(q, Anchor, {})] = c]

Detach(p, c) == [p EXCEPT ![Seek(p, Anchor, {c})] = p[c]]

\* nexttiled: the first tiled client in the cells from a on, or NULL.
NextTiled(p, a) == p[Seek(p, a, tiled)]

\* The last tiled client in the cells from a up to the one that holds e, or NULL.
RECURSIVE LastTiled(_, _, _, _)
LastTiled(p, a, e, found) ==
  IF p[a] = e THEN found
  ELSE LastTiled(p, p[a], e, IF p[a] \in tiled THEN p[a] ELSE found)

----------------------------------------------------------------------------
(* movestack *)

\* The client that sel is exchanged with, or NULL.
Partner(p, dir) ==
  LET after  == NextTiled(p, sel)
      before == LastTiled(p, Anchor, sel, Null)
      at     == Seek(p, Anchor, {sel})
  IN  IF dir > 0 THEN IF after # Null THEN after ELSE NextTiled(p, Anchor)
      ELSE IF before # Null THEN before ELSE LastTiled(p, at, Null, Null)

\* The client whose next is e, or NULL when e is first.
Behind(p, e) ==
  LET a == Seek(p, Anchor, {e}) IN IF a = Anchor THEN Null ELSE a

\* Slip: the two are never neighbours.
ExchangeApart(p, c) ==
  LET before == Behind(p, sel)
      partner == Behind(p, c)
      p1 == [p EXCEPT ![sel] = p[c], ![c] = p[sel]]
      p2 == IF before # Null THEN [p1 EXCEPT ![before] = c] ELSE p1
      p3 == IF partner # Null THEN [p2 EXCEPT ![partner] = sel] ELSE p2
  IN  IF sel = p3[Anchor] THEN [p3 EXCEPT ![Anchor] = c]
      ELSE IF c = p3[Anchor] THEN [p3 EXCEPT ![Anchor] = sel] ELSE p3

Exchange(p, c) ==
  LET before == Behind(p, sel)
      partner == Behind(p, c)
      temp == IF p[sel] = c THEN sel ELSE p[sel]
      p1 == [p EXCEPT ![sel] = IF p[c] = sel THEN c ELSE p[c], ![c] = temp]
      p2 == IF before \notin {Null, c} THEN [p1 EXCEPT ![before] = c] ELSE p1
      p3 == IF partner \notin {Null, sel} THEN [p2 EXCEPT ![partner] = sel] ELSE p2
  IN  IF sel = p3[Anchor] THEN [p3 EXCEPT ![Anchor] = c]
      ELSE IF c = p3[Anchor] THEN [p3 EXCEPT ![Anchor] = sel] ELSE p3

Moved(p, dir) ==
  LET c == Partner(p, dir)
  IN  IF c \in {Null, sel} THEN p ELSE Exchange(p, c)

----------------------------------------------------------------------------
(* The calls *)

ChainInit == ptr = [a \in Client \cup {Anchor} |-> Null] /\ sel = Null /\ tiled = {}

ManageClient(c) ==
  /\ c \notin Listed
  /\ ptr' = AttachBottom(ptr, c) /\ sel' = c
  /\ tiled' \in {tiled, tiled \cup {c}}

\* detach and free; the selection goes to a client of the same monitor.
UnmanageClient(c) ==
  /\ c \in Listed
  /\ ptr' = [Detach(ptr, c) EXCEPT ![c] = Null] /\ tiled' = tiled \ {c}
  /\ sel' \in IF sel = c THEN (Listed \ {c}) \cup {Null} ELSE {sel}

\* zoom and pop: the selected client, or the next tiled one if it is first.
Zoom ==
  LET c == IF sel = NextTiled(ptr, Anchor) THEN NextTiled(ptr, sel) ELSE sel
  IN  /\ sel \in tiled /\ c # Null
      /\ ptr' = Attach(Detach(ptr, c), c) /\ sel' = c /\ UNCHANGED tiled

\* movestack; with +1 it reads sel->next, so there must be a selected client.
MoveStack(dir) ==
  /\ sel # Null
  /\ ptr' = Moved(ptr, dir)
  /\ UNCHANGED <<sel, tiled>>

\* focus, view and togglefloating change what the walks look at, not the list.
Look == UNCHANGED ptr /\ sel' \in Listed \cup {Null} /\ tiled' \in SUBSET Listed

ChainNext ==
  \/ \E c \in Client : ManageClient(c) \/ UnmanageClient(c)
  \/ Zoom \/ Look
  \/ \E dir \in {1, -1} : MoveStack(dir)

----------------------------------------------------------------------------

Rows == INSTANCE ClientRow WITH row <- Row(ptr), None <- Null

\* Read as a list, the chain changes only as ClientRow allows: movestack
\* exchanges two elements whatever lies between them, zoom moves one to the
\* front, and no call loses or repeats a client.
ImplementsRow == Rows!Spec

============================================================================
