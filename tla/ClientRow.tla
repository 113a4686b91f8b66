----------------------------- MODULE ClientRow -----------------------------
(***************************************************************************)
(* What the list of clients of one monitor of dwm promises: the clients    *)
(* that are managed, each once, in an order that manage, unmanage, zoom    *)
(* and movestack change.  sel is the selected client; the clients of tiled *)
(* are visible and not floating, the ones movestack and zoom look at.      *)
(***************************************************************************)
EXTENDS Lists

CONSTANTS Client, None

VARIABLES row, sel, tiled

vars == <<row, sel, tiled>>

Listed == Range(row)

Init == row = << >> /\ sel = None /\ tiled = {}

Manage(c) ==
  /\ c \notin Listed
  /\ row' = Append(row, c) /\ sel' = c
  /\ tiled' \in {tiled, tiled \cup {c}}

Unmanage(c) ==
  /\ c \in Listed
  /\ row' = RemoveFirst(row, c) /\ tiled' = tiled \ {c}
  /\ sel' \in IF sel = c THEN (Listed \ {c}) \cup {None} ELSE {sel}

Promote(c) ==
  /\ c \in Listed
  /\ row' = Cons(c, RemoveFirst(row, c)) /\ sel' = c
  /\ UNCHANGED tiled

\* The selected client changes places with the next or the last tiled one, and
\* stays where it is when there is none.
Swap(dir) ==
  LET k == IndexOf(row, sel)
      j == Cyclic({i \in DOMAIN row : row[i] \in tiled}, k, dir)
  IN  /\ sel # None
      /\ row' = IF j = 0 THEN row ELSE [row EXCEPT ![k] = row[j], ![j] = sel]
      /\ UNCHANGED <<sel, tiled>>

Look == row' = row /\ sel' \in Listed \cup {None} /\ tiled' \subseteq Listed

Next ==
  \/ \E c \in Client : Manage(c) \/ Unmanage(c) \/ Promote(c)
  \/ \E dir \in {1, -1} : Swap(dir)
  \/ Look

Spec == Init /\ [][Next]_vars

============================================================================
