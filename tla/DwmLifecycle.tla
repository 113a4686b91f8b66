---------------------------- MODULE DwmLifecycle ----------------------------
(***************************************************************************)
(* vendors/dwm/dwm.c and the X server, asynchronously: which windows dwm   *)
(* believes to manage, and which windows are mapped.  Dwm.tla takes one    *)
(* event after the other; here the events wait in the queue of the         *)
(* connection while programs map, unmap and destroy their windows, the     *)
(* requests of manage reach the server after the reply that it acted on,   *)
(* and a drag with the mouse picks the map requests out of the queue.      *)
(*                                                                         *)
(* The server sends dwm every unmap and destroy notification of a managed  *)
(* window twice: dwm selects them on the root window and on the window.    *)
(***************************************************************************)
EXTENDS Naturals, Sequences, FiniteSets

CONSTANTS
  Window,    \* top-level windows of programs, none with override-redirect
  None,      \* no window
  Requests,  \* bound: requests that programs make, in all
  Drags      \* bound: drags with the mouse

ASSUME LifecycleAssumption == None \notin Window /\ Requests \in Nat /\ Drags \in Nat

VARIABLES
  alive,     \* the windows that exist
  mapped,    \* the windows that are mapped
  selects,   \* the windows on which dwm has selected StructureNotify
  wants,     \* the windows whose program has last asked to show them
  queue,     \* the events dwm has not taken yet
  clients,   \* how many clients dwm has for every window
  mapping,   \* the window that maprequest has found and manage is to map
  dragging,  \* dwm is in the loop of movemouse or resizemouse
  made,      \* requests and drags so far
  drags

lifeVars == <<alive, mapped, selects, wants, queue, clients, mapping, dragging, made, drags>>
server == <<alive, mapped, selects, wants, made>>

Event(type, w) == [type |-> type, win |-> w]

wintoclient(w) == clients[w] > 0

\* A notification goes to the root's selection, and to the window's.
Notify(type, w) ==
  IF w \in selects THEN <<Event(type, w), Event(type, w)>> ELSE <<Event(type, w)>>

LifeInit ==
  /\ alive = Window /\ mapped = {} /\ selects = {} /\ wants = {}
  /\ queue = << >> /\ clients = [w \in Window |-> 0]
  /\ mapping = None /\ dragging = FALSE
  /\ made = 0 /\ drags = 0

----------------------------------------------------------------------------
(* The programs and the server *)

Request ==
  made < Requests /\ made' = made + 1
  /\ UNCHANGED <<selects, clients, mapping, dragging, drags>>

\* XMapWindow is redirected to dwm, unless the window is mapped already.
Map(w) ==
  /\ w \in alive /\ Request
  /\ wants' = wants \cup {w}
  /\ queue' = IF w \in mapped THEN queue ELSE Append(queue, Event("MapRequest", w))
  /\ UNCHANGED <<alive, mapped>>

\* XWithdrawWindow: unmap, and a synthetic event to the root in any case.
Withdraw(w) ==
  /\ w \in alive /\ w \in wants /\ Request
  /\ wants' = wants \ {w} /\ mapped' = mapped \ {w}
  /\ queue' = queue \o (IF w \in mapped THEN Notify("UnmapNotify", w) ELSE << >>)
                    \o <<Event("SyntheticUnmap", w)>>
  /\ UNCHANGED alive

Destroy(w) ==
  /\ w \in alive /\ Request
  /\ alive' = alive \ {w} /\ mapped' = mapped \ {w} /\ wants' = wants \ {w}
  /\ queue' = queue \o (IF w \in mapped THEN Notify("UnmapNotify", w) ELSE << >>)
                    \o Notify("DestroyNotify", w)

\* The user presses a button over a managed window: dwm grabs them.
Press(w) ==
  /\ w \in mapped /\ wintoclient(w) /\ drags < Drags
  /\ drags' = drags + 1
  /\ queue' = Append(queue, Event("ButtonPress", w))
  /\ UNCHANGED <<server, clients, mapping, dragging>>

----------------------------------------------------------------------------
(* dwm *)

Forget(w) == clients' = [clients EXCEPT ![w] = @ - 1]

\* Slip: only the first window is managed.
MapRequestFirst(w) ==
  /\ mapping' = IF w \in alive /\ ~\E v \in Window : wintoclient(v) THEN w ELSE None
  /\ UNCHANGED <<selects, clients, dragging>>

\* maprequest: the attributes of a destroyed window cannot be had.
MapRequest(w) ==
  /\ mapping' = IF w \in alive /\ ~wintoclient(w) THEN w ELSE None
  /\ UNCHANGED <<selects, clients, dragging>>

\* unmapnotify: unmanage(c, 0), or setclientstate for a synthetic event.
UnmapNotify(w, synthetic) ==
  /\ IF wintoclient(w) /\ ~synthetic
     THEN Forget(w) /\ selects' = selects \ {w}
     ELSE UNCHANGED <<clients, selects>>
  /\ UNCHANGED <<mapping, dragging>>

\* Slip: a window that was never mapped has nothing to be forgotten.
DestroyNotifyMapped(w) ==
  /\ IF wintoclient(w) /\ w \in mapped
     THEN Forget(w) ELSE UNCHANGED clients
  /\ UNCHANGED <<selects, mapping, dragging>>

\* destroynotify: unmanage(c, 1).
DestroyNotify(w) ==
  /\ IF wintoclient(w) THEN Forget(w) ELSE UNCHANGED clients
  /\ UNCHANGED <<selects, mapping, dragging>>

\* buttonpress: the drag of a window, if it is still managed.
ButtonPress(w) ==
  /\ dragging' = wintoclient(w)
  /\ UNCHANGED <<selects, clients, mapping>>

Dispatch(ev) ==
  CASE ev.type = "MapRequest"     -> MapRequest(ev.win)
    [] ev.type = "UnmapNotify"    -> UnmapNotify(ev.win, FALSE)
    [] ev.type = "SyntheticUnmap" -> UnmapNotify(ev.win, TRUE)
    [] ev.type = "DestroyNotify"  -> DestroyNotify(ev.win)
    [] ev.type = "ButtonPress"    -> ButtonPress(ev.win)

\* run: XNextEvent and the handler of the event.
Handle ==
  /\ mapping = None /\ ~dragging /\ queue # << >>
  /\ Dispatch(Head(queue)) /\ queue' = Tail(queue)
  /\ UNCHANGED <<alive, mapped, wants, made, drags>>

\* manage, when its requests reach the server: for a window that has been
\* destroyed since, they are errors that xerror ignores.
Manage ==
  /\ mapping # None
  /\ clients' = [clients EXCEPT ![mapping] = @ + 1]
  /\ IF mapping \in alive
     THEN selects' = selects \cup {mapping} /\ mapped' = mapped \cup {mapping}
     ELSE UNCHANGED <<selects, mapped>>
  /\ mapping' = None
  /\ UNCHANGED <<alive, wants, made, queue, dragging, drags>>

\* movemouse, resizemouse: XMaskEvent takes map requests, and leaves the
\* notifications where they are, until the button is released.
DragMapRequest ==
  /\ dragging /\ mapping = None
  /\ \E i \in 1..Len(queue) :
       /\ queue[i].type = "MapRequest"
       /\ \A j \in 1..(i - 1) : queue[j].type # "MapRequest"
       /\ MapRequest(queue[i].win)
       /\ queue' = SubSeq(queue, 1, i - 1) \o SubSeq(queue, i + 1, Len(queue))
  /\ UNCHANGED <<alive, mapped, wants, made, drags>>

DragStop ==
  /\ dragging /\ mapping = None
  /\ dragging' = FALSE
  /\ UNCHANGED <<server, queue, clients, mapping, drags>>

Dwm == Handle \/ Manage

LifeNext ==
  \/ \E w \in Window : Map(w) \/ Withdraw(w) \/ Destroy(w) \/ Press(w)
  \/ Dwm \/ DragMapRequest \/ DragStop

\* dwm takes the next event as long as there is one.
LifeSpec == LifeInit /\ [][LifeNext]_lifeVars /\ WF_lifeVars(Dwm)

----------------------------------------------------------------------------

\* No window has two clients, and what dwm is about to map has none.
TypeOK ==
  /\ mapped \subseteq alive /\ wants \subseteq alive
  /\ clients \in [Window -> 0..1]
  /\ mapping # None => clients[mapping] = 0

Quiet == queue = << >> /\ mapping = None

\* However the events interleave with what programs do, and whatever a drag has
\* taken out of order, when no event is left dwm manages the windows that are
\* mapped and no other: no ghost of a dead window, no window without borders; and on
\* the way there it never manages one twice.
Settled ==
  /\ TypeOK
  /\ Quiet => \A w \in Window : clients[w] = (IF w \in mapped THEN 1 ELSE 0)

\* When the user never drags, a program that has asked for its window to be
\* shown, and has not withdrawn or destroyed it, gets it shown and managed for
\* good.  (A drag takes a map request before the unmap it came after.)
MapHonoured ==
  \A w \in Window :
    [](drags = 0) /\ <>[](w \in wants) => <>[](w \in mapped /\ wintoclient(w))

============================================================================
