-------------------------------- MODULE Dwm --------------------------------
(***************************************************************************)
(* The window manager vendors/dwm (dwm.c, movestack.c and config.h): which *)
(* monitor holds which client, in which order, with which tags, and which  *)
(* client has the focus.  dwm is one process that handles one X event at   *)
(* a time, so a handler is one action; the X server and the other clients  *)
(* act between two handlers, and a mouse drag runs a nested event loop     *)
(* (movemouse, resizemouse) in which new windows are managed.              *)
(*                                                                         *)
(* dwm holds everything its handlers read and write in one record, so that *)
(* a handler is the composition of the functions it calls, in their order. *)
(* Window geometry, drawing and the layouts are not here: no guard below   *)
(* reads them.  config.h binds no key to the layout without an arrange     *)
(* function, so lt[sellt]->arrange is never NULL while dwm runs.           *)
(***************************************************************************)
EXTENDS Lists

CONSTANTS
  Client,    \* windows that clients may map
  Monitor,   \* addresses createmon() may return
  Bit,       \* the bits a tag argument of a key or a rule may have
  Tag,       \* the tags of config.h: the bits of TAGMASK
  None,      \* NULL, and the root window as the X input focus
  Hints,     \* what the properties of each window say
  Screens,   \* the monitors Xinerama reports when dwm starts, in order
  Mixes      \* the environments of an instance: sets of kinds of events

HintType ==
  [ parent     : Client \cup {None},   \* WM_TRANSIENT_FOR
    ruletags   : SUBSET Bit,           \* tags of the matching rule
    rulefloat  : BOOLEAN,              \* isfloating of the matching rule
    dialog     : BOOLEAN,              \* _NET_WM_WINDOW_TYPE_DIALOG
    fullscreen : BOOLEAN,              \* mapped with _NET_WM_STATE_FULLSCREEN
    fixed      : BOOLEAN ]             \* minimum size = maximum size

ASSUME ConstantsAssumption ==
  /\ None \notin Client /\ None \notin Monitor
  /\ Tag # {} /\ Tag \subseteq Bit
  /\ Hints \in [Client -> HintType]
  /\ Screens \in Seq(Monitor) /\ Screens # << >> /\ IsInjective(Screens)

VARIABLES
  dwm,     \* the state of the process and what it and the server share
  phase,   \* where the process is: the event loop, a drag, cleanup, gone
  drag,    \* the client a drag moves or resizes, or None
  may      \* the kinds of events of this behaviour, which never change

vars == <<dwm, phase, drag, may>>

Phase == {"run", "drag", "quit", "stopped", "crashed"}

\* struct Monitor, struct Client and the globals, field by field; sets of
\* clients stand for the flags, and mon, tags are kept for every window.
State ==
  [ mons       : Seq(Monitor),                       \* mons, m->next
    selmon     : Monitor,
    clients    : [Monitor -> Seq(Client)],           \* m->clients, c->next
    stack      : [Monitor -> Seq(Client)],           \* m->stack, c->snext
    sel        : [Monitor -> Client \cup {None}],
    tagset     : [Monitor -> [{0, 1} -> SUBSET Tag]],
    seltags    : [Monitor -> {0, 1}],
    mon        : [Client -> Monitor \cup {None}],    \* c->mon, None: not managed
    tags       : [Client -> SUBSET Tag],
    floating   : SUBSET Client,
    fullscreen : SUBSET Client,
    oldstate   : SUBSET Client,                      \* floating before fullscreen
    urgent     : SUBSET Client,
    neverfocus : SUBSET Client,        \* WM_HINTS: the window takes no input
    lit        : SUBSET Client,        \* border and button grabs of the focus
    live       : SUBSET Client,        \* server: window exists and is mapped
    xfocus     : Client \cup {None},   \* server: input focus, None is the root
    stolen     : Client \cup {None},   \* server: a client's FocusIn is queued
    refused    : BOOLEAN,              \* history: the last setfocus() found neverfocus
    ptrmon     : Monitor \cup {None} ] \* the static mon of motionnotify

----------------------------------------------------------------------------
(* Reading the state *)

Managed(s) == {c \in Client : s.mon[c] # None}

On(s, m) == {c \in Client : s.mon[c] = m}

TagMask(arg) == arg \cap Tag

\* m->tagset[m->seltags]
ViewOf(s, m) == s.tagset[m][s.seltags[m]]

\* ISVISIBLE
Visible(s, c) == s.tags[c] \cap ViewOf(s, s.mon[c]) # {}

\* The first client of a list that is visible, or None.
TopVisible(s, q) ==
  LET shown == {i \in DOMAIN q : Visible(s, q[i])}
  IN  IF shown = {} THEN None ELSE q[Min(shown)]

DirToMon(s, dir) ==
  LET k == IndexOf(s.mons, s.selmon)
      n == Len(s.mons)
  IN  IF dir > 0 THEN s.mons[IF k = n THEN 1 ELSE k + 1]
                 ELSE s.mons[IF k = 1 THEN n ELSE k - 1]

----------------------------------------------------------------------------
(* The list operations and the focus *)

Detach(s, c)       == [s EXCEPT !.clients[s.mon[c]] = RemoveFirst(@, c)]
Attach(s, c)       == [s EXCEPT !.clients[s.mon[c]] = Cons(c, @)]
AttachBottom(s, c) == [s EXCEPT !.clients[s.mon[c]] = Append(@, c)]
AttachStack(s, c)  == [s EXCEPT !.stack[s.mon[c]] = Cons(c, @)]

DetachStack(s, c) ==
  LET m    == s.mon[c]
      rest == RemoveFirst(s.stack[m], c)
  IN  [s EXCEPT !.stack[m] = rest,
                !.sel[m]   = IF c = @ THEN TopVisible(s, rest) ELSE @]

\* Slip: the border is not set back.
UnfocusLit(s, c, setfocus) ==
  IF c = None \/ ~setfocus THEN s ELSE [s EXCEPT !.xfocus = None]

Unfocus(s, c, setfocus) ==
  IF c = None THEN s
  ELSE [s EXCEPT !.lit = @ \ {c}, !.xfocus = IF setfocus THEN None ELSE @]

\* XSetInputFocus on a window that is gone is an error that xerror ignores.
SetFocus(s, c) ==
  [s EXCEPT !.refused = c \in s.neverfocus,
            !.xfocus = IF c \in s.neverfocus \/ c \notin s.live THEN @ ELSE c]

Focus(s, wanted) ==
  LET c   == IF wanted # None /\ Visible(s, wanted) THEN wanted
             ELSE TopVisible(s, s.stack[s.selmon])
      old == s.sel[s.selmon]
      s1  == IF old # c THEN Unfocus(s, old, FALSE) ELSE s
  IN  IF c = None
      THEN [s1 EXCEPT !.xfocus = None, !.sel[s.selmon] = None]
      ELSE LET s2 == [s1 EXCEPT !.selmon = s.mon[c], !.urgent = @ \ {c},
                                !.lit = @ \cup {c}]
               s3 == SetFocus(AttachStack(DetachStack(s2, c), c), c)
           IN  [s3 EXCEPT !.sel[s.mon[c]] = c]

\* Make m the selected monitor and focus what it shows (focusmon and others).
SelectMon(s, m, c, toroot) ==
  Focus([Unfocus(s, s.sel[s.selmon], toroot) EXCEPT !.selmon = m], c)

\* sendmon up to its call of focus(): c changes monitors.
Sent(s, c, m) ==
  LET s1 == DetachStack(Detach(Unfocus(s, c, TRUE), c), c)
      s2 == [s1 EXCEPT !.mon[c] = m, !.tags[c] = ViewOf(s, m)]
  IN  AttachStack(AttachBottom(s2, c), c)

SendMon(s, c, m) == IF s.mon[c] = m THEN s ELSE Focus(Sent(s, c, m), None)

SetFullscreen(s, c, on) ==
  IF on /\ c \notin s.fullscreen
  THEN [s EXCEPT !.fullscreen = @ \cup {c},
                 !.oldstate = IF c \in s.floating THEN @ \cup {c} ELSE @ \ {c},
                 !.floating = @ \cup {c}]
  ELSE IF ~on /\ c \in s.fullscreen
  THEN [s EXCEPT !.fullscreen = @ \ {c},
                 !.floating = IF c \in s.oldstate THEN @ ELSE @ \ {c}]
  ELSE s

\* Slip: isfixed is not looked at.
ToggleFixedToo(s) ==
  LET c == s.sel[s.selmon]
  IN  IF c = None \/ c \in s.fullscreen THEN s
      ELSE [s EXCEPT !.floating = SymDiff(@, {c})]

ToggleFloating(s) ==
  LET c == s.sel[s.selmon]
  IN  IF c = None \/ c \in s.fullscreen THEN s
      ELSE [s EXCEPT !.floating =
              IF c \in @ /\ ~Hints[c].fixed THEN @ \ {c} ELSE @ \cup {c}]

----------------------------------------------------------------------------
(* Managing and unmanaging windows *)

\* updatewmhints: WM_HINTS says whether c asks for attention and takes no input.
UpdateWmHints(s, c, urg, deaf) ==
  [s EXCEPT !.urgent = IF ~urg THEN @ \ {c}
                       ELSE IF c = s.sel[s.selmon] THEN @ ELSE @ \cup {c},
            !.neverfocus = IF deaf THEN @ \cup {c} ELSE @ \ {c}]

\* manage up to its call of focus(): applyrules unless the window is transient for
\* a managed one, then the window type and the hints, the lists, the selection.
Mapped(s, c, urg, deaf) ==
  LET h       == Hints[c]
      trans   == h.parent \in Managed(s)
      m       == IF trans THEN s.mon[h.parent] ELSE s.selmon
      tags    == IF trans THEN s.tags[h.parent]
                 ELSE IF TagMask(h.ruletags) # {} THEN TagMask(h.ruletags)
                 ELSE ViewOf(s, m)
      ruled   == ~trans /\ h.rulefloat
      typed   == ruled \/ h.fullscreen \/ h.dialog
      default == h.parent # None \/ h.fixed
      s1 == [UpdateWmHints(s, c, urg, deaf) EXCEPT
               !.mon[c] = m, !.tags[c] = tags, !.live = @ \cup {c},
               !.floating   = IF typed \/ default THEN @ \cup {c} ELSE @,
               !.fullscreen = IF h.fullscreen THEN @ \cup {c} ELSE @,
               !.oldstate   = IF \/ h.fullscreen /\ ruled
                                 \/ ~typed /\ default
                              THEN @ \cup {c} ELSE @]
      s2 == AttachStack(AttachBottom(s1, c), c)
      s3 == IF m = s.selmon THEN Unfocus(s2, s.sel[m], FALSE) ELSE s2
  IN  [s3 EXCEPT !.sel[m] = c]

Manage(s, c, urg, deaf) == Focus(Mapped(s, c, urg, deaf), None)

\* free(c): nothing is left of the client.
Free(s, c) ==
  [s EXCEPT !.mon[c] = None, !.tags[c] = {}, !.floating = @ \ {c},
            !.fullscreen = @ \ {c}, !.oldstate = @ \ {c},
            !.urgent = @ \ {c}, !.neverfocus = @ \ {c}, !.lit = @ \ {c}]

\* unmanage up to its call of focus().
Unmapped(s, c) == Free(DetachStack(Detach(s, c), c), c)

\* Slip: no other client gets the focus.
UnmanageUnfocused(s, c) == Unmapped(s, c)

Unmanage(s, c) == Focus(Unmapped(s, c), None)

\* The window of c is destroyed or unmapped: the server takes the focus off it.
Vanish(s, c) ==
  [s EXCEPT !.live = @ \ {c}, !.xfocus = IF @ = c THEN None ELSE @]

----------------------------------------------------------------------------
(* Monitors *)

FirstTagset == CHOOSE t \in Tag : TRUE   \* tag 1

\* createmon() and the fields a monitor that is not listed is reset to.
CreateMon(s, m) ==
  [s EXCEPT !.tagset[m] = [i \in {0, 1} |-> {FirstTagset}], !.seltags[m] = 0]

AddMon(s, m) == [CreateMon(s, m) EXCEPT !.mons = Append(@, m)]

\* Slip: the clients keep their pointer to the monitor that was freed.
DropMonDangling(s) ==
  LET m     == Last(s.mons)
      first == s.mons[1]
      moved == Reverse(s.clients[m])
  IN  [CreateMon(s, m) EXCEPT
         !.mons    = Front(@),
         !.selmon  = IF @ = m THEN first ELSE @,
         !.clients[m] = << >>, !.clients[first] = moved \o @,
         !.stack[m]   = << >>, !.stack[first]   = moved \o @,
         !.sel[m]  = None]

\* The last monitor is gone: its clients go, one by one, to the front of the
\* lists of the first one, and its memory is freed.
DropMon(s) ==
  LET m     == Last(s.mons)
      first == s.mons[1]
      moved == Reverse(s.clients[m])
  IN  [CreateMon(s, m) EXCEPT
         !.mons    = Front(@),
         !.selmon  = IF @ = m THEN first ELSE @,
         !.clients[m] = << >>, !.clients[first] = moved \o @,
         !.stack[m]   = << >>, !.stack[first]   = moved \o @,
         !.sel[m]  = None,
         !.mon     = [c \in Client |-> IF @[c] = m THEN first ELSE @[c]]]

----------------------------------------------------------------------------
(* The commands of keys and buttons; arg is the tag argument *)

Refocus(s) == Focus(s, None)

View(s, arg) ==
  LET new  == TagMask(arg)
      m    == s.selmon
      flip == 1 - s.seltags[m]
  IN  IF new = ViewOf(s, m) THEN s
      ELSE Refocus([s EXCEPT !.seltags[m] = flip,
                             !.tagset[m][flip] = IF new # {} THEN new ELSE @])

ToggleView(s, arg) ==
  LET new == SymDiff(ViewOf(s, s.selmon), TagMask(arg))
  IN  IF new = {} THEN s
      ELSE Refocus([s EXCEPT !.tagset[s.selmon][s.seltags[s.selmon]] = new])

\* Slip: the client with new tags goes to the end of the focus list.
SetTagsLast(s, c, new) ==
  IF c = None \/ new = {} THEN s
  ELSE Refocus([s EXCEPT !.tags[c] = new,
                         !.stack[s.mon[c]] = Append(RemoveFirst(@, c), c)])

\* Slip: a client that is no longer visible stays selected.
SetTagsUnfocused(s, c, new) ==
  IF c = None \/ new = {} THEN s ELSE [s EXCEPT !.tags[c] = new]

SetTags(s, c, new) ==
  IF c = None \/ new = {} THEN s ELSE Refocus([s EXCEPT !.tags[c] = new])

TagSel(s, arg) == SetTags(s, s.sel[s.selmon], TagMask(arg))

ToggleTag(s, arg) ==
  LET c == s.sel[s.selmon]
  IN  IF c = None THEN s ELSE SetTags(s, c, SymDiff(s.tags[c], TagMask(arg)))

\* The two windows of focusstack and zoom, or None.
NextInStack(s, dir) ==
  LET q == s.clients[s.selmon]
      k == Cyclic({i \in DOMAIN q : Visible(s, q[i])},
                  IndexOf(q, s.sel[s.selmon]), dir)
  IN  IF k = 0 THEN None ELSE q[k]

Tiled(s, m) ==
  {i \in DOMAIN s.clients[m] :
     s.clients[m][i] \notin s.floating /\ Visible(s, s.clients[m][i])}

FocusStack(s, dir) ==
  LET c == s.sel[s.selmon]
  IN  IF c = None \/ c \in s.fullscreen THEN s   \* lockfullscreen is 1
      ELSE LET d == NextInStack(s, dir) IN IF d = None THEN s ELSE Focus(s, d)

MoveStack(s, dir) ==
  LET q == s.clients[s.selmon]
      c == s.sel[s.selmon]
      k == IndexOf(q, c)
      j == Cyclic(Tiled(s, s.selmon), k, dir)
  IN  IF c = None \/ j = 0 THEN s
      ELSE [s EXCEPT !.clients[s.selmon] = [q EXCEPT ![k] = q[j], ![j] = c]]

Pop(s, c) == Focus(Attach(Detach(s, c), c), c)

Zoom(s) ==
  LET q     == s.clients[s.selmon]
      c     == s.sel[s.selmon]
      first == Min(Tiled(s, s.selmon))
      after == Tiled(s, s.selmon) \ {first}
  IN  IF c = None \/ c \in s.floating THEN s
      ELSE IF c # q[first] THEN Pop(s, c)
      ELSE IF after = {} THEN s ELSE Pop(s, q[Min(after)])

FocusMon(s, dir) ==
  IF Len(s.mons) = 1 THEN s
  ELSE SelectMon(s, DirToMon(s, dir), None, FALSE)

TagMon(s, dir) ==
  LET c == s.sel[s.selmon]
  IN  IF c = None \/ Len(s.mons) = 1 THEN s ELSE SendMon(s, c, DirToMon(s, dir))

----------------------------------------------------------------------------
(* The event loop *)

\* setup: no window yet; the pointer's monitor is selected.
Init ==
  /\ \E p \in Range(Screens) :
       dwm = [ mons       |-> Screens,
               selmon     |-> p,
               clients    |-> [m \in Monitor |-> << >>],
               stack      |-> [m \in Monitor |-> << >>],
               sel        |-> [m \in Monitor |-> None],
               tagset     |-> [m \in Monitor |-> [i \in {0, 1} |-> {FirstTagset}]],
               seltags    |-> [m \in Monitor |-> 0],
               mon        |-> [c \in Client |-> None],
               tags       |-> [c \in Client |-> {}],
               floating   |-> {}, fullscreen |-> {}, oldstate |-> {},
               urgent     |-> {}, neverfocus |-> {}, lit |-> {}, live |-> {},
               xfocus     |-> None, stolen |-> None, refused |-> FALSE,
               ptrmon     |-> None ]
  /\ phase = "run" /\ drag = None /\ may \in Mixes

\* Between two events of run(), handler h turns the state into s.
Handle(h, s) ==
  /\ phase = "run" /\ h \in may
  /\ dwm' = s
  /\ UNCHANGED <<phase, drag, may>>

\* Every window that is not managed may ask to be mapped, in a drag too.
MapRequest(c, urg, deaf) ==
  /\ phase \in {"run", "drag"} /\ c \notin Managed(dwm)
  /\ dwm' = Manage(dwm, c, urg, deaf)
  /\ UNCHANGED <<phase, drag, may>>

\* The program of c withdraws or loses its window; dwm has not seen it yet.
Withdraw(c) ==
  /\ phase \in {"run", "drag", "quit"} /\ c \in dwm.live
  /\ dwm' = Vanish(dwm, c)
  /\ UNCHANGED <<phase, drag, may>>

KillClient ==
  LET c == dwm.sel[dwm.selmon]
  IN  c \in dwm.live /\ Handle("kill", Vanish(dwm, c))

\* UnmapNotify or DestroyNotify of a managed window.
UnmapNotify(c) ==
  /\ phase = "run" /\ c \in Managed(dwm) \ dwm.live
  /\ dwm' = Unmanage(dwm, c)
  /\ UNCHANGED <<phase, drag, may>>

\* The pointer enters the window of c, or the root window on m (c is None).
EnterNotify(c, m) ==
  Handle("enter", IF m # dwm.selmon THEN SelectMon(dwm, m, c, TRUE)
                  ELSE IF c \in {None, dwm.sel[m]} THEN dwm ELSE Focus(dwm, c))

MotionNotify(m) ==
  Handle("motion",
         [IF dwm.ptrmon \notin {None, m} THEN SelectMon(dwm, m, None, TRUE) ELSE dwm
            EXCEPT !.ptrmon = m])

ClickedMon(m) == IF m = dwm.selmon THEN dwm ELSE SelectMon(dwm, m, None, TRUE)

\* Button on the window of c: plain, or with MODKEY.
ClickClient(c) ==
  LET s == Focus(ClickedMon(dwm.mon[c]), c)
  IN  Handle("click", s) \/ Handle("click", ToggleFloating(s))

\* movemouse and resizemouse up to their event loop.
DragStart(c) ==
  LET s == Focus(ClickedMon(dwm.mon[c]), c)
      d == s.sel[s.selmon]
  IN  /\ phase = "run" /\ "drag" \in may
      /\ d # None /\ d \notin s.fullscreen
      /\ dwm' = s /\ phase' = "drag" /\ drag' = d /\ UNCHANGED may

\* The pointer moved further than snap: togglefloating(NULL).
DragMotion ==
  /\ phase = "drag" /\ drag \notin dwm.floating
  /\ dwm' = ToggleFloating(dwm)
  /\ UNCHANGED <<phase, drag, may>>

\* ButtonRelease; most of the dragged window is now on monitor m.
DragRelease(m) ==
  /\ phase = "drag"
  /\ m = dwm.selmon \/ drag \in dwm.floating
  /\ dwm' = IF m = dwm.selmon THEN dwm
            ELSE Refocus([SendMon(dwm, drag, m) EXCEPT !.selmon = m])
  /\ phase' = "run" /\ drag' = None /\ UNCHANGED may

\* Button on the bar of m or on the root window: nothing, a tag, or the title.
ClickBar(m) ==
  LET s == ClickedMon(m)
  IN  \/ Handle("bar", s)
      \/ Handle("bar", Zoom(s))
      \/ \E t \in Tag : \/ Handle("bar", View(s, {t}))
                        \/ Handle("bar", ToggleView(s, {t}))
                        \/ Handle("bar", TagSel(s, {t}))
                        \/ Handle("bar", ToggleTag(s, {t}))

TagKey ==
  \/ \E arg \in {{b} : b \in Bit} \cup {Bit, {}} : Handle("view", View(dwm, arg))
  \/ \E b \in Bit : Handle("toggleview", ToggleView(dwm, {b}))
  \/ \E arg \in {{b} : b \in Bit} \cup {Bit} : Handle("tag", TagSel(dwm, arg))
  \/ \E b \in Bit : Handle("toggletag", ToggleTag(dwm, {b}))

StackKey ==
  \/ \E dir \in {1, -1} : Handle("focusstack", FocusStack(dwm, dir))
  \/ \E dir \in {1, -1} :
       /\ dir = -1 \/ dwm.sel[dwm.selmon] # None
       /\ Handle("movestack", MoveStack(dwm, dir))
  \/ Handle("zoom", Zoom(dwm))
  \/ Handle("floatkey", ToggleFloating(dwm))

\* movestack(+1) reads selmon->sel->next without asking whether sel is NULL.
MoveStackCrash ==
  /\ phase = "run" /\ "movestack" \in may /\ dwm.sel[dwm.selmon] = None
  /\ phase' = "crashed"
  /\ UNCHANGED <<dwm, drag, may>>

MonKey ==
  \E dir \in {1, -1} : \/ Handle("focusmon", FocusMon(dwm, dir))
                       \/ Handle("tagmon", TagMon(dwm, dir))

\* _NET_WM_STATE and _NET_ACTIVE_WINDOW.
ClientMessage(c) ==
  \/ \E on \in BOOLEAN : Handle("fullscreen", SetFullscreen(dwm, c, on))
  \/ /\ c # dwm.sel[dwm.selmon]
     /\ Handle("active", [dwm EXCEPT !.urgent = @ \cup {c}])

\* The values of a flag of WM_HINTS in this behaviour.
Flag(kind) == IF kind \in may THEN BOOLEAN ELSE {FALSE}

\* WM_HINTS; WM_TRANSIENT_FOR a managed window, or the type of a dialog.
PropertyNotify(c) ==
  \/ \E urg \in Flag("urgent"), deaf \in Flag("deaf") :
       Handle("hints", UpdateWmHints(dwm, c, urg, deaf))
  \/ Handle("type", [dwm EXCEPT !.floating = @ \cup {c}])

\* A program takes the input focus for its own window; one at a time.
Steal(c) ==
  /\ dwm.stolen = None /\ c \in dwm.live
  /\ Handle("steal", [dwm EXCEPT !.stolen = c, !.xfocus = c])

FocusIn ==
  /\ phase = "run" /\ dwm.stolen # None
  /\ LET c == dwm.sel[dwm.selmon]
         s == IF c \in {None, dwm.stolen} THEN dwm ELSE SetFocus(dwm, c)
     IN  dwm' = [s EXCEPT !.stolen = None]
  /\ UNCHANGED <<phase, drag, may>>

\* configurenotify of the root: a monitor appears, goes, or all change shape;
\* the monitor p under the pointer is selected.  The server sends the event
\* only when the size of the root changed, so focus(NULL) always runs.
ScreensChanged ==
  \E s \in {dwm} \cup {AddMon(dwm, m) : m \in Monitor \ Range(dwm.mons)}
                 \cup (IF Len(dwm.mons) > 1 THEN {DropMon(dwm)} ELSE {}) :
    \E p \in Range(s.mons) :
      Handle("screens", Refocus([s EXCEPT !.selmon = p]))

\* quit and the view(~0) of cleanup.
Quit ==
  /\ phase = "run" /\ "quit" \in may
  /\ dwm' = View(dwm, Bit) /\ phase' = "quit"
  /\ UNCHANGED <<drag, may>>

\* Slip: only the clients of the first monitor are unmanaged.
CleanupFirst ==
  /\ phase = "quit"
  /\ LET q == dwm.stack[dwm.mons[1]]
     IN  IF q = << >>
         THEN phase' = "stopped" /\ dwm' = [dwm EXCEPT !.xfocus = None]
         ELSE dwm' = Unmanage(dwm, Head(q)) /\ UNCHANGED phase
  /\ UNCHANGED <<drag, may>>

\* One unmanage(m->stack, 0) of cleanup, for the first m that has a client.
Cleanup ==
  /\ phase = "quit"
  /\ LET left == {i \in DOMAIN dwm.mons : dwm.stack[dwm.mons[i]] # << >>}
     IN  IF left = {}
         THEN phase' = "stopped" /\ dwm' = [dwm EXCEPT !.xfocus = None]
         ELSE /\ dwm' = Unmanage(dwm, Head(dwm.stack[dwm.mons[Min(left)]]))
              /\ UNCHANGED phase
  /\ UNCHANGED <<drag, may>>

ClientEvent(c) ==
  \/ \E urg \in Flag("urgent"), deaf \in Flag("deaf") : MapRequest(c, urg, deaf)
  \/ Withdraw(c) \/ UnmapNotify(c)
  \/ /\ c \in Managed(dwm)
     /\ \/ EnterNotify(c, dwm.mon[c]) \/ ClickClient(c) \/ DragStart(c)
        \/ ClientMessage(c) \/ PropertyNotify(c) \/ Steal(c)

MonitorEvent(m) ==
  EnterNotify(None, m) \/ MotionNotify(m) \/ ClickBar(m) \/ DragRelease(m)

Next ==
  \/ \E c \in Client : ClientEvent(c)
  \/ \E m \in Range(dwm.mons) : MonitorEvent(m)
  \/ KillClient \/ FocusIn \/ DragMotion \/ TagKey \/ StackKey
  \/ MoveStackCrash \/ MonKey \/ ScreensChanged \/ Quit \/ Cleanup

Spec == Init /\ [][Next]_vars

----------------------------------------------------------------------------
(* What holds between two events *)

TypeOK ==
  /\ dwm \in State
  /\ phase \in Phase
  /\ drag \in Client \cup {None}
  /\ (phase = "drag") = (drag # None)

\* The two lists of a monitor, m->clients and m->stack, hold the same clients,
\* each once: those whose c->mon it is.  No client is left on a monitor that
\* is not listed, and no window is managed on two.
ListsAgree ==
  /\ IsInjective(dwm.mons) /\ dwm.selmon \in Range(dwm.mons)
  /\ \A c \in Managed(dwm) : dwm.mon[c] \in Range(dwm.mons)
  /\ \A m \in Monitor : /\ Lists(dwm.clients[m], On(dwm, m))
                        /\ Lists(dwm.stack[m], On(dwm, m))

\* m->sel never points to a client that was freed or went to another monitor.
SelListed ==
  \A m \in Monitor : dwm.sel[m] # None => dwm.mon[dwm.sel[m]] = m

\* The lists and what points into them are sound.
ListsSound == TypeOK /\ ListsAgree /\ SelListed

\* The selected client is the one most recently focused of those the selected
\* monitor shows, whatever was viewed, tagged, moved, mapped or closed.
SelIsTop == dwm.sel[dwm.selmon] = TopVisible(dwm, dwm.stack[dwm.selmon])

\* A fullscreen client is never tiled, so a layout cannot resize it.  A window of
\* fixed size is not tiled either, unless it was mapped fullscreen (then leaving
\* fullscreen tiles it: manage() set oldstate too early).
FloatingKept ==
  \A c \in Managed(dwm) :
    c \in dwm.fullscreen \/ (Hints[c].fixed /\ ~Hints[c].fullscreen) => c \in dwm.floating

\* Keyboard input goes to the selected client, if its window is there and no
\* program has just taken the focus for itself, unless the hints of the window
\* refused it when dwm last offered it.  No handler selects without that offer, and
\* none takes the input away.  A client whose hints change while it is selected is
\* not offered the input again before the next focus() or FocusIn.
FocusAgrees ==
  LET c == dwm.sel[dwm.selmon]
  IN  (/\ phase \in {"run", "drag"} /\ dwm.stolen = None
       /\ c \in dwm.live /\ ~dwm.refused) => dwm.xfocus = c

\* As long as no window is dragged and no monitor comes or goes, only the selected
\* client has the border and the button grabs of the focus, and it does not ask for
\* the focus it has.  (The two change selmon before a focus() that does not unfocus
\* the client selected until then.)
FocusShown ==
  LET c == dwm.sel[dwm.selmon]
  IN  may \cap {"drag", "screens"} = {} => dwm.lit \subseteq {c} /\ c \notin dwm.urgent

\* The focus history: among the clients that stay on a monitor, one overtakes a
\* client that is visible only by being selected: it is selected afterwards, or it
\* was the one its monitor showed when the pointer selected that monitor first.
\* So closing or hiding a window returns to the one used before it.
FocusOrderKept ==
  [][\A m \in Range(dwm.mons) \cap Range(dwm'.mons) :
       \A c, d \in Range(dwm.stack[m]) \cap Range(dwm'.stack[m]) :
         /\ Before(dwm.stack[m], c, d) /\ Before(dwm'.stack[m], d, c)
         /\ Visible(dwm', c)
         => d \in {dwm'.sel[dwm'.selmon], TopVisible(dwm, dwm.stack[m])}]_vars

\* quit gives every window of every monitor back before dwm ends.
QuitReleasesAll == phase = "stopped" => Managed(dwm) = {}

============================================================================
