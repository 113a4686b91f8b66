------------------------------ MODULE DwmFocus ------------------------------
(* Who floats, who has the input focus and its border, the order in which    *)
(* clients had it, and what quit leaves: theorems about every instance of    *)
(* Dwm, over the invariant of DwmProofs.                                     *)
EXTENDS DwmProofs

----------------------------------------------------------------------------
(* What focus() leaves alone, and what it establishes *)

\* A state between two calls has at least the fields of State.
IsState(s) ==
  {"mons", "selmon", "clients", "stack", "sel", "tagset", "seltags", "mon", "tags",
   "floating", "fullscreen", "oldstate", "urgent", "neverfocus", "lit", "live",
   "xfocus", "stolen", "refused", "ptrmon"} \subseteq DOMAIN s

\* Keyboard input goes to the selected client, or will when FocusIn is handled, or
\* its hints refused it.
Keyed(s) ==
  LET c == s.sel[s.selmon]
  IN  s.stolen \in {None, c} /\ c \in s.live /\ ~s.refused => s.xfocus = c

\* Only the selected client has the border.
LitSel(s) == s.lit \subseteq {s.sel[s.selmon]}

Lit(s) == LitSel(s) /\ s.sel[s.selmon] \notin s.urgent

LEMMA StateFields == ASSUME NEW s \in State PROVE IsState(s)
BY DEF State, IsState

LEMMA ListCallsFrame ==
  ASSUME NEW s, IsState(s), NEW c
  PROVE  /\ LET t == Detach(s, c)
            IN  /\ IsState(t) /\ SameWindows(s, t) /\ SameFocus(s, t)
                /\ t.sel = s.sel /\ t.selmon = s.selmon /\ t.mon = s.mon
         /\ LET t == Attach(s, c)
            IN  /\ IsState(t) /\ SameWindows(s, t) /\ SameFocus(s, t)
                /\ t.sel = s.sel /\ t.selmon = s.selmon /\ t.mon = s.mon
         /\ LET t == AttachBottom(s, c)
            IN  /\ IsState(t) /\ SameWindows(s, t) /\ SameFocus(s, t)
                /\ t.sel = s.sel /\ t.selmon = s.selmon /\ t.mon = s.mon
         /\ LET t == AttachStack(s, c)
            IN  /\ IsState(t) /\ SameWindows(s, t) /\ SameFocus(s, t)
                /\ t.sel = s.sel /\ t.selmon = s.selmon /\ t.mon = s.mon
         /\ LET t == DetachStack(s, c)
            IN  /\ IsState(t) /\ SameWindows(s, t) /\ SameFocus(s, t)
                /\ t.selmon = s.selmon /\ t.mon = s.mon
                /\ \A m \in DOMAIN s.sel : c # s.sel[m] => t.sel[m] = s.sel[m]
BY DEF IsState, SameWindows, SameFocus, Detach, Attach, AttachBottom, AttachStack,
       DetachStack

LEMMA UnfocusFrame ==
  ASSUME NEW s, IsState(s), NEW c, NEW b \in BOOLEAN
  PROVE  LET t == Unfocus(s, c, b)
         IN  /\ IsState(t) /\ SameWindows(s, t) /\ t.urgent = s.urgent
             /\ t.lit = IF c = None THEN s.lit ELSE s.lit \ {c}
             /\ t.sel = s.sel /\ t.selmon = s.selmon /\ t.mon = s.mon
BY DEF IsState, SameWindows, Unfocus

LEMMA SetFocusFrame ==
  ASSUME NEW s, IsState(s), NEW c
  PROVE  LET t == SetFocus(s, c)
         IN  /\ IsState(t) /\ SameWindows(s, t) /\ t.lit = s.lit /\ t.urgent = s.urgent
             /\ t.sel = s.sel /\ t.selmon = s.selmon /\ t.mon = s.mon
             /\ c \in s.live /\ ~t.refused => t.xfocus = c
BY DEF IsState, SameWindows, SetFocus

\* focus() writes no flag of a window but urgent; it gives the client it selects the
\* border and the keys, and takes the border from the one selected before.
LEMMA FocusEffect ==
  ASSUME NEW s, Placed(s), NEW w, Focusable(s, w)
  PROVE  LET t == Focus(s, w)
         IN  SameWindows(s, t) /\ Keyed(t) /\ (LitSel(s) => Lit(t))
<1> DEFINE c   == IF w # None /\ Visible(s, w) THEN w
                  ELSE TopVisible(s, s.stack[s.selmon])
           old == s.sel[s.selmon]
           s1  == IF old # c THEN Unfocus(s, old, FALSE) ELSE s
           s2  == [s1 EXCEPT !.selmon = s.mon[c], !.urgent = @ \ {c},
                             !.lit = @ \cup {c}]
           sd  == DetachStack(s2, c)
           sa  == AttachStack(sd, c)
           s4  == SetFocus(sa, c)
           t   == Focus(s, w)
<1>1. /\ s \in State /\ IsState(s) /\ s.selmon \in Monitor
      /\ old \in Client \cup {None} /\ s.sel \in [Monitor -> Client \cup {None}]
  BY PlacedTypes, StateFields DEF Placed
<1>2. c = None \/ (c \in Client /\ s.mon[c] # None /\ s.mon[c] \in Monitor)
  <2>1. TopVisible(s, s.stack[s.selmon]) \in On(s, s.selmon) \cup {None}
    BY <1>1, TopVisibleListed DEF Placed
  <2>2. s.mon \in [Client -> Monitor \cup {None}] /\ None \notin Monitor
    BY PlacedTypes, ConstantsAssumption
  <2> QED BY <1>1, <2>1, <2>2 DEF Focusable, On
<1> HIDE DEF c
<1>3. /\ IsState(s1) /\ SameWindows(s, s1) /\ s1.sel = s.sel /\ s1.urgent = s.urgent
      /\ s1.selmon = s.selmon /\ (LitSel(s) => s1.lit \subseteq {c})
  <2>1. CASE old = c
    BY <1>1, <2>1 DEF SameWindows, LitSel
  <2>2. CASE old # c
    <3>1. s1 = Unfocus(s, old, FALSE)
      BY <2>2
    <3> HIDE DEF s1, old
    <3>2. /\ IsState(s1) /\ SameWindows(s, s1) /\ s1.sel = s.sel /\ s1.urgent = s.urgent
          /\ s1.selmon = s.selmon
          /\ s1.lit = IF old = None THEN s.lit ELSE s.lit \ {old}
      BY <1>1, <3>1, UnfocusFrame
    <3>3. LitSel(s) => s1.lit = {}
      <4>1. s.lit \in SUBSET Client /\ None \notin Client
        BY <1>1, ConstantsAssumption DEF State
      <4> QED BY <3>2, <4>1 DEF LitSel, old
    <3> QED BY <3>2, <3>3
  <2> QED BY <2>1, <2>2
<1> HIDE DEF s1
<1>4. CASE c = None
  <2>1. t = [s1 EXCEPT !.xfocus = None, !.sel[s.selmon] = None]
    BY <1>4 DEF Focus, c, s1
  <2> HIDE DEF t
  <2>2. SameWindows(s, t) /\ t.sel[t.selmon] = None /\ t.xfocus = None
        /\ t.lit = s1.lit /\ t.urgent = s.urgent
    BY <1>1, <1>3, <2>1 DEF IsState, SameWindows
  <2>3. s.urgent \in SUBSET Client /\ None \notin Client
    BY <1>1, ConstantsAssumption DEF State
  <2>4. Keyed(t)
    BY <2>2 DEF Keyed
  <2>5. LitSel(s) => Lit(t)
    BY <1>3, <1>4, <2>2, <2>3 DEF Lit, LitSel
  <2> QED BY <2>2, <2>4, <2>5 DEF t
<1>5. CASE c # None
  <2>0. c \in Client /\ s.mon[c] \in Monitor
    BY <1>2, <1>5
  <2>1. t = [s4 EXCEPT !.sel[s.mon[c]] = c]
    BY <1>5 DEF Focus, c, s1, s2, sd, sa, s4
  <2>2. /\ IsState(s2) /\ SameWindows(s, s2) /\ s2.selmon = s.mon[c] /\ s2.sel = s.sel
        /\ s2.urgent = s.urgent \ {c} /\ (LitSel(s) => s2.lit \subseteq {c})
    BY <1>3 DEF IsState, SameWindows
  <2> HIDE DEF s2
  <2>3. /\ IsState(sd) /\ SameWindows(s, sd) /\ sd.selmon = s.mon[c]
        /\ sd.urgent = s.urgent \ {c} /\ (LitSel(s) => sd.lit \subseteq {c})
    BY <2>2, ListCallsFrame DEF SameWindows, SameFocus
  <2>4. DOMAIN sd.sel = Monitor
    BY <1>1, <2>2 DEF DetachStack, IsState
  <2> HIDE DEF sd
  <2>5. /\ IsState(sa) /\ SameWindows(s, sa) /\ sa.selmon = s.mon[c] /\ sa.sel = sd.sel
        /\ sa.urgent = s.urgent \ {c} /\ (LitSel(s) => sa.lit \subseteq {c})
    BY <2>3, ListCallsFrame DEF SameWindows, SameFocus
  <2> HIDE DEF sa
  <2>6. /\ IsState(s4) /\ SameWindows(s, s4) /\ s4.selmon = s.mon[c] /\ s4.sel = sd.sel
        /\ s4.urgent = s.urgent \ {c} /\ (LitSel(s) => s4.lit \subseteq {c})
        /\ (c \in s.live /\ ~s4.refused => s4.xfocus = c)
    <3>1. /\ IsState(s4) /\ SameWindows(sa, s4) /\ s4.lit = sa.lit
          /\ s4.urgent = sa.urgent /\ s4.sel = sa.sel /\ s4.selmon = sa.selmon
      BY <2>5, SetFocusFrame
    <3>2. c \in sa.live /\ ~s4.refused => s4.xfocus = c
      BY <2>5, SetFocusFrame
    <3> HIDE DEF s4
    <3> QED BY <2>5, <3>1, <3>2 DEF SameWindows
  <2> HIDE DEF s4, t
  <2>7. /\ SameWindows(s, t) /\ t.selmon = s.mon[c] /\ t.sel[t.selmon] = c
        /\ t.urgent = s.urgent \ {c} /\ t.lit = s4.lit
        /\ t.xfocus = s4.xfocus /\ t.refused = s4.refused
    BY <2>0, <2>1, <2>4, <2>6 DEF IsState, SameWindows
  <2>8. Keyed(t)
    BY <2>6, <2>7 DEF Keyed, SameWindows
  <2>9. LitSel(s) => Lit(t)
    BY <2>6, <2>7 DEF Lit, LitSel
  <2> QED BY <2>7, <2>8, <2>9 DEF t
<1> QED BY <1>4, <1>5

----------------------------------------------------------------------------
(* The calls that end with focus() *)

\* What a handler keeps of the windows' states and of the focus.
Kept(s, t) ==
  /\ SameWindows(s, t) /\ Managed(t) = Managed(s)
  /\ Keyed(s) => Keyed(t)
  /\ Lit(s) => Lit(t)

LEMMA KeptTwice ==
  ASSUME NEW s, NEW t, NEW u, Kept(s, t), Kept(t, u)
  PROVE  Kept(s, u)
BY DEF Kept, SameWindows

LEMMA FocusKept ==
  ASSUME NEW s, Placed(s), NEW w, Focusable(s, w)
  PROVE  Kept(s, Focus(s, w))
<1> DEFINE t == Focus(s, w)
<1>1. SameWindows(s, t) /\ Keyed(t) /\ (LitSel(s) => Lit(t)) /\ t.mon = s.mon
  BY FocusEffect, FocusPlaced
<1> HIDE DEF t
<1>2. Kept(s, t)
  BY <1>1 DEF Kept, Managed, Lit
<1> QED BY <1>2 DEF t

LEMMA RefocusKept ==
  ASSUME NEW s, Placed(s), NEW u \in State,
         SamePlaces(s, u), SameWindows(s, u), SameFocus(s, u)
  PROVE  Kept(s, Refocus(u))
<1>1. Kept(u, Refocus(u))
  BY PlacedFrame, FocusKept DEF Refocus, Focusable
<1>2. Kept(s, u)
  BY DEF Kept, SamePlaces, SameWindows, SameFocus, Managed, Keyed, Lit, LitSel
<1> QED BY <1>1, <1>2, KeptTwice

LEMMA SelectMonKept ==
  ASSUME NEW s, Placed(s), NEW m \in Range(s.mons), NEW w, Focusable(s, w),
         NEW b \in BOOLEAN
  PROVE  Kept(s, SelectMon(s, m, w, b))
<1> DEFINE c == s.sel[s.selmon]
           u == Unfocus(s, c, b)
           v == [u EXCEPT !.selmon = m]
           t == Focus(v, w)
<1>1. /\ s \in State /\ IsState(s) /\ c \in Client \cup {None} /\ m \in Range(s.mons)
      /\ s.lit \in SUBSET Client /\ None \notin Client
  BY PlacedTypes, StateFields, ConstantsAssumption DEF Placed, State
<1>2. /\ Placed(u) /\ SamePlaces(s, u) /\ SameWindows(s, u)
      /\ u.lit = IF c = None THEN s.lit ELSE s.lit \ {c}
  <2> HIDE DEF c
  <2>1. Placed(u) /\ SamePlaces(s, u)
    BY <1>1, UnfocusPlaced
  <2>2. SameWindows(s, u) /\ u.lit = IF c = None THEN s.lit ELSE s.lit \ {c}
    BY <1>1 DEF Unfocus, IsState, SameWindows
  <2> QED BY <2>1, <2>2
<1>3. LitSel(s) => u.lit = {}
  BY <1>1, <1>2 DEF LitSel
<1> HIDE DEF u
<1>4. Placed(v) /\ v.mon = s.mon
  BY <1>2, SelmonPlaced DEF SamePlaces
<1>5. SameWindows(s, v) /\ v.lit = u.lit
  BY <1>2 DEF Placed, State, SameWindows
<1> HIDE DEF v
<1>6. LitSel(s) => LitSel(v)
  BY <1>3, <1>5 DEF LitSel
<1>7. Focusable(v, w)
  BY <1>4 DEF Focusable
<1>8. SameWindows(v, t) /\ Keyed(t) /\ (LitSel(v) => Lit(t)) /\ t.mon = v.mon
  BY <1>4, <1>7, FocusEffect, FocusPlaced
<1> HIDE DEF t
<1>9. Kept(s, t)
  BY <1>4, <1>5, <1>6, <1>8 DEF Kept, SameWindows, Managed, Lit
<1>10. SelectMon(s, m, w, b) = t
  BY DEF SelectMon, t, v, u
<1> QED BY <1>9, <1>10

LEMMA PopKept ==
  ASSUME NEW s, Placed(s), NEW c \in Client, s.mon[c] # None
  PROVE  Kept(s, Pop(s, c))
<1> DEFINE u == Attach(Detach(s, c), c)
<1>1. SameWindows(s, u) /\ SameFocus(s, u) /\ u.sel = s.sel /\ u.selmon = s.selmon
      /\ u.mon = s.mon
  <2>1. IsState(s)
    BY StateFields DEF Placed
  <2> QED BY <2>1, ListCallsFrame DEF SameWindows, SameFocus
<1>2. Placed(u)
  BY PopPlaces
<1> HIDE DEF u
<1>3. Kept(s, u)
  BY <1>1 DEF Kept, SameFocus, SameWindows, Managed, Keyed, Lit, LitSel
<1>4. Kept(u, Focus(u, c))
  BY <1>1, <1>2, FocusKept DEF Focusable
<1> QED BY <1>3, <1>4, KeptTwice DEF Pop, u

LEMMA MoveStackKept ==
  ASSUME NEW s, Placed(s), NEW dir
  PROVE  Kept(s, MoveStack(s, dir))
<1> DEFINE t == MoveStack(s, dir)
<1>1. /\ SameWindows(s, t) /\ SameFocus(s, t) /\ t.sel = s.sel /\ t.selmon = s.selmon
      /\ t.mon = s.mon
  BY DEF Placed, State, MoveStack, SameWindows, SameFocus
<1> HIDE DEF t
<1>2. Kept(s, t)
  BY <1>1 DEF Kept, SameFocus, SameWindows, Managed, Keyed, Lit, LitSel
<1> QED BY <1>2 DEF t

LEMMA SendMonKept ==
  ASSUME NEW s, Placed(s), NEW c \in Client, s.mon[c] # None,
         NEW m \in Range(s.mons)
  PROVE  Kept(s, SendMon(s, c, m))
<1> DEFINE u == Unfocus(s, c, TRUE)
           d == DetachStack(Detach(u, c), c)
           w == [d EXCEPT !.mon[c] = m, !.tags[c] = ViewOf(s, m)]
           x == Sent(s, c, m)
           t == Focus(x, None)
<1>1. CASE s.mon[c] = m
  BY <1>1 DEF SendMon, Kept, SameWindows
<1>2. CASE s.mon[c] # m
  <2>1. SendMon(s, c, m) = t
    BY <1>2 DEF SendMon, Sent
  <2>a. Placed(x) /\ x.mon = [s.mon EXCEPT ![c] = m]
    BY <1>2, SendMonPlaces
  <2>2. /\ IsState(u) /\ SameWindows(s, u) /\ u.lit = s.lit \ {c}
        /\ u.sel = s.sel /\ u.selmon = s.selmon
    <3>1. IsState(s) /\ c # None
      BY StateFields, ConstantsAssumption DEF Placed
    <3> QED BY <3>1 DEF Unfocus, IsState, SameWindows
  <2>3. DOMAIN u.sel = Monitor /\ s.selmon \in Monitor
    BY <2>2, PlacedTypes
  <2>0. x = AttachStack(AttachBottom(w, c), c)
    BY DEF Sent
  <2> HIDE DEF u, x
  <2>4. /\ IsState(d) /\ SameWindows(s, d) /\ d.lit = u.lit /\ d.selmon = s.selmon
        /\ (c # s.sel[s.selmon] => d.sel[d.selmon] = s.sel[s.selmon])
    <3> DEFINE e == Detach(u, c)
    <3>1. /\ IsState(e) /\ SameWindows(u, e) /\ SameFocus(u, e)
          /\ e.sel = u.sel /\ e.selmon = u.selmon
      BY <2>2, ListCallsFrame
    <3> HIDE DEF e
    <3>2. LET f == DetachStack(e, c)
          IN  /\ IsState(f) /\ SameWindows(e, f) /\ SameFocus(e, f)
              /\ f.selmon = e.selmon
              /\ \A n \in DOMAIN e.sel : c # e.sel[n] => f.sel[n] = e.sel[n]
      BY <3>1, ListCallsFrame
    <3> QED BY <2>2, <2>3, <3>1, <3>2 DEF e, SameWindows, SameFocus
  <2> HIDE DEF d
  <2>5. /\ IsState(w) /\ SameWindows(d, w) /\ w.lit = d.lit /\ w.selmon = d.selmon
        /\ w.sel = d.sel
    BY <2>4 DEF IsState, SameWindows
  <2> HIDE DEF w
  <2>6. SameWindows(w, x) /\ x.lit = w.lit /\ x.selmon = w.selmon /\ x.sel = w.sel
    BY <2>0, <2>5, ListCallsFrame DEF SameWindows, SameFocus
  <2>7. SameWindows(s, x) /\ (LitSel(s) => LitSel(x))
    BY <2>2, <2>4, <2>5, <2>6 DEF SameWindows, LitSel
  <2>8. Managed(x) = Managed(s)
    <3>1. s.mon \in [Client -> Monitor \cup {None}] /\ m # None
      BY PlacedTypes, ConstantsAssumption
    <3> QED BY <2>a, <3>1 DEF Managed
  <2>9. SameWindows(x, t) /\ Keyed(t) /\ (LitSel(x) => Lit(t)) /\ t.mon = x.mon
    BY <2>a, FocusEffect, FocusPlaced DEF Focusable
  <2> HIDE DEF t
  <2> QED BY <2>1, <2>7, <2>8, <2>9 DEF Kept, Managed, SameWindows, Lit
<1> QED BY <1>1, <1>2

LEMMA CommandKept ==
  ASSUME NEW s, Placed(s), NEW t, Command(s, t)
  PROVE  Kept(s, t)
<1>1. CASE t = s
  BY <1>1 DEF Kept, SameWindows
<1>2. CASE \E m \in Range(s.mons) : t = SelectMon(s, m, None, FALSE)
  BY <1>2, SelectMonKept DEF Focusable
<1> QED BY <1>1, <1>2, FocusKept, RefocusKept, PopKept, SendMonKept, MoveStackKept
        DEF Command

----------------------------------------------------------------------------
(* The state of windows: floating and fullscreen *)

FixedSize(c) == Hints[c].fixed /\ ~Hints[c].fullscreen

\* FloatingKept and what it rests on: only a managed client is fullscreen, and one
\* of fixed size remembers that it floated before.
Floats(s) ==
  \A c \in Client :
    /\ c \in s.fullscreen => c \in s.floating /\ s.mon[c] # None
    /\ FixedSize(c) /\ s.mon[c] # None => c \in s.floating
    /\ FixedSize(c) /\ c \in s.fullscreen => c \in s.oldstate

LEMMA KeptFloats ==
  ASSUME NEW s, NEW t, Kept(s, t), Floats(s)
  PROVE  Floats(t)
<1>1. \A c \in Client : s.mon[c] # None <=> t.mon[c] # None
  BY DEF Kept, Managed
<1> QED BY <1>1 DEF Kept, SameWindows, Floats

\* manage: a new client floats if its hints say so, whatever it asks for.
LEMMA MappedFloats ==
  ASSUME NEW s, Placed(s), NEW c \in Client, s.mon[c] = None, NEW urg \in BOOLEAN,
         NEW deaf \in BOOLEAN,
         Floats(s)
  PROVE  Floats(Mapped(s, c, urg, deaf))
<1> DEFINE h       == Hints[c]
           trans   == h.parent \in Managed(s)
           m       == IF trans THEN s.mon[h.parent] ELSE s.selmon
           tags    == IF trans THEN s.tags[h.parent]
                      ELSE IF TagMask(h.ruletags) # {} THEN TagMask(h.ruletags)
                      ELSE ViewOf(s, m)
           ruled   == ~trans /\ h.rulefloat
           typed   == ruled \/ h.fullscreen \/ h.dialog
           default == h.parent # None \/ h.fixed
           g == UpdateWmHints(s, c, urg, deaf)
           u == [g EXCEPT
                  !.mon[c] = m, !.tags[c] = tags, !.live = @ \cup {c},
                  !.floating   = IF typed \/ default THEN @ \cup {c} ELSE @,
                  !.fullscreen = IF h.fullscreen THEN @ \cup {c} ELSE @,
                  !.oldstate   = IF \/ h.fullscreen /\ ruled
                                    \/ ~typed /\ default
                                 THEN @ \cup {c} ELSE @]
           v == AttachStack(AttachBottom(u, c), c)
           w == IF m = s.selmon THEN Unfocus(v, s.sel[m], FALSE) ELSE v
           x == [w EXCEPT !.sel[m] = c]
<1>1. s \in State /\ IsState(s) /\ Mapped(s, c, urg, deaf) = x
  BY StateFields DEF Placed, Mapped
<1>2. Placed(x) /\ \E n \in Monitor : x.mon = [s.mon EXCEPT ![c] = n]
  <2>1. /\ Placed(Mapped(s, c, urg, deaf))
        /\ \E n \in Monitor : Mapped(s, c, urg, deaf).mon = [s.mon EXCEPT ![c] = n]
    <3> HIDE DEF x, w, v, u, g, h, trans, m, tags
    <3> QED BY MappedPlaced
  <2> HIDE DEF x
  <2> QED BY <1>1, <2>1
<1>g. IsState(g) /\ SameWindows(s, g)
  BY <1>1, HintsRead, StateFields
<1>3. /\ IsState(u)
      /\ u.floating = IF typed \/ default THEN s.floating \cup {c} ELSE s.floating
      /\ u.fullscreen = IF h.fullscreen THEN s.fullscreen \cup {c} ELSE s.fullscreen
      /\ u.oldstate = s.oldstate \/ u.oldstate = s.oldstate \cup {c}
  <2> HIDE DEF g, m, tags, h, ruled, typed, default
  <2> QED BY <1>g DEF IsState, SameWindows
<1> HIDE DEF u, m
<1>4. IsState(v) /\ SameWindows(u, v)
  BY <1>3, ListCallsFrame DEF SameWindows
<1> HIDE DEF v
<1>5. IsState(w) /\ SameWindows(u, w)
  BY <1>4 DEF Unfocus, IsState, SameWindows
<1> HIDE DEF w
<1>6. SameWindows(u, x)
  BY <1>5 DEF IsState, SameWindows
<1> HIDE DEF x
<1>7. PICK n \in Monitor : x.mon = [s.mon EXCEPT ![c] = n]
  BY <1>2
<1>8. n # None /\ s.mon \in [Client -> Monitor \cup {None}]
  BY PlacedTypes, ConstantsAssumption
<1>9. \A e \in Client : x.mon[e] = IF e = c THEN n ELSE s.mon[e]
  BY <1>7, <1>8
<1>10. c \notin s.fullscreen
  BY DEF Floats
<1>11. ASSUME NEW e \in Client, e # c
       PROVE  /\ e \in x.floating <=> e \in s.floating
              /\ e \in x.fullscreen <=> e \in s.fullscreen
              /\ e \in x.oldstate <=> e \in s.oldstate
  <2> HIDE DEF h, ruled, typed, default
  <2> QED BY <1>3, <1>6, <1>11 DEF SameWindows
<1>12. /\ h.fullscreen \/ h.fixed => c \in x.floating
       /\ c \in x.fullscreen => h.fullscreen
  BY <1>3, <1>6, <1>10 DEF SameWindows
<1>13. Floats(x)
  <2>1. SUFFICES ASSUME NEW e \in Client
                 PROVE  /\ e \in x.fullscreen => e \in x.floating /\ x.mon[e] # None
                        /\ FixedSize(e) /\ x.mon[e] # None => e \in x.floating
                        /\ FixedSize(e) /\ e \in x.fullscreen => e \in x.oldstate
    BY DEF Floats
  <2>2. CASE e = c
    BY <1>8, <1>9, <1>12, <2>2 DEF FixedSize
  <2>3. CASE e # c
    BY <1>9, <1>11, <2>3 DEF Floats
  <2> QED BY <2>2, <2>3
<1> QED BY <1>1, <1>13

LEMMA UnmappedFloats ==
  ASSUME NEW s, Placed(s), NEW c \in Client, s.mon[c] # None, Floats(s)
  PROVE  Floats(Unmapped(s, c))
<1> DEFINE d == DetachStack(Detach(s, c), c)
           u == Free(d, c)
<1>1. u = Unmapped(s, c) /\ u.mon = [s.mon EXCEPT ![c] = None]
  BY UnmappedPlaced DEF Unmapped
<1>2. IsState(d) /\ SameWindows(s, d)
  <2>1. IsState(s)
    BY StateFields DEF Placed
  <2> QED BY <2>1, ListCallsFrame DEF SameWindows
<1> HIDE DEF d
<1>3. /\ u.floating = s.floating \ {c} /\ u.fullscreen = s.fullscreen \ {c}
      /\ u.oldstate = s.oldstate \ {c}
  BY <1>2 DEF Free, IsState, SameWindows
<1> HIDE DEF u
<1>4. \A e \in Client : u.mon[e] = IF e = c THEN None ELSE s.mon[e]
  BY <1>1, PlacedTypes
<1>5. Floats(u)
  BY <1>3, <1>4 DEF Floats
<1> QED BY <1>1, <1>5

\* One client gets or loses a flag.
SameFlags(s, t, e) ==
  /\ e \in t.floating <=> e \in s.floating
  /\ e \in t.fullscreen <=> e \in s.fullscreen
  /\ e \in t.oldstate <=> e \in s.oldstate

LEMMA FlagFloats ==
  ASSUME NEW s, Floats(s), NEW t, t.mon = s.mon, NEW c \in Client,
         \A e \in Client \ {c} : SameFlags(s, t, e),
         c \in t.fullscreen => c \in t.floating /\ s.mon[c] # None,
         FixedSize(c) /\ s.mon[c] # None => c \in t.floating,
         FixedSize(c) /\ c \in t.fullscreen => c \in t.oldstate
  PROVE  Floats(t)
<1> SUFFICES ASSUME NEW e \in Client
             PROVE  /\ e \in t.fullscreen => e \in t.floating /\ t.mon[e] # None
                    /\ FixedSize(e) /\ t.mon[e] # None => e \in t.floating
                    /\ FixedSize(e) /\ e \in t.fullscreen => e \in t.oldstate
  BY DEF Floats
<1>1. CASE e = c
  BY <1>1
<1>2. CASE e # c
  <2>1. SameFlags(s, t, e)
    BY <1>2
  <2>2. /\ e \in s.fullscreen => e \in s.floating /\ s.mon[e] # None
        /\ FixedSize(e) /\ s.mon[e] # None => e \in s.floating
        /\ FixedSize(e) /\ e \in s.fullscreen => e \in s.oldstate
    BY DEF Floats
  <2> QED BY <2>1, <2>2 DEF SameFlags
<1> QED BY <1>1, <1>2

LEMMA FullscreenFloats ==
  ASSUME NEW s, Placed(s), Floats(s), NEW c \in Client, s.mon[c] # None,
         NEW on \in BOOLEAN
  PROVE  Floats(SetFullscreen(s, c, on))
<1> DEFINE t == SetFullscreen(s, c, on)
<1>0. IsState(s)
  BY StateFields DEF Placed
<1>1. CASE on /\ c \notin s.fullscreen
  <2>1. /\ t.fullscreen = s.fullscreen \cup {c} /\ t.floating = s.floating \cup {c}
        /\ t.oldstate = IF c \in s.floating THEN s.oldstate \cup {c} ELSE s.oldstate \ {c}
        /\ t.mon = s.mon
    BY <1>0, <1>1 DEF SetFullscreen, IsState
  <2> HIDE DEF t
  <2>2. FixedSize(c) => c \in s.floating
    BY DEF Floats
  <2>3. FixedSize(c) => c \in t.oldstate
    BY <2>1, <2>2
  <2>4. \A e \in Client \ {c} : SameFlags(s, t, e)
    BY <2>1 DEF SameFlags
  <2>5. c \in t.floating /\ t.mon = s.mon
    BY <2>1
  <2>6. Floats(t)
    BY <2>3, <2>4, <2>5, FlagFloats
  <2> QED BY <2>6 DEF t
<1>2. CASE ~on /\ c \in s.fullscreen
  <2>1. /\ t.fullscreen = s.fullscreen \ {c} /\ t.oldstate = s.oldstate /\ t.mon = s.mon
        /\ t.floating = IF c \in s.oldstate THEN s.floating ELSE s.floating \ {c}
    BY <1>0, <1>2 DEF SetFullscreen, IsState
  <2> HIDE DEF t
  <2>2. FixedSize(c) => c \in s.floating /\ c \in s.oldstate
    BY <1>2 DEF Floats
  <2>3. FixedSize(c) => c \in t.floating
    BY <2>1, <2>2
  <2>4. \A e \in Client \ {c} : SameFlags(s, t, e)
    BY <2>1 DEF SameFlags
  <2>5. c \notin t.fullscreen /\ t.mon = s.mon
    BY <2>1
  <2>6. Floats(t)
    BY <2>3, <2>4, <2>5, FlagFloats
  <2> QED BY <2>6 DEF t
<1>3. CASE ~(on /\ c \notin s.fullscreen) /\ ~(~on /\ c \in s.fullscreen)
  BY <1>3 DEF SetFullscreen
<1> QED BY <1>1, <1>2, <1>3

LEMMA ToggleFloats ==
  ASSUME NEW s, Placed(s), Floats(s)
  PROVE  Floats(ToggleFloating(s))
<1> DEFINE c == s.sel[s.selmon]
           t == ToggleFloating(s)
<1>0. IsState(s) /\ c \in Client \cup {None}
  BY StateFields, PlacedTypes DEF Placed
<1>1. CASE c = None \/ c \in s.fullscreen
  BY <1>1 DEF ToggleFloating
<1>2. CASE c # None /\ c \notin s.fullscreen
  <2>1. /\ t.fullscreen = s.fullscreen /\ t.oldstate = s.oldstate /\ t.mon = s.mon
        /\ t.floating = IF c \in s.floating /\ ~Hints[c].fixed THEN s.floating \ {c}
                        ELSE s.floating \cup {c}
    BY <1>0, <1>2 DEF ToggleFloating, IsState
  <2> HIDE DEF t, c
  <2>2. FixedSize(c) => c \in t.floating
    BY <2>1 DEF FixedSize
  <2>3. \A e \in Client \ {c} : SameFlags(s, t, e)
    BY <2>1 DEF SameFlags
  <2>4. c \in Client /\ c \notin t.fullscreen /\ t.mon = s.mon
    BY <1>0, <1>2, <2>1
  <2>5. Floats(t)
    BY <2>2, <2>3, <2>4, FlagFloats
  <2> QED BY <2>5 DEF t
<1> QED BY <1>1, <1>2

----------------------------------------------------------------------------
(* Windows that come and go *)

LEMMA MappedLit ==
  ASSUME NEW s, Placed(s), NEW c \in Client, NEW urg \in BOOLEAN,
         NEW deaf \in BOOLEAN, LitSel(s)
  PROVE  LitSel(Mapped(s, c, urg, deaf))
<1> DEFINE h       == Hints[c]
           trans   == h.parent \in Managed(s)
           m       == IF trans THEN s.mon[h.parent] ELSE s.selmon
           tags    == IF trans THEN s.tags[h.parent]
                      ELSE IF TagMask(h.ruletags) # {} THEN TagMask(h.ruletags)
                      ELSE ViewOf(s, m)
           ruled   == ~trans /\ h.rulefloat
           typed   == ruled \/ h.fullscreen \/ h.dialog
           default == h.parent # None \/ h.fixed
           g == UpdateWmHints(s, c, urg, deaf)
           u == [g EXCEPT
                  !.mon[c] = m, !.tags[c] = tags, !.live = @ \cup {c},
                  !.floating   = IF typed \/ default THEN @ \cup {c} ELSE @,
                  !.fullscreen = IF h.fullscreen THEN @ \cup {c} ELSE @,
                  !.oldstate   = IF \/ h.fullscreen /\ ruled
                                    \/ ~typed /\ default
                                 THEN @ \cup {c} ELSE @]
           v == AttachStack(AttachBottom(u, c), c)
           w == IF m = s.selmon THEN Unfocus(v, s.sel[m], FALSE) ELSE v
           x == [w EXCEPT !.sel[m] = c]
<1>1. /\ s \in State /\ IsState(s) /\ s.selmon \in Monitor /\ s.lit \in SUBSET Client
      /\ None \notin Client /\ s.sel \in [Monitor -> Client \cup {None}]
  BY StateFields, PlacedTypes, ConstantsAssumption DEF Placed, State
<1>2. Mapped(s, c, urg, deaf) = x
  BY DEF Mapped
<1>g. IsState(g) /\ g.lit = s.lit /\ g.sel = s.sel /\ g.selmon = s.selmon
  BY <1>1, HintsRead, StateFields DEF SamePlaces
<1>3. IsState(u) /\ u.lit = s.lit /\ u.sel = s.sel /\ u.selmon = s.selmon
  <2> HIDE DEF g, m, tags, h, ruled, typed, default
  <2> QED BY <1>g DEF IsState
<1>m. m \in Monitor
  BY <1>1, PlacedTypes DEF Managed
<1> HIDE DEF u, m
<1>4. IsState(v) /\ v.lit = s.lit /\ v.sel = s.sel /\ v.selmon = s.selmon
  BY <1>3, ListCallsFrame DEF SameFocus
<1> HIDE DEF v
<1>5. /\ IsState(w) /\ w.sel = s.sel /\ w.selmon = s.selmon
      /\ w.lit \subseteq s.lit /\ (m = s.selmon => s.sel[m] \notin w.lit)
  BY <1>1, <1>4 DEF Unfocus, IsState
<1> HIDE DEF w
<1>6. /\ x.lit = w.lit /\ x.selmon = s.selmon
      /\ x.sel = [s.sel EXCEPT ![m] = c]
  BY <1>5 DEF IsState
<1> HIDE DEF x
<1>7. LitSel(x)
  <2>1. CASE m = s.selmon
    <3>1. w.lit = {}
      BY <1>5, <2>1 DEF LitSel
    <3> QED BY <1>6, <3>1 DEF LitSel
  <2>2. CASE m # s.selmon
    <3>1. x.sel[s.selmon] = s.sel[s.selmon]
      BY <1>1, <1>6, <2>2
    <3> QED BY <1>5, <1>6, <3>1 DEF LitSel
  <2> QED BY <2>1, <2>2
<1> QED BY <1>2, <1>7

LEMMA UnmappedLit ==
  ASSUME NEW s, Placed(s), NEW c \in Client, LitSel(s)
  PROVE  LitSel(Unmapped(s, c))
<1> DEFINE a == Detach(s, c)
           d == DetachStack(a, c)
           u == Free(d, c)
<1>1. IsState(s) /\ DOMAIN s.sel = Monitor /\ s.selmon \in Monitor
  BY StateFields, PlacedTypes DEF Placed
<1>2. IsState(a) /\ a.lit = s.lit /\ a.sel = s.sel /\ a.selmon = s.selmon
  BY <1>1, ListCallsFrame DEF SameFocus
<1> HIDE DEF a
<1>3. /\ IsState(d) /\ d.lit = s.lit /\ d.selmon = s.selmon
      /\ (c # s.sel[s.selmon] => d.sel[s.selmon] = s.sel[s.selmon])
  BY <1>1, <1>2, ListCallsFrame DEF SameFocus
<1> HIDE DEF d
<1>4. u.lit = s.lit \ {c} /\ u.selmon = s.selmon /\ u.sel = d.sel
  BY <1>3 DEF Free, IsState
<1> HIDE DEF u
<1>5. LitSel(u)
  BY <1>3, <1>4 DEF LitSel
<1> QED BY <1>5 DEF Unmapped, u, d, a

----------------------------------------------------------------------------
(* The invariant of the focus *)

\* The windows and the focus as every handler leaves them.  A drag, and monitors
\* that come and go, select a monitor without unfocusing the client of the last.
Good(s) ==
  Floats(s) /\ Keyed(s) /\ (may \cap {"drag", "screens"} = {} => Lit(s))

FocusInv ==
  /\ Floats(dwm) /\ (may \cap {"drag", "screens"} = {} => Lit(dwm))
  /\ phase # "stopped" => Good(dwm)
  /\ phase = "drag" => "drag" \in may
  /\ phase = "stopped" => Managed(dwm) = {}

LEMMA KeptGood ==
  ASSUME NEW s, NEW t, Good(s), Kept(s, t)
  PROVE  Good(t)
BY KeptFloats DEF Good, Kept

LEMMA CommandGood ==
  ASSUME NEW s, Placed(s), Good(s), NEW t, Command(s, t)
  PROVE  Good(t)
BY CommandKept, KeptGood

LEMMA SelectMonGood ==
  ASSUME NEW s, Placed(s), Good(s), NEW m \in Range(s.mons), NEW w, Focusable(s, w),
         NEW b \in BOOLEAN
  PROVE  Good(SelectMon(s, m, w, b))
BY SelectMonKept, KeptGood

LEMMA FocusGood ==
  ASSUME NEW s, Placed(s), Good(s), NEW w, Focusable(s, w)
  PROVE  Good(Focus(s, w))
BY FocusKept, KeptGood

\* A call of focus() after a step that left the border where it was.
LEMMA FocusAfter ==
  ASSUME NEW s, Placed(s), Floats(s),
         may \cap {"drag", "screens"} = {} => LitSel(s)
  PROVE  Good(Focus(s, None))
<1> DEFINE t == Focus(s, None)
<1>1. SameWindows(s, t) /\ Keyed(t) /\ (LitSel(s) => Lit(t)) /\ t.mon = s.mon
  BY FocusEffect, FocusPlaced DEF Focusable
<1> HIDE DEF t
<1>2. Good(t)
  BY <1>1 DEF Good, Floats, SameWindows
<1> QED BY <1>2 DEF t

LEMMA FlagsGood ==
  ASSUME NEW s, Placed(s), Good(s), NEW c \in Client, NEW on \in BOOLEAN
  PROVE  /\ s.mon[c] # None => Good(SetFullscreen(s, c, on))
         /\ Good(Vanish(s, c))
<1>1. IsState(s) /\ s.live \in SUBSET Client
  BY StateFields DEF Placed, State
<1>2. ASSUME s.mon[c] # None PROVE Good(SetFullscreen(s, c, on))
  <2> DEFINE t == SetFullscreen(s, c, on)
  <2>1. Floats(t)
    BY <1>2, FullscreenFloats DEF Good
  <2>2. /\ t.sel = s.sel /\ t.selmon = s.selmon /\ t.live = s.live /\ t.stolen = s.stolen
        /\ SameFocus(s, t)
    BY <1>1 DEF SetFullscreen, IsState, SameFocus
  <2> HIDE DEF t
  <2>3. Good(t)
    BY <2>1, <2>2 DEF Good, Keyed, Lit, LitSel, SameFocus
  <2> QED BY <2>3 DEF t
<1>3. Good(Vanish(s, c))
  <2> DEFINE t == Vanish(s, c)
  <2>1. /\ t.sel = s.sel /\ t.selmon = s.selmon /\ t.live = s.live \ {c}
        /\ t.xfocus = IF s.xfocus = c THEN None ELSE s.xfocus
        /\ t.stolen = s.stolen /\ t.refused = s.refused /\ t.lit = s.lit
        /\ t.urgent = s.urgent
        /\ t.mon = s.mon /\ t.floating = s.floating /\ t.fullscreen = s.fullscreen
        /\ t.oldstate = s.oldstate
    BY <1>1 DEF Vanish, IsState
  <2> HIDE DEF t
  <2>2. Floats(t)
    BY <2>1 DEF Good, Floats
  <2>3. Keyed(t)
    BY <2>1 DEF Good, Keyed
  <2>4. Good(t)
    BY <2>1, <2>2, <2>3 DEF Good, Lit, LitSel
  <2> QED BY <2>4 DEF t
<1> QED BY <1>2, <1>3

LEMMA ToggleGood ==
  ASSUME NEW s, Placed(s), Good(s)
  PROVE  Good(ToggleFloating(s))
<1> DEFINE t == ToggleFloating(s)
<1>1. Floats(t)
  BY ToggleFloats DEF Good
<1>2. /\ t.sel = s.sel /\ t.selmon = s.selmon /\ t.live = s.live /\ t.stolen = s.stolen
      /\ SameFocus(s, t)
  BY DEF Placed, State, ToggleFloating, SameFocus
<1> HIDE DEF t
<1>3. Good(t)
  BY <1>1, <1>2 DEF Good, Keyed, Lit, LitSel, SameFocus
<1> QED BY <1>3 DEF t

\* What a handler between two events of run() must show.
LEMMA HandleFocus ==
  ASSUME FocusInv, NEW h, NEW s, Handle(h, s), phase = "run" => Good(s)
  PROVE  FocusInv'
BY DEF FocusInv, Handle, Good

LEMMA InitFocus == Init => FocusInv
<1> SUFFICES ASSUME Init PROVE FocusInv
  OBVIOUS
<1>1. /\ dwm.fullscreen = {} /\ dwm.live = {} /\ dwm.lit = {} /\ dwm.urgent = {}
      /\ dwm.mon = [c \in Client |-> None] /\ phase = "run"
  BY DEF Init
<1> QED BY <1>1 DEF FocusInv, Good, Floats, Keyed, Lit, LitSel

----------------------------------------------------------------------------
(* Every step keeps it *)

LEMMA MapRequestFocus ==
  ASSUME IInv, FocusInv, NEW c \in Client, NEW urg \in BOOLEAN,
         NEW deaf \in BOOLEAN, MapRequest(c, urg, deaf)
  PROVE  FocusInv'
<1> DEFINE x == Mapped(dwm, c, urg, deaf)
           t == Focus(x, None)
<1>1. Placed(dwm) /\ dwm.mon[c] = None /\ Good(dwm)
  BY DEF IInv, Shown, MapRequest, Managed, FocusInv
<1>2. Placed(x) /\ Floats(x)
  BY <1>1, MappedPlaced, MappedFloats DEF Good
<1>3. may \cap {"drag", "screens"} = {} => LitSel(x)
  BY <1>1, MappedLit DEF Good, Lit
<1>4. dwm' = t /\ UNCHANGED <<phase, drag, may>> /\ phase # "stopped"
  BY DEF MapRequest, Manage
<1> HIDE DEF x
<1>5. Good(t)
  BY <1>2, <1>3, FocusAfter
<1> HIDE DEF t
<1> QED BY <1>4, <1>5 DEF FocusInv, Good

LEMMA UnmanageGood ==
  ASSUME NEW s, Placed(s), Good(s), NEW c \in Client, s.mon[c] # None
  PROVE  Good(Unmanage(s, c))
<1> DEFINE x == Unmapped(s, c)
<1>1. Placed(x) /\ Floats(x)
  BY UnmappedPlaced, UnmappedFloats DEF Good
<1>2. may \cap {"drag", "screens"} = {} => LitSel(x)
  BY UnmappedLit DEF Good, Lit
<1> HIDE DEF x
<1> QED BY <1>1, <1>2, FocusAfter DEF Unmanage, x

LEMMA GoneFocus ==
  ASSUME IInv, FocusInv, NEW c \in Client, Withdraw(c) \/ UnmapNotify(c)
  PROVE  FocusInv'
<1>1. Placed(dwm) /\ Good(dwm)
  BY DEF IInv, Shown, Withdraw, UnmapNotify, FocusInv
<1>2. CASE Withdraw(c)
  <2> DEFINE t == Vanish(dwm, c)
  <2>1. Good(t)
    BY <1>1, FlagsGood
  <2>2. dwm' = t /\ UNCHANGED <<phase, drag, may>> /\ phase # "stopped"
    BY <1>2 DEF Withdraw
  <2> HIDE DEF t
  <2> QED BY <2>1, <2>2 DEF FocusInv, Good
<1>3. CASE UnmapNotify(c)
  <2> DEFINE t == Unmanage(dwm, c)
  <2>1. dwm' = t /\ UNCHANGED <<phase, drag, may>> /\ phase # "stopped" /\ dwm.mon[c] # None
    BY <1>3 DEF UnmapNotify, Managed
  <2>2. Good(t)
    BY <1>1, <2>1, UnmanageGood
  <2> HIDE DEF t
  <2> QED BY <2>1, <2>2 DEF FocusInv, Good
<1> QED BY <1>2, <1>3

LEMMA ClickedMonGood ==
  ASSUME IInv, Good(dwm), NEW m \in Range(dwm.mons)
  PROVE  Good(ClickedMon(m))
<1>1. Placed(dwm)
  BY DEF IInv, Shown
<1> QED BY <1>1, SelectMonGood DEF ClickedMon, Focusable

LEMMA PointerFocus ==
  ASSUME IInv, FocusInv, NEW c \in Managed(dwm),
         EnterNotify(c, dwm.mon[c]) \/ ClickClient(c) \/ DragStart(c)
  PROVE  FocusInv'
<1> DEFINE m == dwm.mon[c]
           u == ClickedMon(m)
           s == Focus(u, c)
<1>1. /\ c \in Client /\ m # None /\ m \in Range(dwm.mons) /\ Placed(dwm)
      /\ phase = "run" /\ Good(dwm)
  BY ManagedFacts DEF EnterNotify, ClickClient, DragStart, Handle, FocusInv
<1>2. Placed(u) /\ Good(u) /\ u.mon = dwm.mon
  BY <1>1, ClickedMonPlaced, ClickedMonGood DEF Shown
<1> HIDE DEF u
<1>3. Good(s) /\ Placed(s)
  BY <1>1, <1>2, FocusGood, FocusPlaced DEF Focusable
<1> HIDE DEF s
<1>4. CASE EnterNotify(c, m)
  <2> DEFINE v == IF m # dwm.selmon THEN SelectMon(dwm, m, c, TRUE)
                  ELSE IF c \in {None, dwm.sel[m]} THEN dwm ELSE Focus(dwm, c)
  <2>1. Focusable(dwm, c)
    BY <1>1 DEF Focusable
  <2>2. Good(v)
    BY <1>1, <2>1, SelectMonGood, FocusGood
  <2>3. Handle("enter", v)
    BY <1>4 DEF EnterNotify
  <2> QED BY <2>2, <2>3, HandleFocus
<1>5. CASE ClickClient(c)
  <2>1. Good(ToggleFloating(s))
    BY <1>3, ToggleGood
  <2>2. Handle("click", s) \/ Handle("click", ToggleFloating(s))
    BY <1>5 DEF ClickClient, s, u
  <2> QED BY <1>3, <2>1, <2>2, HandleFocus
<1>6. CASE DragStart(c)
  <2>1. dwm' = s /\ phase' = "drag" /\ "drag" \in may /\ may' = may
    BY <1>6 DEF DragStart, s, u
  <2> QED BY <1>3, <2>1 DEF FocusInv, Good
<1> QED BY <1>4, <1>5, <1>6

LEMMA PropertyFocus ==
  ASSUME IInv, FocusInv, NEW c \in Managed(dwm),
         ClientMessage(c) \/ PropertyNotify(c) \/ Steal(c)
  PROVE  FocusInv'
<1> DEFINE u1 == [dwm EXCEPT !.urgent = @ \cup {c}]
           u2(urg, deaf) == UpdateWmHints(dwm, c, urg, deaf)
           u3 == [dwm EXCEPT !.floating = @ \cup {c}]
           u4 == [dwm EXCEPT !.stolen = c, !.xfocus = c]
           d  == dwm.sel[dwm.selmon]
<1>1. /\ c \in Client /\ dwm.mon[c] # None /\ Placed(dwm) /\ IsState(dwm)
      /\ phase = "run" /\ Good(dwm)
  BY ManagedFacts, StateFields
     DEF Placed, ClientMessage, PropertyNotify, Steal, Handle, FocusInv
<1>2. \/ \E on \in BOOLEAN : Handle("fullscreen", SetFullscreen(dwm, c, on))
      \/ c # d /\ Handle("active", u1)
      \/ \E urg, deaf \in BOOLEAN : Handle("hints", u2(urg, deaf))
      \/ Handle("type", u3)
      \/ dwm.stolen = None /\ Handle("steal", u4)
  BY DEF ClientMessage, PropertyNotify, Steal, Flag
<1>3. c # d => Good(u1)
  <2>1. /\ u1.sel = dwm.sel /\ u1.selmon = dwm.selmon /\ u1.urgent = dwm.urgent \cup {c}
        /\ SameWindows(dwm, u1) /\ u1.lit = dwm.lit /\ u1.xfocus = dwm.xfocus
        /\ u1.refused = dwm.refused /\ u1.mon = dwm.mon
    BY <1>1 DEF IsState, SameWindows
  <2> HIDE DEF u1
  <2> QED BY <1>1, <2>1 DEF Good, Floats, Keyed, Lit, LitSel, SameWindows
<1>4. \A urg, deaf \in BOOLEAN : Good(u2(urg, deaf))
  <2> SUFFICES ASSUME NEW urg \in BOOLEAN, NEW deaf \in BOOLEAN PROVE Good(u2(urg, deaf))
    OBVIOUS
  <2> DEFINE u == u2(urg, deaf)
  <2>1. /\ u.sel = dwm.sel /\ u.selmon = dwm.selmon /\ u.mon = dwm.mon
        /\ SameWindows(dwm, u) /\ u.lit = dwm.lit /\ u.xfocus = dwm.xfocus
        /\ u.refused = dwm.refused /\ (d \notin dwm.urgent => d \notin u.urgent)
    BY <1>1, HintsRead DEF Placed, SamePlaces
  <2> HIDE DEF u2
  <2>2. Good(u)
    BY <1>1, <2>1 DEF Good, Floats, Keyed, Lit, LitSel, SameWindows
  <2> QED BY <2>2
<1>5. Good(u3)
  <2>1. /\ u3.sel = dwm.sel /\ u3.selmon = dwm.selmon /\ SameFocus(dwm, u3)
        /\ u3.live = dwm.live /\ u3.stolen = dwm.stolen
        /\ u3.floating = dwm.floating \cup {c} /\ u3.fullscreen = dwm.fullscreen
        /\ u3.oldstate = dwm.oldstate /\ u3.mon = dwm.mon
    BY <1>1 DEF IsState, SameFocus
  <2> HIDE DEF u3
  <2>2. Floats(u3)
    BY <1>1, <2>1 DEF Good, Floats
  <2> QED BY <1>1, <2>1, <2>2 DEF Good, Keyed, Lit, LitSel, SameFocus
<1>6. Good(u4)
  <2>1. /\ u4.sel = dwm.sel /\ u4.selmon = dwm.selmon /\ u4.urgent = dwm.urgent
        /\ u4.live = dwm.live /\ u4.stolen = c /\ u4.xfocus = c /\ u4.lit = dwm.lit
        /\ u4.floating = dwm.floating /\ u4.fullscreen = dwm.fullscreen
        /\ u4.oldstate = dwm.oldstate /\ u4.mon = dwm.mon
    BY <1>1 DEF IsState
  <2>2. c # None
    BY <1>1, ConstantsAssumption
  <2> HIDE DEF u4
  <2> QED BY <1>1, <2>1, <2>2 DEF Good, Floats, Keyed, Lit, LitSel
<1>7. \A on \in BOOLEAN : Good(SetFullscreen(dwm, c, on))
  BY <1>1, FlagsGood
<1> HIDE DEF u1, u2, u3, u4, d
<1> QED BY <1>2, <1>3, <1>4, <1>5, <1>6, <1>7, HandleFocus

LEMMA ClientFocus ==
  ASSUME IInv, FocusInv, NEW c \in Client, ClientEvent(c)
  PROVE  FocusInv'
BY MapRequestFocus, GoneFocus, PointerFocus, PropertyFocus DEF ClientEvent, Flag

LEMMA RootFocus ==
  ASSUME IInv, FocusInv, NEW m \in Range(dwm.mons), EnterNotify(None, m) \/ MotionNotify(m)
  PROVE  FocusInv'
<1> DEFINE u == IF m # dwm.selmon THEN SelectMon(dwm, m, None, TRUE) ELSE dwm
           v == IF dwm.ptrmon \notin {None, m} THEN SelectMon(dwm, m, None, TRUE)
                ELSE dwm
           w == [v EXCEPT !.ptrmon = m]
<1>1. Placed(dwm) /\ Good(dwm)
  BY DEF IInv, Shown, EnterNotify, MotionNotify, Handle, FocusInv
<1>2. Good(u) /\ Good(v) /\ Placed(v)
  BY <1>1, SelectMonGood, SelectMonPlaced DEF Focusable, Shown
<1>3. Handle("enter", u) \/ Handle("motion", w)
  BY DEF EnterNotify, MotionNotify
<1> HIDE DEF u, v
<1>4. /\ w.sel = v.sel /\ w.selmon = v.selmon /\ SameWindows(v, w) /\ SameFocus(v, w)
      /\ w.mon = v.mon
  BY <1>2 DEF Placed, State, SameWindows, SameFocus
<1> HIDE DEF w
<1>5. Good(w)
  BY <1>2, <1>4 DEF Good, Floats, Keyed, Lit, LitSel, SameWindows, SameFocus
<1> QED BY <1>2, <1>3, <1>5, HandleFocus

LEMMA ClickBarFocus ==
  ASSUME IInv, FocusInv, NEW m \in Range(dwm.mons), ClickBar(m)
  PROVE  FocusInv'
<1> DEFINE s == ClickedMon(m)
<1>1. Good(dwm)
  BY DEF ClickBar, Handle, FocusInv
<1>2. Good(s) /\ Placed(s)
  BY <1>1, ClickedMonGood, ClickedMonPlaced DEF Shown
<1>3. \/ Handle("bar", s) \/ Handle("bar", Zoom(s))
      \/ \E t \in Tag : \/ Handle("bar", View(s, {t}))
                        \/ Handle("bar", ToggleView(s, {t}))
                        \/ Handle("bar", TagSel(s, {t}))
                        \/ Handle("bar", ToggleTag(s, {t}))
  BY DEF ClickBar
<1> HIDE DEF s
<1> QED BY <1>2, <1>3, ZoomCommand, ViewCommand, TagSelCommand, CommandGood, HandleFocus

LEMMA DragFocus ==
  ASSUME IInv, FocusInv, DragMotion \/ \E m \in Range(dwm.mons) : DragRelease(m)
  PROVE  FocusInv'
<1>1. /\ Placed(dwm) /\ Good(dwm) /\ "drag" \in may /\ phase = "drag"
      /\ drag \in Client /\ dwm.mon[drag] # None
  BY DEF IInv, Shown, DragMotion, DragRelease, FocusInv
<1>2. CASE DragMotion
  <2> DEFINE t == ToggleFloating(dwm)
  <2>1. Good(t)
    BY <1>1, ToggleGood
  <2>2. dwm' = t /\ UNCHANGED <<phase, drag, may>>
    BY <1>2 DEF DragMotion
  <2> HIDE DEF t
  <2> QED BY <1>1, <2>1, <2>2 DEF FocusInv, Good
<1>3. CASE \E m \in Range(dwm.mons) : DragRelease(m)
  <2>1. PICK m \in Range(dwm.mons) : DragRelease(m)
    BY <1>3
  <2> DEFINE u == SendMon(dwm, drag, m)
             v == [u EXCEPT !.selmon = m]
             t == Refocus(v)
  <2>2. Placed(u) /\ u.mons = dwm.mons /\ Good(u)
    <3>1. Kept(dwm, u)
      BY <1>1, SendMonKept
    <3> QED BY <1>1, <3>1, SendMonPlaced, KeptGood
  <2> HIDE DEF u
  <2>3. Placed(v) /\ v.mon = u.mon
    BY <2>2, SelmonPlaced
  <2>4. Floats(v)
    <3>1. SameWindows(u, v)
      BY <2>2 DEF Placed, State, SameWindows
    <3> HIDE DEF v
    <3> QED BY <2>2, <2>3, <3>1 DEF Good, Floats, SameWindows
  <2> HIDE DEF v
  <2>5. Good(t)
    BY <1>1, <2>3, <2>4, FocusAfter DEF Refocus
  <2>6. dwm' \in {dwm, t} /\ phase' = "run" /\ may' = may
    BY <2>1 DEF DragRelease, u, v
  <2> HIDE DEF t
  <2> QED BY <1>1, <2>5, <2>6 DEF FocusInv, Good
<1> QED BY <1>2, <1>3

LEMMA MonitorFocus ==
  ASSUME IInv, FocusInv, NEW m \in Range(dwm.mons), MonitorEvent(m)
  PROVE  FocusInv'
BY RootFocus, ClickBarFocus, DragFocus DEF MonitorEvent

LEMMA KeyFocus ==
  ASSUME IInv, FocusInv, TagKey \/ StackKey \/ MonKey \/ MoveStackCrash
  PROVE  FocusInv'
<1>1. Placed(dwm) /\ Good(dwm)
  BY DEF IInv, Shown, FocusInv, TagKey, StackKey, MonKey, MoveStackCrash, Handle
<1>2. ASSUME NEW dir PROVE Good(MoveStack(dwm, dir))
  BY <1>1, MoveStackKept, KeptGood
<1>3. PICK s, h : \/ Good(s) /\ Handle(h, s)
                  \/ MoveStackCrash
  <2>1. CASE TagKey
    BY <1>1, <2>1, ViewCommand, TagSelCommand, CommandGood DEF TagKey
  <2>2. CASE StackKey
    BY <1>1, <1>2, <2>2, ToggleGood, FocusStackCommand, ZoomCommand, CommandGood
       DEF StackKey
  <2>3. CASE MonKey
    BY <1>1, <2>3, MonCommand, CommandGood DEF MonKey
  <2> QED BY <2>1, <2>2, <2>3
<1>4. CASE MoveStackCrash
  BY <1>1, <1>4 DEF MoveStackCrash, FocusInv, Good
<1> QED BY <1>3, <1>4, HandleFocus

LEMMA KillStealFocus == ASSUME IInv, FocusInv, KillClient \/ FocusIn PROVE FocusInv'
<1> DEFINE c == dwm.sel[dwm.selmon]
<1>1. /\ Placed(dwm) /\ IsState(dwm) /\ Good(dwm) /\ c \in Client \cup {None}
      /\ dwm.live \in SUBSET Client /\ None \notin Client
  BY PlacedTypes, StateFields, ConstantsAssumption
     DEF IInv, Shown, FocusInv, KillClient, FocusIn, Handle, Placed, State
<1>2. CASE KillClient
  <2>1. c \in Client /\ Handle("kill", Vanish(dwm, c))
    BY <1>1, <1>2 DEF KillClient
  <2> QED BY <1>1, <2>1, FlagsGood, HandleFocus
<1>3. CASE FocusIn
  <2> DEFINE s == IF c \in {None, dwm.stolen} THEN dwm ELSE SetFocus(dwm, c)
             t == [s EXCEPT !.stolen = None]
  <2>1. /\ IsState(s) /\ SameWindows(dwm, s) /\ s.lit = dwm.lit /\ s.urgent = dwm.urgent
        /\ s.sel = dwm.sel /\ s.selmon = dwm.selmon /\ s.mon = dwm.mon
        /\ c \in dwm.live /\ ~s.refused => s.xfocus = c
    <3>1. CASE c \in {None, dwm.stolen}
      <4>1. c \in dwm.live /\ ~dwm.refused => dwm.xfocus = c
        <5>1. c \in dwm.live => c = dwm.stolen
          BY <1>1, <3>1
        <5> QED BY <1>1, <5>1 DEF Good, Keyed
      <4>2. s = dwm
        BY <3>1
      <4> QED BY <1>1, <4>1, <4>2 DEF SameWindows
    <3>2. CASE c \notin {None, dwm.stolen}
      <4>1. s = SetFocus(dwm, c)
        BY <3>2
      <4> HIDE DEF s, c
      <4>2. /\ IsState(s) /\ SameWindows(dwm, s) /\ s.lit = dwm.lit
            /\ s.urgent = dwm.urgent /\ s.sel = dwm.sel /\ s.selmon = dwm.selmon
            /\ s.mon = dwm.mon
        BY <1>1, <4>1, SetFocusFrame
      <4>3. c \in dwm.live /\ ~s.refused => s.xfocus = c
        BY <1>1, <4>1, SetFocusFrame
      <4> QED BY <4>2, <4>3
    <3> QED BY <3>1, <3>2
  <2> HIDE DEF s
  <2>2. /\ t.sel = dwm.sel /\ t.selmon = dwm.selmon /\ t.live = dwm.live /\ t.lit = dwm.lit
        /\ t.urgent = dwm.urgent /\ t.mon = dwm.mon /\ t.floating = dwm.floating
        /\ t.fullscreen = dwm.fullscreen /\ t.oldstate = dwm.oldstate
        /\ t.xfocus = s.xfocus /\ t.refused = s.refused
    BY <2>1 DEF IsState, SameWindows
  <2>3. dwm' = t /\ UNCHANGED <<phase, drag, may>> /\ phase = "run"
    BY <1>3 DEF FocusIn, s
  <2> HIDE DEF t
  <2>4. Keyed(t)
    BY <2>1, <2>2 DEF Keyed
  <2>5. Good(t)
    BY <1>1, <2>2, <2>4 DEF Good, Floats, Lit, LitSel
  <2> QED BY <2>3, <2>5 DEF FocusInv, Good
<1> QED BY <1>2, <1>3

LEMMA ScreensFocus == ASSUME IInv, FocusInv, ScreensChanged PROVE FocusInv'
<1>1. Placed(dwm) /\ Good(dwm) /\ "screens" \in may
  BY DEF IInv, Shown, FocusInv, ScreensChanged, Handle
<1>2. PICK s \in {dwm} \cup {AddMon(dwm, m) : m \in Monitor \ Range(dwm.mons)}
                       \cup (IF Len(dwm.mons) > 1 THEN {DropMon(dwm)} ELSE {}) :
        \E p \in Range(s.mons) :
          Handle("screens", Refocus([s EXCEPT !.selmon = p]))
  BY DEF ScreensChanged
<1>3. PICK p \in Range(s.mons) : Handle("screens", Refocus([s EXCEPT !.selmon = p]))
  BY <1>2
<1> DEFINE u == [s EXCEPT !.selmon = p]
<1>4. Placed(s)
  BY <1>1, AddMonPlaced, DropMonPlaced
<1>5. Placed(u) /\ u.mon = s.mon
  BY <1>4, SelmonPlaced
<1>6. /\ s.floating = dwm.floating /\ s.fullscreen = dwm.fullscreen
      /\ s.oldstate = dwm.oldstate
  <2>1. IsState(dwm)
    BY <1>1, StateFields DEF Placed
  <2>2. ASSUME NEW m
        PROVE  /\ IsState(CreateMon(dwm, m)) /\ SameWindows(dwm, CreateMon(dwm, m))
               /\ SameWindows(dwm, AddMon(dwm, m))
    BY <2>1 DEF AddMon, CreateMon, IsState, SameWindows
  <2>3. SameWindows(dwm, DropMon(dwm))
    <3> DEFINE v == CreateMon(dwm, Last(dwm.mons))
    <3>1. IsState(v) /\ SameWindows(dwm, v)
      BY <2>2
    <3>2. SameWindows(v, DropMon(dwm))
      BY <3>1 DEF DropMon, IsState, SameWindows
    <3> QED BY <3>1, <3>2 DEF SameWindows
  <2> QED BY <1>2, <2>2, <2>3 DEF SameWindows
<1>7. \A c \in Client : s.mon[c] # None <=> dwm.mon[c] # None
  <2>1. CASE s = dwm
    BY <2>1
  <2>2. CASE \E m \in Monitor \ Range(dwm.mons) : s = AddMon(dwm, m)
    BY <1>1, <2>2, AddMonPlaced
  <2>3. CASE s = DropMon(dwm) /\ Len(dwm.mons) > 1
    <3>1. \A c \in Client : s.mon[c] = IF dwm.mon[c] = Last(dwm.mons) THEN dwm.mons[1]
                                       ELSE dwm.mon[c]
      BY <1>1, <2>3 DEF Placed, State, DropMon, CreateMon
    <3>2. Last(dwm.mons) # None
      <4>1. Last(dwm.mons) \in Range(dwm.mons)
        BY <1>1, <2>3, MonsListed, ListsEnds
      <4> QED BY <1>1, <4>1, PlacedTypes, ConstantsAssumption
    <3>3. dwm.mons[1] # None
      <4>1. dwm.mons[1] \in Range(dwm.mons)
        BY <1>1, <2>3, MonsListed, ListsEnds
      <4> QED BY <1>1, <4>1, PlacedTypes, ConstantsAssumption
    <3> QED BY <3>1, <3>2, <3>3
  <2> QED BY <1>2, <2>1, <2>2, <2>3
<1>8. /\ u.floating = s.floating /\ u.fullscreen = s.fullscreen
      /\ u.oldstate = s.oldstate
  BY <1>4 DEF Placed, State
<1> HIDE DEF u
<1>9. Floats(u)
  BY <1>1, <1>5, <1>6, <1>7, <1>8 DEF Good, Floats
<1>10. Good(Refocus(u))
  BY <1>1, <1>5, <1>9, FocusAfter DEF Refocus
<1> QED BY <1>3, <1>10, HandleFocus DEF u

LEMMA QuitFocus == ASSUME IInv, FocusInv, Quit \/ Cleanup PROVE FocusInv'
<1>1. Placed(dwm) /\ Good(dwm)
  BY DEF IInv, Shown, FocusInv, Quit, Cleanup
<1>2. CASE Quit
  <2> DEFINE t == View(dwm, Bit)
  <2>1. Good(t)
    BY <1>1, ViewCommand, CommandGood
  <2>2. dwm' = t /\ phase' = "quit" /\ may' = may
    BY <1>2 DEF Quit
  <2> HIDE DEF t
  <2> QED BY <2>1, <2>2 DEF FocusInv, Good
<1>3. CASE Cleanup
  <2> DEFINE left == {i \in DOMAIN dwm.mons : dwm.stack[dwm.mons[i]] # << >>}
             m    == dwm.mons[Min(left)]
             c    == Head(dwm.stack[m])
  <2>1. CASE left = {}
    <3> DEFINE t == [dwm EXCEPT !.xfocus = None]
    <3>1. dwm' = t /\ phase' = "stopped" /\ may' = may
      BY <1>3, <2>1 DEF Cleanup
    <3>2. Managed(dwm) = {}
      <4>1. SUFFICES ASSUME NEW e \in Client, dwm.mon[e] # None PROVE FALSE
        BY DEF Managed
      <4>2. PICK i \in DOMAIN dwm.mons : dwm.mons[i] = dwm.mon[e]
        BY <1>1, <4>1 DEF Placed, Range
      <4>3. dwm.stack[dwm.mon[e]] = << >> /\ dwm.mon[e] \in Monitor
        BY <1>1, <2>1, <4>2, PlacedTypes DEF Range
      <4>4. Lists(dwm.stack[dwm.mon[e]], On(dwm, dwm.mon[e])) /\ e \in On(dwm, dwm.mon[e])
        BY <1>1, <4>3 DEF Placed, On
      <4> QED BY <4>3, <4>4 DEF Lists, Range
    <3>3. t.floating = dwm.floating /\ t.fullscreen = dwm.fullscreen
          /\ t.oldstate = dwm.oldstate /\ t.mon = dwm.mon /\ t.lit = dwm.lit
          /\ t.sel = dwm.sel /\ t.selmon = dwm.selmon /\ t.urgent = dwm.urgent
      BY <1>1 DEF Placed, State
    <3> HIDE DEF t
    <3> QED BY <1>1, <3>1, <3>2, <3>3 DEF FocusInv, Good, Floats, Lit, LitSel, Managed
  <2>2. CASE left # {}
    <3>1. c \in Client /\ dwm.mon[c] # None
      BY <1>1, <2>2, FirstLeft
    <3>2. dwm' = Unmanage(dwm, c) /\ phase' = phase /\ may' = may /\ phase = "quit"
      BY <1>3, <2>2 DEF Cleanup
    <3> HIDE DEF left, m, c
    <3> DEFINE t == Unmanage(dwm, c)
    <3>3. Good(t)
      BY <1>1, <3>1, UnmanageGood
    <3>4. dwm' = t
      BY <3>2
    <3> HIDE DEF t
    <3> QED BY <3>2, <3>3, <3>4 DEF FocusInv, Good
  <2> QED BY <2>1, <2>2
<1> QED BY <1>2, <1>3

LEMMA StepFocus == IInv /\ FocusInv /\ [Next]_vars => FocusInv'
<1> SUFFICES ASSUME IInv, FocusInv, [Next]_vars PROVE FocusInv'
  OBVIOUS
<1>1. CASE UNCHANGED vars
  BY <1>1 DEF FocusInv, Good, vars
<1>2. CASE Next
  BY <1>2, ClientFocus, MonitorFocus, KeyFocus, KillStealFocus, DragFocus,
     ScreensFocus, QuitFocus DEF Next
<1> QED BY <1>1, <1>2

----------------------------------------------------------------------------
(* The order of focus *)

\* From s to t, d comes before c on the focus list of m, which it came after.
Passes(s, t, m, c, d) ==
  /\ {c, d} \subseteq On(s, m) \cap On(t, m)
  /\ Before(s.stack[m], c, d) /\ Before(t.stack[m], d, c)

InOrder(s, t) ==
  \A m \in Monitor : \A c, d \in Client : ~ Passes(s, t, m, c, d)

\* Only the client selected afterwards passes others.
Raises(s, t) ==
  \A m \in Monitor : \A c, d \in Client :
    Passes(s, t, m, c, d) => d = t.sel[t.selmon]

\* FocusOrderKept, from one state to another.
History(s, t) ==
  \A m \in Monitor : \A c, d \in Client :
    Passes(s, t, m, c, d) /\ Visible(t, c)
    => d \in {t.sel[t.selmon], TopVisible(s, s.stack[m])}

LEMMA RaisesHistory ==
  ASSUME NEW s, NEW t, Raises(s, t) PROVE History(s, t)
BY DEF Raises, History

LEMMA PassesApart ==
  ASSUME NEW s, Placed(s), NEW m \in Monitor, NEW c \in On(s, m), NEW d \in On(s, m)
  PROVE  Before(s.stack[m], c, d) <=> ~ Before(s.stack[m], d, c) /\ c # d
<1>1. Lists(s.stack[m], On(s, m))
  BY DEF Placed
<1> QED BY <1>1, BeforeTotal

LEMMA SameStackInOrder ==
  ASSUME NEW s, Placed(s), NEW t, t.stack = s.stack
  PROVE  InOrder(s, t)
BY PassesApart DEF InOrder, Passes

\* What passes on the way from s to u passes before or after t.
LEMMA PassesThrough ==
  ASSUME NEW s, Placed(s), NEW t, Placed(t), NEW u, NEW m \in Monitor,
         NEW c \in On(t, m), NEW d \in On(t, m), Passes(s, u, m, c, d)
  PROVE  Passes(s, t, m, c, d) \/ Passes(t, u, m, c, d)
<1>1. c # d
  BY PassesApart DEF Passes
<1>2. Before(t.stack[m], c, d) \/ Before(t.stack[m], d, c)
  BY <1>1, PassesApart
<1> QED BY <1>2 DEF Passes

\* The first visible client of a list comes after no other visible one.
LEMMA TopVisibleBefore ==
  ASSUME NEW s, NEW S, NEW q, Lists(q, S), NEW c \in S, NEW d \in S,
         d = TopVisible(s, q), d # None, Before(q, c, d)
  PROVE  ~ Visible(s, c)
<1> DEFINE shown == {i \in DOMAIN q : Visible(s, q[i])}
           k     == IndexOf(q, c)
<1>1. k \in 1..Len(q) /\ q[k] = c /\ DOMAIN q = 1..Len(q) /\ Len(q) \in Nat
  BY IndexOfListed DEF Lists
<1>2. SUFFICES ASSUME Visible(s, c) PROVE FALSE
  OBVIOUS
<1>3. k \in shown /\ shown \in SUBSET Nat
  BY <1>1, <1>2
<1>4. d = q[Min(shown)]
  BY <1>3 DEF TopVisible
<1> HIDE DEF shown, k
<1>5. Min(shown) \in shown /\ Min(shown) =< k
  BY <1>3, MinExists
<1>6. Min(shown) \in 1..Len(q)
  BY <1>1, <1>5 DEF shown
<1>7. Before(q, q[k], q[Min(shown)]) <=> k < Min(shown)
  BY <1>1, <1>6, BeforeAt
<1> QED BY <1>1, <1>4, <1>5, <1>6, <1>7

\* focus() leaves the focus lists alone, or raises the client it selects.
LEMMA FocusStackIs ==
  ASSUME NEW s, Placed(s), NEW w, Focusable(s, w)
  PROVE  LET t == Focus(s, w)
         IN  /\ SameView(s, t)
             /\ \/ t.stack = s.stack
                \/ \E e \in Client :
                     /\ s.mon[e] \in Monitor /\ t.sel[t.selmon] = e
                     /\ t.stack = [s.stack EXCEPT ![s.mon[e]] = Cons(e, RemoveFirst(@, e))]
                     /\ w = None => e = TopVisible(s, s.stack[s.selmon])
<1> DEFINE c   == IF w # None /\ Visible(s, w) THEN w
                  ELSE TopVisible(s, s.stack[s.selmon])
           old == s.sel[s.selmon]
           s1  == IF old # c THEN Unfocus(s, old, FALSE) ELSE s
           s2  == [s1 EXCEPT !.selmon = s.mon[c], !.urgent = @ \ {c},
                             !.lit = @ \cup {c}]
           sd  == DetachStack(s2, c)
           sa  == AttachStack(sd, c)
           s4  == SetFocus(sa, c)
           t   == Focus(s, w)
<1>1. /\ IsState(s) /\ s.selmon \in Monitor /\ s.sel \in [Monitor -> Client \cup {None}]
      /\ s.stack \in [Monitor -> Seq(Client)]
  BY PlacedTypes, StateFields DEF Placed
<1>2. c = None \/ (c \in Client /\ s.mon[c] \in Monitor)
  <2>1. TopVisible(s, s.stack[s.selmon]) \in On(s, s.selmon) \cup {None}
    BY <1>1, TopVisibleListed DEF Placed
  <2>2. s.mon \in [Client -> Monitor \cup {None}]
    BY PlacedTypes
  <2> QED BY <1>1, <2>1, <2>2 DEF Focusable, On
<1>3. w = None => c = TopVisible(s, s.stack[s.selmon])
  OBVIOUS
<1> HIDE DEF c
<1>4. /\ IsState(s1) /\ SameView(s, s1) /\ s1.sel = s.sel /\ s1.stack = s.stack
      /\ s1.mon = s.mon
  BY <1>1 DEF Unfocus, IsState, SameView
<1>5. CASE c = None
  <2>1. t = [s1 EXCEPT !.xfocus = None, !.sel[s.selmon] = None]
    BY <1>5 DEF Focus, c, s1
  <2> HIDE DEF t, s1
  <2>2. SameView(s, t) /\ t.stack = s.stack
    BY <1>4, <2>1 DEF IsState, SameView
  <2> QED BY <2>2 DEF t
<1>6. CASE c # None
  <2>1. t = [s4 EXCEPT !.sel[s.mon[c]] = c]
    BY <1>6 DEF Focus, c, s1, s2, sd, sa, s4
  <2> HIDE DEF s1
  <2>2. /\ IsState(s2) /\ SameView(s, s2) /\ s2.stack = s.stack /\ s2.mon = s.mon
        /\ s2.sel = s.sel /\ s2.selmon = s.mon[c]
    BY <1>4 DEF IsState, SameView
  <2> HIDE DEF s2
  <2>3. /\ IsState(sd) /\ SameView(s, sd) /\ sd.mon = s.mon /\ sd.selmon = s.mon[c]
        /\ sd.stack = [s.stack EXCEPT ![s.mon[c]] = RemoveFirst(@, c)]
        /\ DOMAIN sd.sel = Monitor
    BY <1>1, <2>2 DEF DetachStack, IsState, SameView
  <2> HIDE DEF sd
  <2>4. /\ IsState(sa) /\ SameView(s, sa) /\ sa.mon = s.mon /\ sa.selmon = s.mon[c]
        /\ sa.sel = sd.sel
        /\ sa.stack = [sd.stack EXCEPT ![s.mon[c]] = Cons(c, @)]
    BY <2>3 DEF AttachStack, IsState, SameView
  <2> HIDE DEF sa
  <2>5. /\ IsState(s4) /\ SameView(s, s4) /\ s4.selmon = s.mon[c] /\ s4.sel = sd.sel
        /\ s4.stack = sa.stack
    BY <2>4 DEF SetFocus, IsState, SameView
  <2> HIDE DEF s4, t
  <2>6. /\ SameView(s, t) /\ t.stack = sa.stack /\ t.selmon = s.mon[c]
        /\ t.sel = [sd.sel EXCEPT ![s.mon[c]] = c]
    BY <2>1, <2>5 DEF IsState, SameView
  <2>7. t.sel[t.selmon] = c
    BY <1>2, <1>6, <2>3, <2>6
  <2>8. sa.stack = [s.stack EXCEPT ![s.mon[c]] = Cons(c, RemoveFirst(@, c))]
    BY <1>1, <1>2, <1>6, <2>3, <2>4
  <2> QED BY <1>2, <1>3, <1>6, <2>6, <2>7, <2>8 DEF t
<1> QED BY <1>5, <1>6

\* Only the client that focus() selects passes others; when it chooses that client,
\* the ones passed are hidden.
LEMMA FocusRaises ==
  ASSUME NEW s, Placed(s), NEW w, Focusable(s, w)
  PROVE  LET t == Focus(s, w)
         IN  /\ SameView(s, t) /\ t.mon = s.mon /\ Placed(t) /\ Raises(s, t)
             /\ w = None => \A m \in Monitor : \A c, d \in Client :
                  Passes(s, t, m, c, d)
                  => d = TopVisible(s, s.stack[m]) /\ ~ Visible(s, c)
<1> DEFINE t == Focus(s, w)
<1>1. SameView(s, t) /\ t.mon = s.mon /\ Placed(t)
  BY FocusPlaced, FocusStackIs
<1>2. \/ t.stack = s.stack
      \/ \E e \in Client :
           /\ s.mon[e] \in Monitor /\ t.sel[t.selmon] = e
           /\ t.stack = [s.stack EXCEPT ![s.mon[e]] = Cons(e, RemoveFirst(@, e))]
           /\ w = None => e = TopVisible(s, s.stack[s.selmon])
  BY FocusStackIs
<1> HIDE DEF t
<1>3. ASSUME NEW m \in Monitor, NEW c \in Client, NEW d \in Client, Passes(s, t, m, c, d)
      PROVE  /\ d = t.sel[t.selmon]
             /\ w = None => d = TopVisible(s, s.stack[m]) /\ ~ Visible(s, c)
  <2>1. c \in On(s, m) /\ d \in On(s, m) /\ Lists(s.stack[m], On(s, m))
        /\ Before(s.stack[m], c, d) /\ Before(t.stack[m], d, c)
    BY <1>3 DEF Passes, Placed
  <2>2. ~ Before(s.stack[m], d, c)
    BY <2>1, PassesApart
  <2>3. t.stack # s.stack
    BY <2>1, <2>2
  <2>4. PICK e \in Client :
          /\ s.mon[e] \in Monitor /\ t.sel[t.selmon] = e
          /\ t.stack = [s.stack EXCEPT ![s.mon[e]] = Cons(e, RemoveFirst(@, e))]
          /\ w = None => e = TopVisible(s, s.stack[s.selmon])
    BY <1>2, <2>3
  <2>5. s.mon[e] = m /\ t.stack[m] = Cons(e, RemoveFirst(s.stack[m], e))
    <3>1. s.stack \in [Monitor -> Seq(Client)]
      BY PlacedTypes
    <3>2. s.mon[e] # m => t.stack[m] = s.stack[m]
      BY <2>4, <3>1
    <3> QED BY <2>1, <2>2, <2>4, <3>1, <3>2
  <2>6. e \in On(s, m)
    BY <2>5 DEF On
  <2>7. d = e
    BY <2>1, <2>5, <2>6, BeforeRaise
  <2>8. ASSUME w = None PROVE d = TopVisible(s, s.stack[m]) /\ ~ Visible(s, c)
    <3>1. s.selmon \in Monitor /\ Lists(s.stack[s.selmon], On(s, s.selmon))
      BY PlacedTypes DEF Placed
    <3>2. e = TopVisible(s, s.stack[s.selmon]) /\ e # None
      BY <2>4, <2>8, ConstantsAssumption
    <3>3. e \in On(s, s.selmon)
      BY <3>1, <3>2, TopVisibleListed
    <3>4. s.selmon = m
      BY <2>5, <3>3 DEF On
    <3> QED BY <2>1, <2>7, <3>2, <3>4, TopVisibleBefore
  <2> QED BY <2>4, <2>7, <2>8
<1> QED BY <1>1, <1>3 DEF Raises, t

\* A step that lets none pass, then a call of focus().
LEMMA FocusAfterRaises ==
  ASSUME NEW s, Placed(s), NEW x, Placed(x), InOrder(s, x), NEW w, Focusable(x, w)
  PROVE  Raises(s, Focus(x, w))
<1> DEFINE t == Focus(x, w)
<1>1. t.mon = x.mon /\ Raises(x, t)
  BY FocusRaises
<1> HIDE DEF t
<1>2. ASSUME NEW m \in Monitor, NEW c \in Client, NEW d \in Client, Passes(s, t, m, c, d)
      PROVE  d = t.sel[t.selmon]
  <2>1. c \in On(x, m) /\ d \in On(x, m)
    BY <1>1, <1>2 DEF Passes, On
  <2>2. Passes(x, t, m, c, d)
    BY <1>2, <2>1, PassesThrough DEF InOrder
  <2> QED BY <1>1, <2>2 DEF Raises
<1> QED BY <1>2 DEF Raises, t

LEMMA SelectMonRaises ==
  ASSUME NEW s, Placed(s), NEW m \in Range(s.mons), NEW w, Focusable(s, w),
         NEW b \in BOOLEAN
  PROVE  LET t == SelectMon(s, m, w, b)
         IN  /\ Placed(t) /\ t.mon = s.mon /\ Raises(s, t)
             /\ w = None => \A n \in Monitor : \A c, d \in Client :
                  Passes(s, t, n, c, d) => d = TopVisible(s, s.stack[n])
<1> DEFINE u == Unfocus(s, s.sel[s.selmon], b)
           v == [u EXCEPT !.selmon = m]
           t == Focus(v, w)
<1>1. /\ Placed(u) /\ SamePlaces(s, u) /\ SameView(s, u)
  BY PlacedTypes, UnfocusPlaced
<1> HIDE DEF u
<1>2. Placed(v) /\ v.mon = s.mon
  BY <1>1, SelmonPlaced DEF SamePlaces
<1>3. v.stack = s.stack /\ SameView(s, v)
  BY <1>1 DEF Placed, State, SamePlaces, SameView
<1> HIDE DEF v
<1>4. Focusable(v, w)
  BY <1>2 DEF Focusable
<1>5. InOrder(s, v)
  BY <1>3, SameStackInOrder
<1>6. /\ Placed(t) /\ t.mon = v.mon
      /\ w = None => \A n \in Monitor : \A c, d \in Client :
           Passes(v, t, n, c, d) => d = TopVisible(v, v.stack[n]) /\ ~ Visible(v, c)
  BY <1>2, <1>4, FocusRaises
<1>7. Raises(s, t)
  BY <1>2, <1>4, <1>5, FocusAfterRaises
<1>8. \A n \in Monitor : TopVisible(v, v.stack[n]) = TopVisible(s, s.stack[n])
  BY <1>2, <1>3, TopVisibleFrame
<1> HIDE DEF t
<1>9. ASSUME w = None, NEW n \in Monitor, NEW c \in Client, NEW d \in Client,
             Passes(s, t, n, c, d)
      PROVE  d = TopVisible(s, s.stack[n])
  <2>1. Passes(v, t, n, c, d)
    BY <1>2, <1>3, <1>9 DEF Passes, On
  <2> QED BY <1>6, <1>8, <1>9, <2>1
<1>10. SelectMon(s, m, w, b) = t
  BY DEF SelectMon, t, v, u
<1> QED BY <1>2, <1>6, <1>7, <1>9, <1>10

\* Lists that lose one client and get another let none pass.
LEMMA EditInOrder ==
  ASSUME NEW s, Placed(s), NEW x, NEW e \in Client,
         \A m \in Monitor :
           \/ x.stack[m] = s.stack[m]
           \/ x.stack[m] = RemoveFirst(s.stack[m], e) /\ s.mon[e] = m /\ x.mon[e] # m
           \/ x.stack[m] = Cons(e, s.stack[m]) /\ s.mon[e] # m
  PROVE  InOrder(s, x)
<1> SUFFICES ASSUME NEW m \in Monitor, NEW c \in Client, NEW d \in Client,
                    Passes(s, x, m, c, d)
             PROVE  FALSE
  BY DEF InOrder
<1>1. /\ c \in On(s, m) /\ d \in On(s, m) /\ c \in On(x, m) /\ d \in On(x, m)
      /\ Lists(s.stack[m], On(s, m))
      /\ Before(s.stack[m], c, d) /\ Before(x.stack[m], d, c)
  BY DEF Passes, Placed
<1>2. ~ Before(s.stack[m], d, c)
  BY <1>1, PassesApart
<1>3. CASE x.stack[m] = RemoveFirst(s.stack[m], e) /\ s.mon[e] = m /\ x.mon[e] # m
  <2>1. e \in On(s, m) /\ c # e /\ d # e
    BY <1>1, <1>3 DEF On
  <2>2. Before(RemoveFirst(s.stack[m], e), d, c) <=> Before(s.stack[m], d, c)
    BY <1>1, <2>1, BeforeRemove
  <2> QED BY <1>1, <1>2, <1>3, <2>2
<1>4. CASE x.stack[m] = Cons(e, s.stack[m]) /\ s.mon[e] # m
  <2>1. e \notin On(s, m)
    BY <1>4 DEF On
  <2>2. Before(Cons(e, s.stack[m]), d, c) <=> Before(s.stack[m], d, c)
    BY <1>1, <2>1, BeforeCons
  <2> QED BY <1>1, <1>2, <1>4, <2>2
<1> QED BY <1>1, <1>2, <1>3, <1>4

LEMMA SentInOrder ==
  ASSUME NEW s, Placed(s), NEW c \in Client, s.mon[c] # None,
         NEW m \in Range(s.mons), s.mon[c] # m
  PROVE  InOrder(s, Sent(s, c, m))
<1> DEFINE u == Unfocus(s, c, TRUE)
           a == Detach(u, c)
           d == DetachStack(a, c)
           w == [d EXCEPT !.mon[c] = m, !.tags[c] = ViewOf(s, m)]
           y == AttachBottom(w, c)
           x == AttachStack(y, c)
           k == s.mon[c]
<1>1. /\ IsState(s) /\ k \in Monitor /\ m \in Monitor
      /\ s.stack \in [Monitor -> Seq(Client)] /\ s.mon \in [Client -> Monitor \cup {None}]
  BY PlacedTypes, StateFields DEF Placed
<1> HIDE DEF k
<1>2. IsState(u) /\ u.stack = s.stack /\ u.mon = s.mon
  BY <1>1 DEF Unfocus, IsState
<1> HIDE DEF u
<1>3. IsState(a) /\ a.stack = s.stack /\ a.mon = s.mon
  BY <1>2 DEF Detach, IsState
<1> HIDE DEF a
<1>4. /\ IsState(d) /\ d.mon = s.mon
      /\ d.stack = [s.stack EXCEPT ![k] = RemoveFirst(@, c)]
  BY <1>3 DEF DetachStack, IsState, k
<1> HIDE DEF d
<1>5. IsState(w) /\ w.stack = d.stack /\ w.mon = [s.mon EXCEPT ![c] = m]
  BY <1>4 DEF IsState
<1> HIDE DEF w
<1>6. IsState(y) /\ y.stack = d.stack /\ y.mon = w.mon
  BY <1>5 DEF AttachBottom, IsState
<1> HIDE DEF y
<1>7. w.mon[c] = m
  BY <1>1, <1>5
<1>8. x.stack = [d.stack EXCEPT ![m] = Cons(c, @)] /\ x.mon = w.mon
  BY <1>6, <1>7 DEF AttachStack, IsState
<1>9. Sent(s, c, m) = x
  BY DEF Sent, x, y, w, d, a, u
<1> HIDE DEF x
<1>10. k # m /\ x.mon[c] # k /\ s.mon[c] = k /\ s.mon[c] # m
  BY <1>7, <1>8 DEF k
<1>11. ASSUME NEW n \in Monitor
       PROVE  \/ x.stack[n] = s.stack[n]
              \/ x.stack[n] = RemoveFirst(s.stack[n], c) /\ s.mon[c] = n /\ x.mon[c] # n
              \/ x.stack[n] = Cons(c, s.stack[n]) /\ s.mon[c] # n
  <2>1. CASE n = k
    BY <1>1, <1>4, <1>8, <1>10, <2>1
  <2>2. CASE n = m
    BY <1>1, <1>4, <1>8, <1>10, <2>2
  <2>3. CASE n # k /\ n # m
    BY <1>1, <1>4, <1>8, <1>10, <2>3
  <2> QED BY <2>1, <2>2, <2>3
<1>12. InOrder(s, x)
  BY <1>11, EditInOrder
<1> QED BY <1>9, <1>12

LEMMA UnmappedInOrder ==
  ASSUME NEW s, Placed(s), NEW c \in Client, s.mon[c] # None
  PROVE  InOrder(s, Unmapped(s, c))
<1> DEFINE k == s.mon[c]
           a == Detach(s, c)
           d == DetachStack(a, c)
           x == Free(d, c)
<1>1. /\ IsState(s) /\ k \in Monitor /\ k # None
      /\ s.stack \in [Monitor -> Seq(Client)] /\ s.mon \in [Client -> Monitor \cup {None}]
  BY PlacedTypes, StateFields DEF Placed
<1> HIDE DEF k
<1>2. IsState(a) /\ a.stack = s.stack /\ a.mon = s.mon
  BY <1>1 DEF Detach, IsState
<1> HIDE DEF a
<1>3. /\ IsState(d) /\ d.mon = s.mon
      /\ d.stack = [s.stack EXCEPT ![k] = RemoveFirst(@, c)]
  BY <1>2 DEF DetachStack, IsState, k
<1> HIDE DEF d
<1>4. x.stack = d.stack /\ x.mon = [s.mon EXCEPT ![c] = None]
  BY <1>3 DEF Free, IsState
<1> HIDE DEF x
<1>5. x.mon[c] # k /\ s.mon[c] = k
  BY <1>1, <1>4 DEF k
<1>6. \A n \in Monitor :
        \/ x.stack[n] = s.stack[n]
        \/ x.stack[n] = RemoveFirst(s.stack[n], c) /\ s.mon[c] = n /\ x.mon[c] # n
        \/ x.stack[n] = Cons(c, s.stack[n]) /\ s.mon[c] # n
  BY <1>1, <1>3, <1>4, <1>5
<1>7. InOrder(s, x)
  BY <1>6, EditInOrder
<1> QED BY <1>7 DEF Unmapped, x, d, a

LEMMA MappedInOrder ==
  ASSUME NEW s, Placed(s), NEW c \in Client, s.mon[c] = None, NEW urg \in BOOLEAN,
         NEW deaf \in BOOLEAN
  PROVE  InOrder(s, Mapped(s, c, urg, deaf))
<1> DEFINE h       == Hints[c]
           trans   == h.parent \in Managed(s)
           m       == IF trans THEN s.mon[h.parent] ELSE s.selmon
           tags    == IF trans THEN s.tags[h.parent]
                      ELSE IF TagMask(h.ruletags) # {} THEN TagMask(h.ruletags)
                      ELSE ViewOf(s, m)
           ruled   == ~trans /\ h.rulefloat
           typed   == ruled \/ h.fullscreen \/ h.dialog
           default == h.parent # None \/ h.fixed
           g == UpdateWmHints(s, c, urg, deaf)
           u == [g EXCEPT
                  !.mon[c] = m, !.tags[c] = tags, !.live = @ \cup {c},
                  !.floating   = IF typed \/ default THEN @ \cup {c} ELSE @,
                  !.fullscreen = IF h.fullscreen THEN @ \cup {c} ELSE @,
                  !.oldstate   = IF \/ h.fullscreen /\ ruled
                                    \/ ~typed /\ default
                                 THEN @ \cup {c} ELSE @]
           y == AttachBottom(u, c)
           v == AttachStack(y, c)
           w == IF m = s.selmon THEN Unfocus(v, s.sel[m], FALSE) ELSE v
           x == [w EXCEPT !.sel[m] = c]
<1>1. /\ IsState(s) /\ s.stack \in [Monitor -> Seq(Client)]
      /\ s.mon \in [Client -> Monitor \cup {None}]
  BY PlacedTypes, StateFields DEF Placed
<1>2. m \in Monitor /\ m # None
  BY PlacedTypes, ConstantsAssumption DEF Managed
<1>3. Mapped(s, c, urg, deaf) = x
  BY DEF Mapped
<1> HIDE DEF m
<1>g. IsState(g) /\ g.stack = s.stack /\ g.mon = s.mon
  BY HintsRead, StateFields DEF Placed, SamePlaces
<1>4. IsState(u) /\ u.stack = s.stack /\ u.mon = [s.mon EXCEPT ![c] = m]
  <2> HIDE DEF g, tags, h, ruled, typed, default
  <2> QED BY <1>g DEF IsState
<1> HIDE DEF u
<1>5. IsState(y) /\ y.stack = s.stack /\ y.mon = u.mon
  BY <1>4 DEF AttachBottom, IsState
<1> HIDE DEF y
<1>6. u.mon[c] = m
  BY <1>1, <1>4
<1>7. IsState(v) /\ v.stack = [s.stack EXCEPT ![m] = Cons(c, @)]
  BY <1>5, <1>6 DEF AttachStack, IsState
<1> HIDE DEF v
<1>8. IsState(w) /\ w.stack = v.stack
  BY <1>7 DEF Unfocus, IsState
<1> HIDE DEF w
<1>9. x.stack = v.stack
  BY <1>8 DEF IsState
<1> HIDE DEF x
<1>10. \A n \in Monitor :
        \/ x.stack[n] = s.stack[n]
        \/ x.stack[n] = RemoveFirst(s.stack[n], c) /\ s.mon[c] = n /\ x.mon[c] # n
        \/ x.stack[n] = Cons(c, s.stack[n]) /\ s.mon[c] # n
  BY <1>1, <1>2, <1>7, <1>9, ConstantsAssumption
<1>11. InOrder(s, x)
  BY <1>10, EditInOrder
<1> QED BY <1>3, <1>11

LEMMA DropMonInOrder ==
  ASSUME NEW s, Placed(s), Len(s.mons) > 1
  PROVE  InOrder(s, DropMon(s))
<1> DEFINE m     == Last(s.mons)
           first == s.mons[1]
           moved == Reverse(s.clients[m])
           q     == s.stack[first]
           both  == On(s, m) \cup On(s, first)
           u     == CreateMon(s, m)
           t     == DropMon(s)
<1>1. m \in Monitor /\ first \in Monitor /\ m # first
  BY MonsListed, ListsEnds, PlacedTypes
<1>2. /\ s.stack \in [Monitor -> Seq(Client)] /\ s.mon \in [Client -> Monitor \cup {None}]
      /\ IsState(s)
  BY PlacedTypes, StateFields DEF Placed
<1>3. IsState(u) /\ u.stack = s.stack /\ u.mon = s.mon /\ u.mons = s.mons
      /\ u.clients = s.clients
  BY <1>2 DEF CreateMon, IsState
<1>4. /\ t.stack = [s.stack EXCEPT ![m] = << >>, ![first] = moved \o @]
      /\ t.mon = [c \in Client |-> IF s.mon[c] = m THEN first ELSE s.mon[c]]
  <2>1. t = [u EXCEPT
               !.mons    = Front(@),
               !.selmon  = IF @ = m THEN first ELSE @,
               !.clients[m] = << >>, !.clients[first] = moved \o @,
               !.stack[m]   = << >>, !.stack[first]   = moved \o @,
               !.sel[m]  = None,
               !.mon     = [c \in Client |-> IF @[c] = m THEN first ELSE @[c]]]
    BY DEF DropMon
  <2> HIDE DEF t, u, m, first, moved
  <2> QED BY <1>3, <2>1 DEF IsState
<1>5. Lists(s.clients[m], On(s, m)) /\ Lists(q, On(s, first))
  BY <1>1 DEF Placed
<1>6. On(s, m) \cap On(s, first) = {}
  BY <1>1 DEF On
<1>7. Lists(moved \o q, both)
  <2> HIDE DEF q, m, first
  <2> QED BY <1>5, <1>6, ListsPrepend
<1>8. moved \in Seq(both)
  <2>1. s.clients[m] \in Seq(both)
    BY <1>5, SeqMonotonic DEF Lists
  <2> HIDE DEF m, both
  <2> QED BY <2>1 DEF Reverse
<1> HIDE DEF t, m, moved
<1>9. /\ t.stack[first] = moved \o q
      /\ \A n \in Monitor : n # first /\ n # m => t.stack[n] = s.stack[n]
  BY <1>1, <1>2, <1>4
<1>10. ASSUME NEW n \in Monitor, NEW c \in Client, NEW d \in Client, Passes(s, t, n, c, d)
       PROVE  FALSE
  <2>1. /\ c \in On(s, n) /\ d \in On(s, n) /\ c \in On(t, n)
        /\ Before(s.stack[n], c, d) /\ Before(t.stack[n], d, c)
    BY <1>10 DEF Passes
  <2>2. ~ Before(s.stack[n], d, c)
    BY <2>1, PassesApart
  <2>3. n # m
    BY <1>1, <1>4, <2>1 DEF On
  <2>4. n = first
    BY <1>9, <2>1, <2>2, <2>3
  <2>5. Before(moved \o q, d, c) <=> Before(q, d, c)
    <3>1. d \in On(s, first) /\ c \in On(s, first) /\ On(s, first) \in SUBSET both
      BY <2>1, <2>4
    <3> HIDE DEF q, both, first
    <3> QED BY <1>5, <1>7, <1>8, <3>1, BeforeConcat
  <2> QED BY <1>9, <2>1, <2>2, <2>4, <2>5
<1> QED BY <1>10 DEF InOrder, t

LEMMA CommandRaises ==
  ASSUME NEW s, Placed(s), NEW t, Command(s, t)
  PROVE  Raises(s, t)
<1>1. ASSUME t.stack = s.stack PROVE Raises(s, t)
  BY <1>1, SameStackInOrder DEF InOrder, Raises
<1>2. CASE \E w : Focusable(s, w) /\ t = Focus(s, w)
  BY <1>2, FocusRaises
<1>3. CASE \E u \in State : /\ SamePlaces(s, u) /\ SameWindows(s, u) /\ SameFocus(s, u)
                            /\ t = Refocus(u)
  <2>1. PICK u \in State : SamePlaces(s, u) /\ t = Refocus(u)
    BY <1>3
  <2>2. Placed(u) /\ InOrder(s, u)
    BY <2>1, PlacedFrame, SameStackInOrder DEF SamePlaces
  <2> QED BY <2>1, <2>2, FocusAfterRaises DEF Refocus, Focusable
<1>4. CASE \E c \in Client : s.mon[c] # None /\ t = Pop(s, c)
  <2>1. PICK c \in Client : s.mon[c] # None /\ t = Pop(s, c)
    BY <1>4
  <2> DEFINE x == Attach(Detach(s, c), c)
  <2>2. Placed(x) /\ x.mon = s.mon /\ x.stack = s.stack
    BY <2>1, PopPlaces
  <2>3. t = Focus(x, c)
    BY <2>1 DEF Pop
  <2> HIDE DEF x
  <2>4. InOrder(s, x) /\ Focusable(x, c)
    BY <2>1, <2>2, SameStackInOrder DEF Focusable
  <2> QED BY <2>2, <2>3, <2>4, FocusAfterRaises
<1>5. CASE \E c \in Client, m \in Range(s.mons) : s.mon[c] # None /\ t = SendMon(s, c, m)
  <2>1. PICK c \in Client, m \in Range(s.mons) : s.mon[c] # None /\ t = SendMon(s, c, m)
    BY <1>5
  <2>2. CASE s.mon[c] = m
    BY <1>1, <2>1, <2>2 DEF SendMon
  <2>3. CASE s.mon[c] # m
    <3> DEFINE x == Sent(s, c, m)
    <3>1. t = Focus(x, None)
      BY <2>1, <2>3 DEF SendMon
    <3>2. Placed(x) /\ InOrder(s, x)
      BY <2>1, <2>3, SendMonPlaces, SentInOrder
    <3> HIDE DEF x
    <3> QED BY <3>1, <3>2, FocusAfterRaises DEF Focusable
  <2> QED BY <2>2, <2>3
<1>6. CASE \E m \in Range(s.mons) : t = SelectMon(s, m, None, FALSE)
  BY <1>6, SelectMonRaises DEF Focusable
<1>7. CASE \E dir : t = MoveStack(s, dir)
  <2>1. IsState(s)
    BY StateFields DEF Placed
  <2>2. t.stack = s.stack
    BY <1>7, <2>1 DEF MoveStack, IsState
  <2> QED BY <1>1, <2>2
<1>8. CASE t = s
  BY <1>1, <1>8
<1> QED BY <1>2, <1>3, <1>4, <1>5, <1>6, <1>7, <1>8 DEF Command

LEMMA UnmanageRaises ==
  ASSUME NEW s, Placed(s), NEW c \in Client, s.mon[c] # None
  PROVE  Raises(s, Unmanage(s, c))
<1> DEFINE x == Unmapped(s, c)
<1>1. Placed(x) /\ InOrder(s, x)
  BY UnmappedPlaced, UnmappedInOrder
<1> HIDE DEF x
<1> QED BY <1>1, FocusAfterRaises DEF Unmanage, Focusable, x

LEMMA ManageRaises ==
  ASSUME NEW s, Placed(s), NEW c \in Client, s.mon[c] = None, NEW urg \in BOOLEAN,
         NEW deaf \in BOOLEAN
  PROVE  Raises(s, Manage(s, c, urg, deaf))
<1> DEFINE x == Mapped(s, c, urg, deaf)
<1>1. Placed(x) /\ InOrder(s, x)
  BY MappedPlaced, MappedInOrder
<1> HIDE DEF x
<1> QED BY <1>1, FocusAfterRaises DEF Manage, Focusable, x

----------------------------------------------------------------------------
(* Every step keeps the order of focus *)

LEMMA SameStackHistory ==
  ASSUME NEW s, Placed(s), NEW t, t.stack = s.stack
  PROVE  History(s, t)
BY SameStackInOrder DEF InOrder, History

\* Two calls of focus(): the first raises the client that a monitor showed.
LEMMA RaisesTwice ==
  ASSUME NEW s, Placed(s), NEW u, Placed(u), u.mon = s.mon, NEW t, Raises(u, t),
         \A n \in Monitor : \A c, d \in Client :
           Passes(s, u, n, c, d) => d = TopVisible(s, s.stack[n])
  PROVE  History(s, t)
<1> SUFFICES ASSUME NEW m \in Monitor, NEW c \in Client, NEW d \in Client,
                    Passes(s, t, m, c, d)
             PROVE  d \in {t.sel[t.selmon], TopVisible(s, s.stack[m])}
  BY DEF History
<1>1. c \in On(u, m) /\ d \in On(u, m)
  BY DEF Passes, On
<1>2. Passes(s, u, m, c, d) \/ Passes(u, t, m, c, d)
  BY <1>1, PassesThrough
<1> QED BY <1>2 DEF Raises

LEMMA ClickedMonOrder ==
  ASSUME IInv, NEW m \in Range(dwm.mons)
  PROVE  LET u == ClickedMon(m)
         IN  /\ Placed(dwm) /\ Placed(u) /\ u.mon = dwm.mon
             /\ \A n \in Monitor : \A c, d \in Client :
                  Passes(dwm, u, n, c, d) => d = TopVisible(dwm, dwm.stack[n])
             /\ Raises(dwm, u)
<1> DEFINE u == ClickedMon(m)
<1>1. Placed(dwm)
  BY DEF IInv, Shown
<1>2. CASE m = dwm.selmon
  <2>1. u = dwm
    BY <1>2 DEF ClickedMon
  <2>2. InOrder(dwm, dwm)
    BY <1>1, SameStackInOrder
  <2> QED BY <1>1, <2>1, <2>2 DEF InOrder, Raises
<1>3. CASE m # dwm.selmon
  <2>1. u = SelectMon(dwm, m, None, TRUE)
    BY <1>3 DEF ClickedMon
  <2> HIDE DEF u
  <2>2. /\ Placed(u) /\ u.mon = dwm.mon /\ Raises(dwm, u)
        /\ \A n \in Monitor : \A c, d \in Client :
             Passes(dwm, u, n, c, d) => d = TopVisible(dwm, dwm.stack[n])
    BY <1>1, <2>1, SelectMonRaises DEF Focusable
  <2> QED BY <1>1, <2>2 DEF u
<1> QED BY <1>2, <1>3

LEMMA ToggleRaises ==
  ASSUME NEW s, NEW u, Raises(s, u), IsState(u)
  PROVE  Raises(s, ToggleFloating(u))
<1> DEFINE t == ToggleFloating(u)
<1>1. t.stack = u.stack /\ t.sel = u.sel /\ t.selmon = u.selmon /\ t.mon = u.mon
  BY DEF ToggleFloating, IsState
<1> HIDE DEF t
<1>2. Raises(s, t)
  BY <1>1 DEF Raises, Passes, On
<1> QED BY <1>2 DEF t

LEMMA PointerOrder ==
  ASSUME IInv, NEW c \in Managed(dwm),
         EnterNotify(c, dwm.mon[c]) \/ ClickClient(c) \/ DragStart(c)
  PROVE  History(dwm, dwm')
<1> DEFINE m == dwm.mon[c]
           u == ClickedMon(m)
           s == Focus(u, c)
<1>1. c \in Client /\ m # None /\ m \in Range(dwm.mons) /\ Placed(dwm)
  BY ManagedFacts
<1>2. /\ Placed(u) /\ u.mon = dwm.mon
      /\ \A n \in Monitor : \A e, d \in Client :
           Passes(dwm, u, n, e, d) => d = TopVisible(dwm, dwm.stack[n])
  BY <1>1, ClickedMonOrder
<1> HIDE DEF u
<1>3. Placed(s) /\ Raises(u, s)
  BY <1>1, <1>2, FocusRaises DEF Focusable
<1> HIDE DEF s
<1>4. CASE EnterNotify(c, m)
  <2> DEFINE v == IF m # dwm.selmon THEN SelectMon(dwm, m, c, TRUE)
                  ELSE IF c \in {None, dwm.sel[m]} THEN dwm ELSE Focus(dwm, c)
  <2>1. Focusable(dwm, c)
    BY <1>1 DEF Focusable
  <2>2. Raises(dwm, SelectMon(dwm, m, c, TRUE)) /\ Raises(dwm, Focus(dwm, c))
    BY <1>1, <2>1, SelectMonRaises, FocusRaises
  <2>3. dwm' = v
    BY <1>4 DEF EnterNotify, Handle
  <2> QED BY <1>1, <2>2, <2>3, RaisesHistory, SameStackHistory
<1>5. CASE ClickClient(c) \/ DragStart(c)
  <2>1. dwm' = s \/ dwm' = ToggleFloating(s)
    BY <1>5 DEF ClickClient, DragStart, Handle, s, u
  <2>2. Raises(u, ToggleFloating(s))
    BY <1>3, StateFields, ToggleRaises DEF Placed
  <2>3. Raises(u, dwm')
    BY <1>3, <2>1, <2>2
  <2> QED BY <1>1, <1>2, <2>3, RaisesTwice
<1> QED BY <1>4, <1>5

\* The handlers that change flags, the input focus or nothing.
LEMMA StillOrder ==
  ASSUME IInv, NEW c,
         \/ ClientMessage(c) \/ PropertyNotify(c) \/ Steal(c) \/ Withdraw(c)
         \/ KillClient \/ FocusIn \/ DragMotion \/ MoveStackCrash
  PROVE  History(dwm, dwm')
<1>1. Placed(dwm) /\ IsState(dwm)
  BY StateFields DEF IInv, Shown, Placed
<1>2. \A e, on : /\ Vanish(dwm, e).stack = dwm.stack
                 /\ SetFullscreen(dwm, e, on).stack = dwm.stack
                 /\ IsState(SetFocus(dwm, e)) /\ SetFocus(dwm, e).stack = dwm.stack
                 /\ \A urg, deaf : UpdateWmHints(dwm, e, urg, deaf).stack = dwm.stack
  BY <1>1 DEF Vanish, SetFullscreen, SetFocus, UpdateWmHints, IsState
<1>3. ToggleFloating(dwm).stack = dwm.stack
  BY <1>1 DEF ToggleFloating, IsState
<1>4. dwm'.stack = dwm.stack
  <2>1. CASE ClientMessage(c) \/ PropertyNotify(c) \/ Steal(c)
    <3>1. CASE ClientMessage(c)
      BY <1>1, <1>2, <3>1 DEF ClientMessage, Handle, IsState
    <3>2. CASE PropertyNotify(c)
      BY <1>1, <1>2, <3>2 DEF PropertyNotify, Handle, IsState
    <3>3. CASE Steal(c)
      BY <1>1, <3>3 DEF Steal, Handle, IsState
    <3> QED BY <2>1, <3>1, <3>2, <3>3
  <2>2. CASE Withdraw(c) \/ KillClient
    BY <1>2, <2>2 DEF Withdraw, KillClient, Handle
  <2>3. CASE FocusIn
    <3> DEFINE e == dwm.sel[dwm.selmon]
               s == IF e \in {None, dwm.stolen} THEN dwm ELSE SetFocus(dwm, e)
    <3>1. dwm' = [s EXCEPT !.stolen = None]
      BY <2>3 DEF FocusIn
    <3>2. IsState(s) /\ s.stack = dwm.stack
      BY <1>1, <1>2
    <3> HIDE DEF s
    <3> QED BY <3>1, <3>2 DEF IsState
  <2>4. CASE DragMotion \/ MoveStackCrash
    BY <1>3, <2>4 DEF DragMotion, MoveStackCrash
  <2> QED BY <2>1, <2>2, <2>3, <2>4
<1> QED BY <1>1, <1>4, SameStackHistory

LEMMA MonitorOrder ==
  ASSUME IInv, NEW m \in Range(dwm.mons),
         EnterNotify(None, m) \/ MotionNotify(m) \/ ClickBar(m)
  PROVE  History(dwm, dwm')
<1> DEFINE u == ClickedMon(m)
<1>1. /\ Placed(dwm) /\ Placed(u) /\ u.mon = dwm.mon /\ Raises(dwm, u)
      /\ \A n \in Monitor : \A e, d \in Client :
           Passes(dwm, u, n, e, d) => d = TopVisible(dwm, dwm.stack[n])
  BY ClickedMonOrder
<1>2. Raises(dwm, SelectMon(dwm, m, None, TRUE)) /\ Placed(SelectMon(dwm, m, None, TRUE))
  BY <1>1, SelectMonRaises DEF Focusable
<1>3. CASE EnterNotify(None, m)
  <2>1. dwm' = SelectMon(dwm, m, None, TRUE) \/ dwm' = dwm
    BY <1>3 DEF EnterNotify, Handle
  <2> QED BY <1>1, <1>2, <2>1, RaisesHistory, SameStackHistory
<1>4. CASE MotionNotify(m)
  <2> DEFINE v == IF dwm.ptrmon \notin {None, m} THEN SelectMon(dwm, m, None, TRUE)
                  ELSE dwm
             w == [v EXCEPT !.ptrmon = m]
  <2>1. dwm' = w
    BY <1>4 DEF MotionNotify, Handle
  <2>2. Raises(dwm, v) /\ IsState(v)
    <3>1. Raises(dwm, dwm)
      BY <1>1, SameStackInOrder DEF InOrder, Raises
    <3> QED BY <1>1, <1>2, <3>1, StateFields DEF Placed
  <2> HIDE DEF v
  <2>3. w.stack = v.stack /\ w.sel = v.sel /\ w.selmon = v.selmon /\ w.mon = v.mon
    BY <2>2 DEF IsState
  <2> HIDE DEF w
  <2>4. Raises(dwm, w)
    BY <2>2, <2>3 DEF Raises, Passes, On
  <2> QED BY <2>1, <2>4, RaisesHistory
<1>5. CASE ClickBar(m)
  <2>1. \/ dwm' = u \/ dwm' = Zoom(u)
        \/ \E t \in Tag : \/ dwm' = View(u, {t}) \/ dwm' = ToggleView(u, {t})
                          \/ dwm' = TagSel(u, {t}) \/ dwm' = ToggleTag(u, {t})
    BY <1>5 DEF ClickBar, Handle
  <2> HIDE DEF u
  <2>2. CASE dwm' = u
    BY <1>1, <2>2, RaisesHistory
  <2>3. CASE dwm' # u
    <3>1. Command(u, dwm')
      BY <1>1, <2>1, <2>3, ZoomCommand, ViewCommand, TagSelCommand
    <3> QED BY <1>1, <3>1, CommandRaises, RaisesTwice
  <2> QED BY <2>2, <2>3
<1> QED BY <1>3, <1>4, <1>5

\* The end of a drag: the window goes to another monitor, which is then selected.
\* The first call of focus() passes only clients that stay hidden.
LEMMA DragReleaseOrder ==
  ASSUME IInv, NEW m \in Range(dwm.mons), DragRelease(m)
  PROVE  History(dwm, dwm')
<1> DEFINE x == Sent(dwm, drag, m)
           u == SendMon(dwm, drag, m)
           v == [u EXCEPT !.selmon = m]
           t == Refocus(v)
<1>1. Placed(dwm) /\ drag \in Client /\ dwm.mon[drag] # None
  BY DEF IInv, Shown, DragRelease
<1>2. Placed(u) /\ u.mons = dwm.mons
  BY <1>1, SendMonPlaced
<1>3. /\ IsState(u)
      /\ \A n \in Monitor : \A c, d \in Client :
           c \in On(u, n) /\ d \in On(u, n) /\ Passes(dwm, u, n, c, d) => ~ Visible(u, c)
  <2>1. IsState(u)
    BY <1>2, StateFields DEF Placed
  <2>2. CASE dwm.mon[drag] = m
    <3>1. u = dwm
      BY <2>2 DEF SendMon
    <3>2. InOrder(dwm, u)
      BY <1>1, <3>1, SameStackInOrder
    <3> QED BY <2>1, <3>2 DEF InOrder
  <2>3. CASE dwm.mon[drag] # m
    <3>1. u = Focus(x, None)
      BY <2>3 DEF SendMon
    <3>2. Placed(x) /\ InOrder(dwm, x)
      BY <1>1, <2>3, SendMonPlaces, SentInOrder
    <3> HIDE DEF x, u
    <3>3. /\ SameView(x, u) /\ u.mon = x.mon
          /\ \A n \in Monitor : \A c, d \in Client :
               Passes(x, u, n, c, d) => ~ Visible(x, c)
      BY <3>1, <3>2, FocusRaises DEF Focusable
    <3>4. ASSUME NEW n \in Monitor, NEW c \in Client, NEW d \in Client,
                 c \in On(u, n), d \in On(u, n), Passes(dwm, u, n, c, d)
          PROVE  ~ Visible(u, c)
      <4>1. c \in On(x, n) /\ d \in On(x, n)
        BY <3>3, <3>4 DEF On
      <4>2. Passes(x, u, n, c, d)
        BY <1>1, <3>2, <3>4, <4>1, PassesThrough DEF InOrder
      <4>3. Visible(u, c) = Visible(x, c)
        BY <3>3, TopVisibleFrame
      <4> QED BY <3>3, <4>2, <4>3
    <3> QED BY <2>1, <3>4
  <2> QED BY <2>2, <2>3
<1> HIDE DEF u
<1>4. Placed(v) /\ v.mon = u.mon
  BY <1>2, SelmonPlaced
<1>5. v.stack = u.stack /\ SameView(u, v)
  BY <1>3 DEF IsState, SameView
<1> HIDE DEF v
<1>6. t.mon = v.mon /\ SameView(v, t) /\ Raises(v, t)
  BY <1>4, FocusRaises DEF Refocus, Focusable
<1>7. dwm' = dwm \/ dwm' = t
  BY DEF DragRelease, t, v, u
<1> HIDE DEF t
<1>8. ASSUME NEW n \in Monitor, NEW c \in Client, NEW d \in Client,
             Passes(dwm, t, n, c, d), Visible(t, c)
      PROVE  d = t.sel[t.selmon]
  <2>1. c \in On(u, n) /\ d \in On(u, n)
    BY <1>4, <1>6, <1>8 DEF Passes, On
  <2>2. Visible(u, c)
    <3>1. Visible(t, c) = Visible(v, c)
      BY <1>6, TopVisibleFrame
    <3>2. Visible(v, c) = Visible(u, c)
      BY <1>4, <1>5, TopVisibleFrame
    <3> QED BY <1>8, <3>1, <3>2
  <2>3. ~ Passes(dwm, u, n, c, d)
    BY <1>3, <2>1, <2>2
  <2>4. Passes(u, t, n, c, d)
    BY <1>1, <1>2, <1>8, <2>1, <2>3, PassesThrough
  <2>5. Passes(v, t, n, c, d)
    BY <1>4, <1>5, <2>4 DEF Passes, On
  <2> QED BY <1>6, <2>5 DEF Raises
<1>9. History(dwm, t)
  BY <1>8 DEF History
<1> QED BY <1>1, <1>7, <1>9, SameStackHistory

LEMMA ClientOrder ==
  ASSUME IInv, NEW c \in Client, ClientEvent(c)
  PROVE  History(dwm, dwm')
<1>1. Placed(dwm)
  BY DEF IInv, Shown
<1>2. ASSUME NEW urg \in BOOLEAN, NEW deaf \in BOOLEAN, MapRequest(c, urg, deaf)
      PROVE  History(dwm, dwm')
  <2>1. dwm' = Manage(dwm, c, urg, deaf) /\ dwm.mon[c] = None
    BY <1>2 DEF MapRequest, Managed
  <2> QED BY <1>1, <2>1, ManageRaises, RaisesHistory
<1>3. CASE \E urg \in Flag("urgent"), deaf \in Flag("deaf") : MapRequest(c, urg, deaf)
  BY <1>2, <1>3 DEF Flag
<1>4. CASE UnmapNotify(c)
  <2>1. dwm' = Unmanage(dwm, c) /\ dwm.mon[c] # None
    BY <1>4 DEF UnmapNotify, Managed
  <2> QED BY <1>1, <2>1, UnmanageRaises, RaisesHistory
<1> QED BY <1>3, <1>4, StillOrder, PointerOrder DEF ClientEvent

LEMMA MonitorsOrder ==
  ASSUME IInv, NEW m \in Range(dwm.mons), MonitorEvent(m)
  PROVE  History(dwm, dwm')
BY MonitorOrder, DragReleaseOrder DEF MonitorEvent

LEMMA KeyOrder ==
  ASSUME IInv, TagKey \/ StackKey \/ MonKey
  PROVE  History(dwm, dwm')
<1>1. Placed(dwm)
  BY DEF IInv, Shown
<1>2. Command(dwm, dwm') \/ dwm' = ToggleFloating(dwm)
  <2>1. CASE TagKey
    BY <1>1, <2>1, ViewCommand, TagSelCommand DEF TagKey, Handle
  <2>2. CASE StackKey
    <3>1. ASSUME NEW dir PROVE Command(dwm, MoveStack(dwm, dir))
      BY DEF Command
    <3> QED BY <1>1, <2>2, <3>1, FocusStackCommand, ZoomCommand DEF StackKey, Handle
  <2>3. CASE MonKey
    BY <1>1, <2>3, MonCommand DEF MonKey, Handle
  <2> QED BY <2>1, <2>2, <2>3
<1>3. ToggleFloating(dwm).stack = dwm.stack
  <2>1. IsState(dwm)
    BY <1>1, StateFields DEF Placed
  <2> QED BY <2>1 DEF ToggleFloating, IsState
<1> QED BY <1>1, <1>2, <1>3, CommandRaises, RaisesHistory, SameStackHistory

LEMMA ScreensOrder == ASSUME IInv, ScreensChanged PROVE History(dwm, dwm')
<1>1. Placed(dwm)
  BY DEF IInv, Shown
<1>2. PICK s \in {dwm} \cup {AddMon(dwm, m) : m \in Monitor \ Range(dwm.mons)}
                       \cup (IF Len(dwm.mons) > 1 THEN {DropMon(dwm)} ELSE {}) :
        \E p \in Range(s.mons) :
          Handle("screens", Refocus([s EXCEPT !.selmon = p]))
  BY DEF ScreensChanged
<1>3. PICK p \in Range(s.mons) : Handle("screens", Refocus([s EXCEPT !.selmon = p]))
  BY <1>2
<1>4. Placed(s) /\ InOrder(dwm, s)
  <2>1. InOrder(dwm, dwm)
    BY <1>1, SameStackInOrder
  <2>2. ASSUME NEW m \in Monitor \ Range(dwm.mons)
        PROVE  Placed(AddMon(dwm, m)) /\ InOrder(dwm, AddMon(dwm, m))
    <3>1. IsState(dwm)
      BY <1>1, StateFields DEF Placed
    <3>2. AddMon(dwm, m).stack = dwm.stack
      BY <3>1 DEF AddMon, CreateMon, IsState
    <3> QED BY <1>1, <3>2, AddMonPlaced, SameStackInOrder
  <2> QED BY <1>1, <1>2, <2>1, <2>2, DropMonPlaced, DropMonInOrder
<1> DEFINE u == [s EXCEPT !.selmon = p]
<1>5. Placed(u) /\ u.mon = s.mon
  BY <1>4, SelmonPlaced
<1>6. u.stack = s.stack
  BY <1>4, StateFields DEF Placed, IsState
<1>7. dwm' = Focus(u, None)
  BY <1>3 DEF Handle, Refocus
<1> HIDE DEF u
<1>8. InOrder(dwm, u)
  BY <1>4, <1>5, <1>6 DEF InOrder, Passes, On
<1> QED BY <1>1, <1>5, <1>7, <1>8, FocusAfterRaises, RaisesHistory DEF Focusable

LEMMA QuitOrder == ASSUME IInv, Quit \/ Cleanup PROVE History(dwm, dwm')
<1>1. Placed(dwm)
  BY DEF IInv, Shown
<1>2. CASE Quit
  BY <1>1, <1>2, ViewCommand, CommandRaises, RaisesHistory DEF Quit
<1>3. CASE Cleanup
  <2> DEFINE left == {i \in DOMAIN dwm.mons : dwm.stack[dwm.mons[i]] # << >>}
             m    == dwm.mons[Min(left)]
             c    == Head(dwm.stack[m])
  <2>1. CASE left = {}
    <3>1. dwm' = [dwm EXCEPT !.xfocus = None]
      BY <1>3, <2>1 DEF Cleanup
    <3>2. dwm'.stack = dwm.stack
      BY <1>1, <3>1, StateFields DEF Placed, IsState
    <3> QED BY <1>1, <3>2, SameStackHistory
  <2>2. CASE left # {}
    <3>1. c \in Client /\ dwm.mon[c] # None
      BY <1>1, <2>2, FirstLeft
    <3>2. dwm' = Unmanage(dwm, c)
      BY <1>3, <2>2 DEF Cleanup
    <3> HIDE DEF left, m, c
    <3> QED BY <1>1, <3>1, <3>2, UnmanageRaises, RaisesHistory
  <2> QED BY <2>1, <2>2
<1> QED BY <1>2, <1>3

LEMMA StepOrder == IInv /\ [Next]_vars => History(dwm, dwm')
<1> SUFFICES ASSUME IInv, [Next]_vars PROVE History(dwm, dwm')
  OBVIOUS
<1>1. Placed(dwm)
  BY DEF IInv, Shown
<1>2. CASE UNCHANGED vars
  BY <1>1, <1>2, SameStackHistory DEF vars
<1>3. CASE Next
  BY <1>3, ClientOrder, MonitorsOrder, KeyOrder, StillOrder, ScreensOrder, QuitOrder
     DEF Next
<1> QED BY <1>2, <1>3

----------------------------------------------------------------------------
(* The theorems *)

LEMMA SpecFocus == Spec => [](IInv /\ FocusInv)
BY InitIInv, InitFocus, StepIInv, StepFocus, PTL DEF Spec

\* For every instance, a fullscreen client is never tiled, nor one of fixed size
\* that was not mapped fullscreen: what manage() computes from the hints, and
\* setfullscreen() and togglefloating() afterwards, always leave isfloating set.
THEOREM FloatingIsKept == Spec => []FloatingKept
<1>1. FocusInv => FloatingKept
  BY DEF FocusInv, Floats, FloatingKept, Managed, FixedSize
<1> QED BY <1>1, SpecFocus, PTL

\* For every instance, and however WM_HINTS change, keyboard input goes to the
\* selected client whenever its window is there, no FocusIn of another one is waiting
\* and the last setfocus() did not find neverfocus: no handler selects a client
\* without setfocus(), and none takes the input from the client that is selected.
THEOREM FocusFollowsSelection == Spec => []FocusAgrees
<1>1. FocusInv => FocusAgrees
  BY DEF FocusInv, Good, Keyed, FocusAgrees
<1> QED BY <1>1, SpecFocus, PTL

\* For every instance in which no window is dragged and no monitor comes or goes,
\* only the selected client has the border, and it is not urgent.
THEOREM FocusIsShown == Spec => []FocusShown
<1>1. FocusInv => FocusShown
  BY DEF FocusInv, Good, Lit, LitSel, FocusShown
<1> QED BY <1>1, SpecFocus, PTL

\* For every instance, quit has unmanaged every window when dwm ends: cleanup finds
\* each of them on the focus list of a monitor that is still listed.
THEOREM QuitIsComplete == Spec => []QuitReleasesAll
<1>1. FocusInv => QuitReleasesAll
  BY DEF FocusInv, QuitReleasesAll
<1> QED BY <1>1, SpecFocus, PTL

\* For every instance, no step lets a client pass a visible one on the focus list of
\* its monitor, except the client it selects, and the one its monitor showed when
\* the pointer selected that monitor first: focus() raises only what it selects,
\* and attachstack() and detachstack() keep the order of all others.
THEOREM FocusOrderIsKept == Spec => FocusOrderKept
<1> DEFINE kept ==
      \A m \in Range(dwm.mons) \cap Range(dwm'.mons) :
        \A c, d \in Range(dwm.stack[m]) \cap Range(dwm'.stack[m]) :
          /\ Before(dwm.stack[m], c, d) /\ Before(dwm'.stack[m], d, c)
          /\ Visible(dwm', c)
          => d \in {dwm'.sel[dwm'.selmon], TopVisible(dwm, dwm.stack[m])}
<1>1. IInv /\ IInv' /\ [Next]_vars => [kept]_vars
  <2> SUFFICES ASSUME IInv, IInv', [Next]_vars PROVE kept
    OBVIOUS
  <2>1. History(dwm, dwm')
    BY StepOrder
  <2>2. Placed(dwm) /\ Placed(dwm')
    BY DEF IInv, Shown
  <2>3. ASSUME NEW m \in Range(dwm.mons) \cap Range(dwm'.mons),
               NEW c \in Range(dwm.stack[m]) \cap Range(dwm'.stack[m]),
               NEW d \in Range(dwm.stack[m]) \cap Range(dwm'.stack[m]),
               Before(dwm.stack[m], c, d), Before(dwm'.stack[m], d, c), Visible(dwm', c)
        PROVE  d \in {dwm'.sel[dwm'.selmon], TopVisible(dwm, dwm.stack[m])}
    <3>1. m \in Monitor
      BY <2>2, PlacedTypes DEF Range
    <3>2. /\ Range(dwm.stack[m]) = On(dwm, m) /\ Range(dwm'.stack[m]) = On(dwm', m)
      BY <2>2, <3>1 DEF Placed, Lists
    <3>3. c \in Client /\ d \in Client /\ {c, d} \subseteq On(dwm, m) \cap On(dwm', m)
      BY <3>2 DEF On
    <3>4. Passes(dwm, dwm', m, c, d)
      BY <2>3, <3>3 DEF Passes
    <3> QED BY <2>1, <2>3, <3>1, <3>3, <3>4 DEF History
  <2> QED BY <2>3
<1>2. (Spec => []IInv) /\ (Spec => [][Next]_vars)
  BY SpecIInv, PTL DEF Spec
<1> QED BY <1>1, <1>2, PTL DEF FocusOrderKept

=============================================================================
