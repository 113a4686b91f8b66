----------------------------- MODULE LifeProofs -----------------------------
(***************************************************************************)
(* For every number of windows, requests and drags: when no event is left, *)
(* dwm manages exactly the windows that are mapped.                        *)
(*                                                                         *)
(* A state between two events says nothing of the kind, so the invariant   *)
(* speaks of what is in the queue.  Of the notifications of a window only  *)
(* two kinds can make dwm forget it, UnmapNotify and DestroyNotify.  While *)
(* a window is mapped none of them is waiting; once it is not, they are    *)
(* what dwm still has to learn.  The root window's copy of an unmap makes  *)
(* the danger: the first of the two makes dwm forget the window, and the   *)
(* second must be gone before the window can be managed again.  It follows *)
(* the first at once, and a drag, which could take a map request before    *)
(* it, cannot begin between the two.                                       *)
(***************************************************************************)
EXTENDS DwmLifecycle, SequenceTheorems, TLAPS

Kind == {"MapRequest", "UnmapNotify", "SyntheticUnmap", "DestroyNotify", "ButtonPress"}

Events == [type : Kind, win : Window]

LifeTypeOK ==
  /\ alive \subseteq Window /\ mapped \subseteq alive
  /\ selects \subseteq Window /\ wants \subseteq alive
  /\ clients \in [Window -> 0..1]
  /\ queue \in Seq(Events)
  /\ mapping \in Window \cup {None} /\ dragging \in BOOLEAN
  /\ mapping # None => clients[mapping] = 0

\* The places of an event in a queue.
Places(q, type, w) == {i \in DOMAIN q : q[i] = Event(type, w)}

Unmaps(w) == Places(queue, "UnmapNotify", w)
Destroys(w) == Places(queue, "DestroyNotify", w)

\* What dwm believes of a window, and what it has still to learn of it.
InStep(w) ==
  /\ w \in mapped => clients[w] = 1 /\ w \in selects /\ Unmaps(w) = {}
  /\ w \notin mapped /\ clients[w] = 1 => Unmaps(w) \cup Destroys(w) # {}
  /\ w \in alive => Destroys(w) = {}
  /\ w \in alive /\ w \notin mapped /\ clients[w] = 1 =>
       \E i \in Nat \ {0} : Unmaps(w) = {i, i + 1}
  /\ w \in alive /\ clients[w] = 0 =>
       \/ Unmaps(w) = {}
       \/ Unmaps(w) = {1} /\ ~dragging /\ mapping = None
  /\ mapping = w /\ w \notin alive => Destroys(w) # {}

LifeInv == LifeTypeOK /\ \A w \in Window : InStep(w)

----------------------------------------------------------------------------
(* Queues *)

LEMMA EventOf ==
  /\ \A type \in Kind, w \in Window : Event(type, w) \in Events
  /\ \A s, t, v, w : Event(s, v) = Event(t, w) <=> s = t /\ v = w
  /\ \A t, w : Event(t, w).type = t /\ Event(t, w).win = w
  BY DEF Event, Events

\* An event is put behind the others.
LEMMA PlacesAppend ==
  ASSUME NEW q \in Seq(Events), NEW e \in Events, NEW type, NEW w
  PROVE  /\ Append(q, e) \in Seq(Events)
         /\ Places(Append(q, e), type, w) =
              IF e = Event(type, w) THEN Places(q, type, w) \cup {Len(q) + 1}
                                    ELSE Places(q, type, w)
  <1> DEFINE r == Append(q, e)
  <1>1. /\ DOMAIN r = DOMAIN q \cup {Len(q) + 1} /\ Len(q) + 1 \notin DOMAIN q
        /\ \A i \in DOMAIN q : r[i] = q[i]
        /\ r[Len(q) + 1] = e
    OBVIOUS
  <1>2. r \in Seq(Events)
    OBVIOUS
  <1> HIDE DEF r
  <1>3. Places(r, type, w) = IF e = Event(type, w) THEN Places(q, type, w) \cup {Len(q) + 1}
                                                   ELSE Places(q, type, w)
    BY <1>1 DEF Places
  <1>4. QED
    BY <1>2, <1>3 DEF r

\* A notification is found once or twice, and all others are where they were.
LEMMA PlacesNotify ==
  ASSUME NEW q \in Seq(Events), NEW kind \in Kind, NEW v \in Window
  PROVE  LET r == q \o Notify(kind, v)
         IN  /\ r \in Seq(Events)
             /\ \A type, w : Event(type, w) # Event(kind, v) =>
                               Places(r, type, w) = Places(q, type, w)
             /\ Places(r, kind, v) # {}
             /\ v \in selects =>
                  \E i \in Nat \ {0} : Places(r, kind, v) = Places(q, kind, v) \cup {i, i + 1}
  <1> DEFINE e == Event(kind, v)
             one == Append(q, e)
             two == Append(one, e)
  <1>1. e \in Events /\ Len(q) \in Nat
    BY EventOf
  <1>2. /\ one \in Seq(Events) /\ Len(one) = Len(q) + 1
        /\ \A type, w : Places(one, type, w) =
             IF e = Event(type, w) THEN Places(q, type, w) \cup {Len(q) + 1}
                                   ELSE Places(q, type, w)
    BY <1>1, PlacesAppend
  <1>3. q \o <<e>> = one
    BY <1>1
  <1>4. q \o <<e, e>> = two
    BY <1>1
  <1> HIDE DEF e, one
  <1>5. /\ two \in Seq(Events)
        /\ \A type, w : Places(two, type, w) =
             IF e = Event(type, w) THEN Places(one, type, w) \cup {Len(one) + 1}
                                   ELSE Places(one, type, w)
    BY <1>1, <1>2, PlacesAppend
  <1> HIDE DEF two
  <1>6. CASE v \in selects
    <2>1. q \o Notify(kind, v) = two
      BY <1>4, <1>6 DEF Notify, e
    <2>2. Places(two, kind, v) = Places(q, kind, v) \cup {Len(q) + 1, (Len(q) + 1) + 1}
      BY <1>2, <1>5 DEF e
    <2>3. Len(q) + 1 \in Nat \ {0}
      BY <1>1
    <2>4. \A type, w : Event(type, w) # e => Places(two, type, w) = Places(q, type, w)
      BY <1>2, <1>5
    <2>5. QED
      BY <1>5, <2>1, <2>2, <2>3, <2>4 DEF e
  <1>7. CASE v \notin selects
    <2>1. q \o Notify(kind, v) = one
      BY <1>3, <1>7 DEF Notify, e
    <2>2. Places(one, kind, v) = Places(q, kind, v) \cup {Len(q) + 1}
      BY <1>2 DEF e
    <2>3. \A type, w : Event(type, w) # e => Places(one, type, w) = Places(q, type, w)
      BY <1>2
    <2>4. QED
      BY <1>2, <1>7, <2>1, <2>2, <2>3 DEF e
  <1>8. QED
    BY <1>6, <1>7

\* The first event is taken.
LEMMA PlacesTail ==
  ASSUME NEW q \in Seq(Events), q # << >>, NEW type, NEW w
  PROVE  /\ Tail(q) \in Seq(Events) /\ Head(q) \in Events
         /\ Head(q) = Event(type, w) <=> 1 \in Places(q, type, w)
         /\ Places(Tail(q), type, w) = {i \in Nat \ {0} : i + 1 \in Places(q, type, w)}
  <1>1. /\ Tail(q) \in Seq(Events) /\ Len(Tail(q)) = Len(q) - 1 /\ Len(q) \in Nat \ {0}
        /\ \A i \in 1 .. Len(Tail(q)) : Tail(q)[i] = q[i + 1]
        /\ Head(q) = q[1] /\ 1 \in DOMAIN q
    BY HeadTailProperties
  <1>2. DOMAIN q = 1 .. Len(q) /\ DOMAIN Tail(q) = 1 .. Len(q) - 1
    BY <1>1
  <1>3. \A i : i \in DOMAIN Tail(q) <=> i \in Nat \ {0} /\ i + 1 \in DOMAIN q
    BY <1>1, <1>2
  <1>4. QED
    BY <1>1, <1>2, <1>3 DEF Places

\* An event of another type is taken from the middle.
LEMMA PlacesRemoved ==
  ASSUME NEW q \in Seq(Events), NEW k \in 1 .. Len(q), NEW type, NEW w, q[k].type # type
  PROVE  LET r == SubSeq(q, 1, k - 1) \o SubSeq(q, k + 1, Len(q))
             P == Places(q, type, w)
         IN  /\ r \in Seq(Events)
             /\ Places(r, type, w) = {i \in P : i < k} \cup {i \in Nat : k <= i /\ i + 1 \in P}
  <1> DEFINE a == SubSeq(q, 1, k - 1)
             b == SubSeq(q, k + 1, Len(q))
             r == a \o b
             P == Places(q, type, w)
  <1>1. /\ Len(q) \in Nat /\ DOMAIN q = 1 .. Len(q) /\ k \in Nat \ {0} /\ k <= Len(q)
        /\ \A i \in DOMAIN q : q[i] \in Events
    OBVIOUS
  <1>2. /\ a \in Seq(Events) /\ Len(a) = k - 1
        /\ \A i \in 1 .. k - 1 : a[i] = q[i]
    BY <1>1, SubSeqProperties
  <1>3. /\ b \in Seq(Events) /\ Len(b) = Len(q) - k
        /\ \A i \in 1 .. Len(q) - k : b[i] = q[k + i]
    <2>1. /\ b \in Seq(Events)
          /\ Len(b) = IF k + 1 <= Len(q) THEN Len(q) - (k + 1) + 1 ELSE 0
          /\ \A i \in 1 .. Len(q) - (k + 1) + 1 : b[i] = q[k + 1 + i - 1]
      BY <1>1, SubSeqProperties
    <2> HIDE DEF b
    <2>2. Len(b) = Len(q) - k
      <3>1. CASE k + 1 <= Len(q)
        BY <1>1, <2>1, <3>1
      <3>2. CASE k = Len(q)
        BY <1>1, <2>1, <3>2
      <3>3. k + 1 <= Len(q) \/ k = Len(q)
        <4>1. Len(q) \in Nat /\ k \in Nat /\ k <= Len(q)
          BY <1>1
        <4>2. \A n, m \in Nat : m <= n => m + 1 <= n \/ m = n
          OBVIOUS
        <4>3. QED
          BY <4>1, <4>2
      <3>4. QED
        BY <3>1, <3>2, <3>3
    <2>3. ASSUME NEW i \in 1 .. Len(q) - k PROVE b[i] = q[k + i]
      <3>1. i \in 1 .. Len(q) - (k + 1) + 1 /\ k + 1 + i - 1 = k + i
        BY <1>1
      <3>2. QED
        BY <2>1, <3>1
    <2>4. QED
      BY <2>1, <2>2, <2>3
  <1> HIDE DEF a, b
  <1>4. /\ r \in Seq(Events) /\ Len(r) = Len(q) - 1
        /\ \A i \in 1 .. Len(q) - 1 : r[i] = IF i <= k - 1 THEN a[i] ELSE b[i - (k - 1)]
    <2>1. /\ r \in Seq(Events) /\ Len(r) = Len(a) + Len(b)
          /\ \A i \in 1 .. Len(a) + Len(b) : r[i] = IF i <= Len(a) THEN a[i] ELSE b[i - Len(a)]
      BY <1>2, <1>3, ConcatProperties
    <2>2. Len(a) + Len(b) = Len(q) - 1
      BY <1>1, <1>2, <1>3
    <2> HIDE DEF r
    <2>3. QED
      BY <1>2, <2>1, <2>2
  <1> HIDE DEF r
  <1>5. DOMAIN r = 1 .. Len(q) - 1
    BY <1>1, <1>4
  <1>6. \A i \in DOMAIN r : r[i] = IF i < k THEN q[i] ELSE q[i + 1]
    <2>1. SUFFICES ASSUME NEW i \in DOMAIN r
                   PROVE  r[i] = IF i < k THEN q[i] ELSE q[i + 1]
      OBVIOUS
    <2>2. i \in Nat \ {0} /\ i \in 1 .. Len(q) - 1
      BY <1>1, <1>5
    <2>3. CASE i < k
      BY <1>1, <1>2, <1>4, <2>2, <2>3
    <2>4. CASE k <= i
      <3>1. PICK j \in 1 .. Len(q) - k : j = i - (k - 1) /\ k + j = i + 1
        BY <1>1, <2>2, <2>4
      <3>2. ~ (i <= k - 1) /\ ~ (i < k)
        BY <1>1, <2>2, <2>4
      <3>3. r[i] = b[i - (k - 1)]
        BY <1>4, <2>2, <3>2
      <3>4. b[j] = q[k + j]
        BY <1>3
      <3>5. QED
        BY <3>1, <3>2, <3>3, <3>4
    <2>5. QED
      BY <1>1, <2>2, <2>3, <2>4
  <1>7. q[k] # Event(type, w)
    BY EventOf
  <1>8. Places(r, type, w) = {i \in P : i < k} \cup {i \in Nat : k <= i /\ i + 1 \in P}
    BY <1>1, <1>5, <1>6, <1>7 DEF Places
  <1>9. QED
    BY <1>4, <1>8 DEF r, a, b

----------------------------------------------------------------------------

LEMMA LifeInitInv == LifeInit => LifeInv
  <1> SUFFICES ASSUME LifeInit PROVE LifeInv
    OBVIOUS
  <1>1. LifeTypeOK
    <2>1. queue \in Seq(Events)
      BY DEF LifeInit
    <2>2. clients \in [Window -> 0..1]
      BY DEF LifeInit
    <2>3. /\ alive \subseteq Window /\ mapped \subseteq alive
          /\ selects \subseteq Window /\ wants \subseteq alive
          /\ mapping = None /\ dragging \in BOOLEAN
      BY DEF LifeInit
    <2>4. QED
      BY <2>1, <2>2, <2>3 DEF LifeTypeOK
  <1>2. \A w \in Window : Unmaps(w) = {} /\ Destroys(w) = {}
    BY DEF LifeInit, Unmaps, Destroys, Places
  <1>3. \A w \in Window : InStep(w)
    BY <1>2, LifecycleAssumption DEF LifeInit, InStep
  <1>4. QED
    BY <1>1, <1>3 DEF LifeInv

\* A window that a step does not touch stays in step.
LEMMA Untouched ==
  ASSUME NEW w \in Window, InStep(w),
         w \in alive' <=> w \in alive, w \in mapped' <=> w \in mapped,
         w \in selects' <=> w \in selects, clients'[w] = clients[w],
         Unmaps(w)' = Unmaps(w), Destroys(w)' = Destroys(w),
         mapping' = mapping, dragging' = dragging \/ ~dragging'
  PROVE  InStep(w)'
  BY DEF InStep

----------------------------------------------------------------------------
(* The programs and the user *)

LEMMA MapKeeps ==
  ASSUME LifeInv, NEW w \in Window, Map(w) \/ Press(w)
  PROVE  LifeInv'
  <1>1. LifeTypeOK
    BY DEF LifeInv
  <1>2. /\ UNCHANGED <<alive, mapped, selects, clients, mapping, dragging>>
        /\ wants' \subseteq alive
        /\ \/ queue' = queue
           \/ queue' = Append(queue, Event("MapRequest", w))
           \/ queue' = Append(queue, Event("ButtonPress", w))
    BY <1>1 DEF Map, Press, Request, server, LifeTypeOK
  <1>3. /\ queue' \in Seq(Events)
        /\ \A v \in Window : Unmaps(v)' = Unmaps(v) /\ Destroys(v)' = Destroys(v)
    <2>1. ASSUME NEW kind \in {"MapRequest", "ButtonPress"},
                 queue' = Append(queue, Event(kind, w))
          PROVE  /\ queue' \in Seq(Events)
                 /\ \A v \in Window : Unmaps(v)' = Unmaps(v) /\ Destroys(v)' = Destroys(v)
      <3>1. Event(kind, w) \in Events /\ queue \in Seq(Events)
        BY <1>1, EventOf DEF Kind, LifeTypeOK
      <3>2. \A v : /\ Event(kind, w) # Event("UnmapNotify", v)
                   /\ Event(kind, w) # Event("DestroyNotify", v)
        BY EventOf
      <3>3. QED
        BY <2>1, <3>1, <3>2, PlacesAppend DEF Unmaps, Destroys
    <2>2. QED
      BY <1>1, <1>2, <2>1 DEF LifeTypeOK, Unmaps, Destroys
  <1>4. LifeTypeOK'
    BY <1>1, <1>2, <1>3 DEF LifeTypeOK
  <1>5. \A v \in Window : InStep(v)'
    BY <1>2, <1>3, Untouched DEF LifeInv
  <1>6. QED
    BY <1>4, <1>5 DEF LifeInv

LEMMA WithdrawKeeps == ASSUME LifeInv, NEW w \in Window, Withdraw(w) PROVE LifeInv'
  <1>1. LifeTypeOK /\ \A v \in Window : InStep(v)
    BY DEF LifeInv
  <1> DEFINE sent == IF w \in mapped THEN queue \o Notify("UnmapNotify", w) ELSE queue
  <1>2. /\ w \in alive /\ wants' = wants \ {w} /\ mapped' = mapped \ {w}
        /\ queue' = Append(sent, Event("SyntheticUnmap", w))
        /\ UNCHANGED <<alive, selects, clients, mapping, dragging>>
    <2>1. queue \in Seq(Events) /\ queue \o << >> = queue
      BY <1>1 DEF LifeTypeOK
    <2>2. sent \in Seq(Events)
      BY <2>1, PlacesNotify DEF Kind
    <2>3. queue' = sent \o <<Event("SyntheticUnmap", w)>>
      BY <2>1 DEF Withdraw
    <2>4. sent \o <<Event("SyntheticUnmap", w)>> = Append(sent, Event("SyntheticUnmap", w))
      BY <2>2, EventOf, AppendIsConcat DEF Kind
    <2>5. QED
      BY <2>3, <2>4 DEF Withdraw, Request
  <1>3. /\ sent \in Seq(Events)
        /\ \A v \in Window : /\ Places(sent, "DestroyNotify", v) = Destroys(v)
                             /\ v # w => Places(sent, "UnmapNotify", v) = Unmaps(v)
        /\ w \notin mapped => Places(sent, "UnmapNotify", w) = Unmaps(w)
        /\ w \in mapped /\ w \in selects =>
             \E i \in Nat \ {0} : Places(sent, "UnmapNotify", w) = Unmaps(w) \cup {i, i + 1}
    <2>1. queue \in Seq(Events) /\ "UnmapNotify" \in Kind
      BY <1>1 DEF LifeTypeOK, Kind
    <2>2. CASE w \in mapped
      <3>1. sent = queue \o Notify("UnmapNotify", w)
        BY <2>2
      <3> HIDE DEF sent
      <3>2. /\ sent \in Seq(Events)
            /\ \A type, v : Event(type, v) # Event("UnmapNotify", w) =>
                              Places(sent, type, v) = Places(queue, type, v)
            /\ w \in selects => \E i \in Nat \ {0} :
                 Places(sent, "UnmapNotify", w) = Places(queue, "UnmapNotify", w) \cup {i, i + 1}
        BY <2>1, <3>1, PlacesNotify
      <3>3. /\ \A v : Event("DestroyNotify", v) # Event("UnmapNotify", w)
            /\ \A v : v # w => Event("UnmapNotify", v) # Event("UnmapNotify", w)
        BY EventOf
      <3>4. QED
        BY <2>2, <3>2, <3>3 DEF Unmaps, Destroys
    <2>3. CASE w \notin mapped
      BY <2>1, <2>3 DEF Unmaps, Destroys
    <2>4. QED
      BY <2>2, <2>3
  <1> HIDE DEF sent
  <1>4. /\ queue' \in Seq(Events)
        /\ \A v : /\ Unmaps(v)' = Places(sent, "UnmapNotify", v)
                  /\ Destroys(v)' = Places(sent, "DestroyNotify", v)
    BY <1>2, <1>3, EventOf, PlacesAppend DEF Kind, Unmaps, Destroys
  <1>5. LifeTypeOK'
    BY <1>1, <1>2, <1>4 DEF LifeTypeOK
  <1>6. ASSUME NEW v \in Window PROVE InStep(v)'
    <2>1. CASE v # w \/ w \notin mapped
      BY <1>1, <1>2, <1>3, <1>4, <2>1, Untouched
    <2>2. CASE v = w /\ w \in mapped
      <3>1. /\ clients[w] = 1 /\ w \in selects /\ Unmaps(w) = {} /\ Destroys(w) = {}
        BY <1>1, <2>2 DEF InStep, LifeTypeOK
      <3>2. \E i \in Nat \ {0} : Unmaps(w)' = {i, i + 1}
        BY <1>3, <1>4, <2>2, <3>1
      <3>3. Destroys(w)' = {} /\ clients'[w] = 1 /\ w \notin mapped' /\ w \in alive'
        BY <1>2, <1>3, <1>4, <3>1
      <3>4. QED
        BY <2>2, <3>2, <3>3 DEF InStep
    <2>3. QED
      BY <2>1, <2>2
  <1>7. QED
    BY <1>5, <1>6 DEF LifeInv

LEMMA DestroyKeeps == ASSUME LifeInv, NEW w \in Window, Destroy(w) PROVE LifeInv'
  <1>1. LifeTypeOK /\ \A v \in Window : InStep(v)
    BY DEF LifeInv
  <1> DEFINE sent == IF w \in mapped THEN queue \o Notify("UnmapNotify", w) ELSE queue
  <1>2. /\ alive' = alive \ {w} /\ wants' = wants \ {w} /\ mapped' = mapped \ {w}
        /\ queue' = sent \o Notify("DestroyNotify", w)
        /\ UNCHANGED <<selects, clients, mapping, dragging>>
    <2>1. queue \o << >> = queue
      BY <1>1 DEF LifeTypeOK
    <2>2. QED
      BY <2>1 DEF Destroy, Request
  <1>3. /\ sent \in Seq(Events)
        /\ \A v \in Window \ {w} : /\ Places(sent, "DestroyNotify", v) = Destroys(v)
                                   /\ Places(sent, "UnmapNotify", v) = Unmaps(v)
    BY <1>1, EventOf, PlacesNotify DEF Kind, LifeTypeOK, Unmaps, Destroys
  <1> HIDE DEF sent
  <1>4. /\ queue' \in Seq(Events) /\ Destroys(w)' # {}
        /\ \A v \in Window \ {w} : /\ Unmaps(v)' = Places(sent, "UnmapNotify", v)
                                   /\ Destroys(v)' = Places(sent, "DestroyNotify", v)
    BY <1>2, <1>3, EventOf, PlacesNotify DEF Kind, Unmaps, Destroys
  <1>5. LifeTypeOK'
    BY <1>1, <1>2, <1>4 DEF LifeTypeOK
  <1>6. ASSUME NEW v \in Window PROVE InStep(v)'
    <2>1. CASE v # w
      BY <1>1, <1>2, <1>3, <1>4, <2>1, Untouched
    <2>2. CASE v = w
      BY <1>2, <1>4, <1>5, <2>2 DEF InStep, LifeTypeOK
    <2>3. QED
      BY <2>1, <2>2
  <1>7. QED
    BY <1>5, <1>6 DEF LifeInv

----------------------------------------------------------------------------
(* dwm *)

\* An event is taken from the queue in its turn; it may be of this window.
LEMMA Taken ==
  ASSUME LifeInv, queue # << >>, queue' = Tail(queue), NEW w \in Window
  PROVE  /\ Head(queue) \in Events /\ queue' \in Seq(Events)
         /\ Head(queue) = Event("UnmapNotify", w) <=> 1 \in Unmaps(w)
         /\ Head(queue) = Event("DestroyNotify", w) <=> 1 \in Destroys(w)
         /\ Unmaps(w)' = {i \in Nat \ {0} : i + 1 \in Unmaps(w)}
         /\ Destroys(w)' = {i \in Nat \ {0} : i + 1 \in Destroys(w)}
         /\ Unmaps(w) \subseteq Nat \ {0} /\ Destroys(w) \subseteq Nat \ {0}
  <1>1. queue \in Seq(Events)
    BY DEF LifeInv, LifeTypeOK
  <1>2. DOMAIN queue \subseteq Nat \ {0}
    BY <1>1
  <1>3. QED
    BY <1>1, <1>2, PlacesTail DEF Unmaps, Destroys, Places

\* It was not of this window, or nothing that makes dwm forget it.
LEMMA OthersTaken ==
  ASSUME LifeInv, queue # << >>, queue' = Tail(queue), NEW w \in Window,
         Head(queue) # Event("UnmapNotify", w), Head(queue) # Event("DestroyNotify", w),
         UNCHANGED <<alive, mapped>>, w \in selects' <=> w \in selects,
         clients'[w] = clients[w], mapping' = w => w \in alive
  PROVE  InStep(w)'
  <1>1. InStep(w) /\ 1 \notin Unmaps(w) /\ 1 \notin Destroys(w)
    BY Taken DEF LifeInv
  <1> DEFINE U == Unmaps(w)
             D == Destroys(w)
  <1>2. /\ U \subseteq Nat \ {0, 1} /\ D \subseteq Nat \ {0, 1}
        /\ Unmaps(w)' = {i \in Nat \ {0} : i + 1 \in U}
        /\ Destroys(w)' = {i \in Nat \ {0} : i + 1 \in D}
    BY <1>1, Taken
  <1>3. (Unmaps(w)' = {} <=> U = {}) /\ (Destroys(w)' = {} <=> D = {})
    <2>1. ASSUME NEW P \in SUBSET (Nat \ {0, 1})
          PROVE  {i \in Nat \ {0} : i + 1 \in P} = {} <=> P = {}
      <3>1. ASSUME NEW i \in P PROVE i - 1 \in Nat \ {0} /\ (i - 1) + 1 = i
        BY <3>1
      <3>2. \A i \in P : i - 1 \in {j \in Nat \ {0} : j + 1 \in P}
        BY <3>1
      <3>3. QED
        BY <3>2
    <2> HIDE DEF U, D
    <2>2. QED
      BY <1>2, <2>1
  <1>4. ASSUME NEW i \in Nat \ {0}, U = {i, i + 1}
        PROVE  \E j \in Nat \ {0} : Unmaps(w)' = {j, j + 1}
    <2>1. i - 1 \in Nat \ {0}
      BY <1>2, <1>4
    <2>2. Unmaps(w)' = {i - 1, (i - 1) + 1}
      BY <1>2, <1>4, <2>1
    <2>3. QED
      BY <2>1, <2>2
  <1>5. U # {1}
    BY <1>2
  <1>6. QED
    BY <1>1, <1>3, <1>4, <1>5 DEF InStep

LEMMA HandleKeeps == ASSUME LifeInv, Handle PROVE LifeInv'
  <1>1. LifeTypeOK /\ \A v \in Window : InStep(v)
    BY DEF LifeInv
  <1>2. /\ mapping = None /\ ~dragging /\ queue # << >> /\ queue' = Tail(queue)
        /\ Dispatch(Head(queue)) /\ UNCHANGED <<alive, mapped, wants>>
    BY DEF Handle
  <1>3. PICK kind \in Kind, w \in Window : Head(queue) = Event(kind, w)
    <2>1. Head(queue) \in Events
      BY <1>1, <1>2, PlacesTail DEF LifeTypeOK
    <2>2. QED
      BY <2>1 DEF Events, Event
  <1>4. queue' \in Seq(Events) /\ Head(queue).type = kind /\ Head(queue).win = w
    BY <1>1, <1>2, <1>3, PlacesTail, EventOf DEF LifeTypeOK
  <1>5. CASE kind = "MapRequest"
    <2>1. MapRequest(w)
      BY <1>2, <1>4, <1>5 DEF Dispatch
    <2>2. /\ UNCHANGED <<selects, clients, dragging>>
          /\ mapping' \in Window \cup {None}
          /\ mapping' # None => mapping' = w /\ w \in alive /\ clients[w] = 0
      BY <1>1, <2>1 DEF MapRequest, wintoclient, LifeTypeOK
    <2>3. LifeTypeOK'
      BY <1>1, <1>2, <1>4, <2>2 DEF LifeTypeOK
    <2>4. \A v \in Window : InStep(v)'
      BY <1>2, <1>3, <1>5, <2>2, EventOf, OthersTaken, LifecycleAssumption
    <2>5. QED
      BY <2>3, <2>4 DEF LifeInv
  <1>6. CASE kind = "ButtonPress"
    <2>1. ButtonPress(w)
      BY <1>2, <1>4, <1>6 DEF Dispatch
    <2>2. UNCHANGED <<selects, clients, mapping>> /\ dragging' \in BOOLEAN
      BY <2>1 DEF ButtonPress, wintoclient
    <2>3. LifeTypeOK'
      BY <1>1, <1>2, <1>4, <2>2 DEF LifeTypeOK
    <2>4. \A v \in Window : InStep(v)'
      BY <1>2, <1>3, <1>6, <2>2, EventOf, OthersTaken, LifecycleAssumption
    <2>5. QED
      BY <2>3, <2>4 DEF LifeInv
  <1>7. CASE kind = "SyntheticUnmap"
    <2>1. UnmapNotify(w, TRUE)
      BY <1>2, <1>4, <1>7 DEF Dispatch
    <2>2. UNCHANGED <<selects, clients, mapping, dragging>>
      BY <2>1 DEF UnmapNotify
    <2>3. LifeTypeOK'
      BY <1>1, <1>2, <1>4, <2>2 DEF LifeTypeOK
    <2>4. \A v \in Window : InStep(v)'
      BY <1>2, <1>3, <1>7, <2>2, EventOf, OthersTaken, LifecycleAssumption
    <2>5. QED
      BY <2>3, <2>4 DEF LifeInv
  <1>8. CASE kind \in {"UnmapNotify", "DestroyNotify"}
    <2>1. /\ selects' \in {selects, selects \ {w}} /\ UNCHANGED <<mapping, dragging>>
          /\ IF clients[w] > 0 THEN Forget(w) ELSE UNCHANGED clients
      BY <1>2, <1>4, <1>8 DEF Dispatch, UnmapNotify, DestroyNotify, wintoclient
    <2>2. /\ clients' \in [Window -> 0..1] /\ clients'[w] = 0
          /\ \A v \in Window \ {w} : clients'[v] = clients[v]
      BY <1>1, <2>1 DEF Forget, LifeTypeOK
    <2>3. LifeTypeOK'
      BY <1>1, <1>2, <1>4, <2>1, <2>2 DEF LifeTypeOK
    <2>4. \A v \in Window \ {w} : InStep(v)'
      BY <1>2, <1>3, <2>1, <2>2, EventOf, OthersTaken, LifecycleAssumption
    <2>5. InStep(w)'
      <3>1. /\ w \in alive => Destroys(w) = {}
            /\ Unmaps(w)' = {i \in Nat \ {0} : i + 1 \in Unmaps(w)}
            /\ Destroys(w)' = {i \in Nat \ {0} : i + 1 \in Destroys(w)}
        BY <1>1, <1>2, Taken DEF InStep
      <3>2. mapping' = None /\ ~dragging' /\ mapping' # w
        BY <1>2, <2>1, LifecycleAssumption
      <3>3. CASE w \notin alive
        <4>1. w \notin alive' /\ w \notin mapped'
          BY <1>1, <1>2, <3>3 DEF LifeTypeOK
        <4>2. QED
          BY <2>2, <3>2, <4>1 DEF InStep
      <3>4. CASE w \in alive
        <4>1. 1 \in Unmaps(w) /\ Destroys(w)' = {}
          BY <1>2, <1>3, <1>8, <3>1, <3>4, Taken
        <4>2. w \notin mapped /\ w \notin mapped'
          BY <1>1, <1>2, <4>1 DEF InStep
        <4>3. Unmaps(w) = {1} \/ Unmaps(w) = {1, 2}
          <5>1. CASE clients[w] = 0
            BY <1>1, <3>4, <4>1, <5>1 DEF InStep
          <5>2. CASE clients[w] = 1
            <6>1. PICK i \in Nat \ {0} : Unmaps(w) = {i, i + 1}
              BY <1>1, <3>4, <4>2, <5>2 DEF InStep
            <6>2. i = 1
              BY <4>1, <6>1
            <6>3. QED
              BY <6>1, <6>2
          <5>3. QED
            BY <1>1, <5>1, <5>2 DEF LifeTypeOK
        <4>4. Unmaps(w)' = {} \/ Unmaps(w)' = {1}
          <5>1. \A i \in Nat \ {0} : i + 1 # 1 /\ (i + 1 = 2 <=> i = 1)
            OBVIOUS
          <5>2. QED
            BY <3>1, <4>3, <5>1
        <4>5. QED
          BY <2>2, <3>2, <4>1, <4>2, <4>4 DEF InStep
      <3>5. QED
        BY <3>3, <3>4
    <2>6. QED
      BY <2>3, <2>4, <2>5 DEF LifeInv
  <1>9. QED
    BY <1>5, <1>6, <1>7, <1>8 DEF Kind

LEMMA ManageKeeps == ASSUME LifeInv, Manage PROVE LifeInv'
  <1>1. LifeTypeOK /\ \A v \in Window : InStep(v)
    BY DEF LifeInv
  <1>0. PICK w \in Window : w = mapping /\ clients[w] = 0
    BY <1>1 DEF Manage, LifeTypeOK
  <1>2. /\ mapping' = None /\ clients' = [clients EXCEPT ![w] = @ + 1]
        /\ UNCHANGED <<alive, wants, queue, dragging>>
        /\ IF w \in alive THEN selects' = selects \cup {w} /\ mapped' = mapped \cup {w}
                          ELSE UNCHANGED <<selects, mapped>>
    BY <1>0 DEF Manage
  <1>3. /\ clients' \in [Window -> 0..1] /\ clients'[w] = 1
        /\ \A v \in Window \ {w} : clients'[v] = clients[v]
    BY <1>0, <1>1, <1>2 DEF LifeTypeOK
  <1>4. LifeTypeOK'
    BY <1>1, <1>2, <1>3 DEF LifeTypeOK
  <1>5. \A v \in Window : Unmaps(v)' = Unmaps(v) /\ Destroys(v)' = Destroys(v)
    BY <1>2 DEF Unmaps, Destroys
  <1>6. ASSUME NEW v \in Window, v # w PROVE InStep(v)'
    BY <1>0, <1>1, <1>2, <1>3, <1>5, <1>6, LifecycleAssumption DEF InStep
  <1>7. InStep(w)'
    <2>1. InStep(w) /\ mapping # None
      BY <1>0, <1>1, LifecycleAssumption
    <2>2. CASE w \in alive
      BY <1>0, <1>2, <1>3, <1>5, <2>1, <2>2, LifecycleAssumption DEF InStep
    <2>3. CASE w \notin alive
      BY <1>0, <1>1, <1>2, <1>3, <1>5, <2>1, <2>3, LifecycleAssumption DEF InStep, LifeTypeOK
    <2>4. QED
      BY <2>2, <2>3
  <1>8. QED
    BY <1>4, <1>6, <1>7 DEF LifeInv

----------------------------------------------------------------------------
(* Drags *)

LEMMA DragMapRequestKeeps == ASSUME LifeInv, DragMapRequest PROVE LifeInv'
  <1>1. LifeTypeOK /\ \A v \in Window : InStep(v)
    BY DEF LifeInv
  <1>2. PICK k \in 1 .. Len(queue) :
          /\ queue[k].type = "MapRequest" /\ MapRequest(queue[k].win)
          /\ queue' = SubSeq(queue, 1, k - 1) \o SubSeq(queue, k + 1, Len(queue))
    BY DEF DragMapRequest
  <1>3. dragging /\ mapping = None /\ UNCHANGED <<alive, mapped, wants>>
    BY DEF DragMapRequest
  <1>4. /\ UNCHANGED <<selects, clients, dragging>>
        /\ mapping' \in Window \cup {None}
        /\ mapping' # None => mapping' \in alive /\ clients[mapping'] = 0
    BY <1>1, <1>2 DEF MapRequest, wintoclient, LifeTypeOK
  <1>5. queue \in Seq(Events) /\ k \in Nat \ {0}
    BY <1>1 DEF LifeTypeOK
  <1>6. /\ queue' \in Seq(Events)
        /\ \A type \in {"UnmapNotify", "DestroyNotify"}, v \in Window :
             Places(queue', type, v) = {i \in Places(queue, type, v) : i < k} \cup
                                       {i \in Nat : k <= i /\ i + 1 \in Places(queue, type, v)}
    <2>1. /\ queue[k].type # "UnmapNotify" /\ queue[k].type # "DestroyNotify"
          /\ queue \in Seq(Events)
      BY <1>2, <1>5
    <2>2. PICK q : q = queue
      OBVIOUS
    <2>3. /\ q \in Seq(Events) /\ k \in 1 .. Len(q)
          /\ q[k].type # "UnmapNotify" /\ q[k].type # "DestroyNotify"
      BY <2>1, <2>2
    <2> DEFINE r == SubSeq(q, 1, k - 1) \o SubSeq(q, k + 1, Len(q))
    <2>4. r \in Seq(Events)
      BY ONLY <2>3, PlacesRemoved
    <2>5. ASSUME NEW type \in {"UnmapNotify", "DestroyNotify"}, NEW v \in Window
          PROVE  Places(r, type, v) = {i \in Places(q, type, v) : i < k} \cup
                                      {i \in Nat : k <= i /\ i + 1 \in Places(q, type, v)}
      <3>1. q[k].type # type
        BY <2>3, <2>5
      <3>2. q \in Seq(Events) /\ k \in 1 .. Len(q)
        BY <2>3
      <3>3. QED
        BY ONLY <3>1, <3>2, PlacesRemoved
    <2>6. r = queue'
      BY <1>2, <2>2
    <2> HIDE DEF r
    <2>7. QED
      BY <2>2, <2>4, <2>5, <2>6
  <1>7. LifeTypeOK'
    BY <1>1, <1>3, <1>4, <1>6 DEF LifeTypeOK
  <1>8. ASSUME NEW v \in Window PROVE InStep(v)'
    <2> DEFINE U == Unmaps(v)
               D == Destroys(v)
    <2>1. /\ U \subseteq Nat \ {0} /\ D \subseteq Nat \ {0} /\ k \notin U /\ k \notin D
      BY <1>2, <1>5, EventOf DEF Unmaps, Destroys, Places
    <2>2. /\ Unmaps(v)' = {i \in U : i < k} \cup {i \in Nat : k <= i /\ i + 1 \in U}
          /\ Destroys(v)' = {i \in D : i < k} \cup {i \in Nat : k <= i /\ i + 1 \in D}
      BY <1>6 DEF Unmaps, Destroys
    <2> HIDE DEF U, D
    <2>3. (Unmaps(v)' = {} <=> U = {}) /\ (Destroys(v)' = {} <=> D = {})
      <3>1. ASSUME NEW P \in SUBSET (Nat \ {0}), k \notin P
            PROVE  {i \in P : i < k} \cup {i \in Nat : k <= i /\ i + 1 \in P} = {} <=> P = {}
        <4>1. ASSUME NEW i \in P, ~(i < k)
              PROVE  i - 1 \in Nat /\ k <= i - 1 /\ (i - 1) + 1 = i
          BY <1>5, <3>1, <4>1
        <4>2. \A i \in P : i < k \/ i - 1 \in {j \in Nat : k <= j /\ j + 1 \in P}
          BY <4>1
        <4>3. QED
          BY <4>2
      <3>2. QED
        BY <2>1, <2>2, <3>1
    <2>4. ASSUME NEW i \in Nat \ {0}, U = {i, i + 1}
          PROVE  \E j \in Nat \ {0} : Unmaps(v)' = {j, j + 1}
      <3>1. CASE i + 1 < k
        <4>1. Unmaps(v)' = {i, i + 1}
          BY <1>5, <2>2, <2>4, <3>1
        <4>2. QED
          BY <4>1
      <3>2. CASE k < i
        <4>1. Unmaps(v)' = {i - 1, (i - 1) + 1} /\ i - 1 \in Nat \ {0}
          BY <1>5, <2>2, <2>4, <3>2
        <4>2. QED
          BY <4>1
      <3>3. QED
        BY <1>5, <2>1, <2>4, <3>1, <3>2
    <2>5. mapping' = v => v \in alive
      BY <1>4, LifecycleAssumption
    <2>6. InStep(v) /\ Unmaps(v) = U /\ Destroys(v) = D
      BY <1>1 DEF U, D
    <2>7. QED
      BY <1>3, <1>4, <2>3, <2>4, <2>5, <2>6 DEF InStep
  <1>9. QED
    BY <1>7, <1>8 DEF LifeInv

LEMMA DragStopKeeps == ASSUME LifeInv, DragStop PROVE LifeInv'
  <1>1. UNCHANGED <<alive, mapped, selects, wants, queue, clients, mapping>> /\ ~dragging'
    BY DEF DragStop, server
  <1>2. dragging' \in BOOLEAN
    BY DEF DragStop
  <1>3. LifeTypeOK'
    BY <1>1, <1>2 DEF LifeInv, LifeTypeOK
  <1>4. \A v \in Window : InStep(v)'
    BY <1>1, Untouched DEF LifeInv, Unmaps, Destroys
  <1>5. QED
    BY <1>3, <1>4 DEF LifeInv

----------------------------------------------------------------------------

LEMMA LifeStepInv == LifeInv /\ [LifeNext]_lifeVars => LifeInv'
  <1>1. ASSUME LifeInv, UNCHANGED lifeVars PROVE LifeInv'
    BY <1>1 DEF LifeInv, LifeTypeOK, InStep, Unmaps, Destroys, lifeVars
  <1>2. ASSUME LifeInv, LifeNext PROVE LifeInv'
    BY <1>2, MapKeeps, WithdrawKeeps, DestroyKeeps, HandleKeeps, ManageKeeps,
       DragMapRequestKeeps, DragStopKeeps DEF LifeNext, Dwm
  <1>3. QED
    BY <1>1, <1>2

LEMMA LifeSpecInv == LifeSpec => []LifeInv
  BY LifeInitInv, LifeStepInv, PTL DEF LifeSpec

\* However the events interleave with the requests of programs, and whatever a
\* drag takes out of order: no window ever has two clients, and when the queue is
\* empty dwm manages the windows that are mapped and no others.
THEOREM EventsSettle == LifeSpec => []Settled
  <1>1. LifeInv => Settled
    <2>1. SUFFICES ASSUME LifeInv PROVE Settled
      OBVIOUS
    <2>2. TypeOK
      BY <2>1 DEF LifeInv, LifeTypeOK, TypeOK
    <2>3. ASSUME Quiet, NEW w \in Window
          PROVE  clients[w] = (IF w \in mapped THEN 1 ELSE 0)
      <3>1. Unmaps(w) = {} /\ Destroys(w) = {}
        BY <2>3 DEF Quiet, Unmaps, Destroys, Places
      <3>2. InStep(w) /\ clients[w] \in 0..1
        BY <2>1 DEF LifeInv, LifeTypeOK
      <3>3. QED
        BY <3>1, <3>2 DEF InStep
    <2>4. QED
      BY <2>2, <2>3 DEF Settled
  <1>2. QED
    BY <1>1, LifeSpecInv, PTL

=============================================================================
