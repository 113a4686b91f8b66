---------------------------- MODULE DeviceLemmas -----------------------------
(* Adapters, devices and transports of bluez-alsa: the invariant of the structures *)
(* that are counted and freed, what an edit, a reference taken and a reference     *)
(* given back do to it, and that each step of a client and of a thread keeps it.   *)
EXTENDS BaDevices, FiniteSetTheorems, TLAPS

----------------------------------------------------------------------------
(* The invariant: who holds what *)

One(p) == IF p THEN 1 ELSE 0

Who == {"main", "worker", "thread", "dispatcher", "none", "freed"} \X Nat
AdapterRec ==
  [ refs : Nat, devices : [Address -> Nat], dispatcher : {"none", "poll", "device", "serve", "ended"},
    cancelled : BOOLEAN, reaper : Who, held : {<< >>} \cup (Nat \X Nat) ]
DeviceRec == [addr : Address, adapter : Nat, refs : Nat, transport : Nat, battery : BOOLEAN]
Labels == {"run", "lost", "quirk", "destroying", "released", "ended"}
TransportRec ==
  [ device : Nat, refs : Nat, exported : BOOLEAN, calls : Nat, client : BOOLEAN, volume : Nat,
    rfcomm : BOOLEAN, thread : Labels, quirk : BOOLEAN, sco : BOOLEAN, hup : BOOLEAN,
    cancelled : BOOLEAN, freed : BOOLEAN, freer : Who ]
HeapRec ==
  [ listed : Nat, adapter : Seq(AdapterRec), device : Seq(DeviceRec), transport : Seq(TransportRec),
    store : [Address -> Nat], file : [Address -> Nat], stale : BOOLEAN ]

\* The structures refer to each other.
Related(h) ==
  /\ \A t \in DOMAIN h.transport : h.transport[t].device \in DOMAIN h.device
  /\ \A d \in DOMAIN h.device :
       /\ h.device[d].adapter \in DOMAIN h.adapter
       /\ h.device[d].transport # None =>
            /\ h.device[d].transport \in DOMAIN h.transport
            /\ h.transport[h.device[d].transport].device = d
            /\ h.transport[h.device[d].transport].refs > 0

\* What is in the tables is not freed, and a listed adapter neither.
Found(h, a, x) ==
  LET d == h.adapter[a].devices[x]
  IN d # None => /\ d \in DOMAIN h.device /\ h.device[d].refs > 0
                 /\ h.device[d].adapter = a /\ h.device[d].addr = x
Listed(h) ==
  /\ \A a \in DOMAIN h.adapter : h.adapter[a].refs > 0 <=> h.listed = a
  /\ h.listed # None => h.listed \in DOMAIN h.adapter
  /\ \A a \in DOMAIN h.adapter, x \in Address : Found(h, a, x)

\* The dispatcher holds a device of its adapter, and then its transport.
Looks(h, a) == h.adapter[a].dispatcher \in {"device", "serve"}
Serves(h, a) == h.adapter[a].dispatcher = "serve"
Dispatching(h) ==
  \A a \in DOMAIN h.adapter :
    /\ Looks(h, a) => /\ h.adapter[a].held # << >>
                      /\ h.adapter[a].held[1] \in DOMAIN h.device
                      /\ h.device[h.adapter[a].held[1]].adapter = a
    /\ Serves(h, a) => /\ h.adapter[a].held[2] \in DOMAIN h.transport
                       /\ h.transport[h.adapter[a].held[2]].device = h.adapter[a].held[1]

\* The thread of a link holds its transport, which is exported until the link is
\* torn down, by main that clears the quirk or by the thread.
Threads(h) ==
  \A t \in DOMAIN h.transport :
    LET r == h.transport[t]
    IN /\ r.sco <=> r.thread # "ended"
       /\ r.thread \in {"ended", "destroying", "released"} => ~r.exported
       /\ ~r.quirk => ~r.exported
       /\ r.rfcomm => ~r.freed /\ r.thread \notin {"destroying", "released"}
       /\ r.freed => r.thread = "ended"
       /\ r.freer # NoOne => r.refs = 0

\* What is stored of a device that is not there is in its file.
Filed(h) ==
  \A x \in Address : h.store[x] # NoEntry =>
    \E d \in DOMAIN h.device : h.device[d].addr = x /\ h.device[d].refs > 0

\* The holders of a transport, a device and an adapter; more are those outside the heap.
Served(h, t) ==
  LET a == h.device[h.transport[t].device].adapter IN Serves(h, a) /\ h.adapter[a].held[2] = t
TransportHeld(h, t, more) ==
  LET r == h.transport[t]
  IN r.refs = One(r.exported \/ r.calls > 0) + One(r.client) + One(r.sco)
              + One(r.thread = "destroying") + One(Served(h, t)) + more

Kept(r) == r.refs > 0 \/ r.freer # NoOne
TransportsOf(h, d) == {t \in DOMAIN h.transport : h.transport[t].device = d /\ Kept(h.transport[t])}
Looked(h, d) ==
  LET a == h.device[d].adapter IN Looks(h, a) /\ h.adapter[a].held[1] = d
DeviceHeld(h, d, more) ==
  h.device[d].refs = Cardinality(TransportsOf(h, d)) + One(h.device[d].battery) + One(Looked(h, d)) + more

DevicesOf(h, a) == {d \in DOMAIN h.device : h.device[d].adapter = a /\ h.device[d].refs > 0}
AdapterHeld(h, a, more) == h.adapter[a].refs = Cardinality(DevicesOf(h, a)) + more

Counted(h, et, ed, ea) ==
  /\ \A t \in DOMAIN h.transport : TransportHeld(h, t, et[t])
  /\ \A d \in DOMAIN h.device : DeviceHeld(h, d, ed[d])
  /\ \A a \in DOMAIN h.adapter : AdapterHeld(h, a, ea[a])

Sound(h, et, ed, ea) ==
  /\ h \in HeapRec /\ ~h.stale
  /\ Related(h) /\ Listed(h) /\ Dispatching(h) /\ Threads(h) /\ Filed(h)
  /\ Counted(h, et, ed, ea)

\* The functions that main is in, and what they hold.
OfTransport == {"unregister", "join", "release"}
OfDevice == {"device", "leaveDevice"}
InMain(m, dos, id) == \E i \in DOMAIN m : m[i].do \in dos /\ m[i].id = id

\* Main is in RequestDisconnection or in the removal of its adapter, and then in
\* the destruction of a transport.
OnDevice(h, m, i, do) == m[i].do = do /\ m[i].id \in DOMAIN h.device
OnAdapter(m, i, do, b) == m[i].do = do /\ m[i].id = b /\ b # None
Shape(h, m, b) ==
  \/ m = << >>
  \/ Len(m) = 1 /\ OnDevice(h, m, 1, "leaveDevice")
  \/ Len(m) = 2 /\ m[1].do = "leaveAdapter" /\ m[1].id \in DOMAIN h.adapter
       /\ OnDevice(h, m, 2, "leaveDevice")
  \/ Len(m) = 1 /\ OnAdapter(m, 1, "batteries", b)
  \/ Len(m) = 2 /\ OnAdapter(m, 1, "adapter", b) /\ OnAdapter(m, 2, "batteries", b)
  \/ Len(m) = 3 /\ OnDevice(h, m, 1, "device") /\ OnAdapter(m, 2, "adapter", b)
       /\ OnAdapter(m, 3, "batteries", b)
OnTransport(h, m) == m # << >> /\ m[1].do \in OfTransport /\ m[1].id \in DOMAIN h.transport
MainShape(h, m, b) ==
  \/ Shape(h, m, b)
  \/ /\ OnTransport(h, m)
     /\ Shape(h, Tail(m), b) /\ Tail(m) # << >> /\ Tail(m)[1].do \in {"leaveAdapter", "device"}

ByMainT(m) == [t \in Nat |-> One(InMain(m, OfTransport, t))]
ByMainD(m) == [d \in Nat |-> One(InMain(m, OfDevice, d))]
ByMainA(m, b) ==
  [a \in Nat |-> One(b # None /\ b = a /\ ~(m # << >> /\ m[1].do = "batteries")) + One(InMain(m, {"leaveAdapter"}, a))]

\* The join of a link that only main tears down.
Joined ==
  main # << >> /\ main[1].do = "join" =>
    LET r == heap.transport[main[1].id]
    IN /\ ~r.quirk
       /\ main[1].id \notin crossed => r.thread \in {"run", "lost", "ended"} /\ ~r.freed

Bluez ==
  /\ bluez # None => bluez \in DOMAIN heap.adapter
  /\ bluez = None => \A d \in DOMAIN heap.device : ~heap.device[d].battery

Doing == OfTransport \cup OfDevice \cup {"leaveAdapter", "adapter", "batteries"}
FrameRec == [do : Doing, id : Nat]

Inv ==
  /\ main \in Seq(FrameRec)
  /\ heap.stale => crossed # {}
  /\ ~heap.stale =>
       /\ Sound(heap, ByMainT(main), ByMainD(main), ByMainA(main, bluez))
       /\ MainShape(heap, main, bluez)
       /\ Joined
       /\ Bluez

----------------------------------------------------------------------------
(* Edits of one structure *)

SetT(h, t, r) == [h EXCEPT !.transport = [@ EXCEPT ![t] = r]]
SetD(h, d, r) == [h EXCEPT !.device = [@ EXCEPT ![d] = r]]
SetA(h, a, r) == [h EXCEPT !.adapter = [@ EXCEPT ![a] = r]]

Rest(h) == <<h.listed, h.store, h.file, h.stale>>

LEMMA HeapIs ==
  ASSUME NEW h \in HeapRec
  PROVE  /\ \A t \in DOMAIN h.transport : h.transport[t] \in TransportRec
         /\ \A d \in DOMAIN h.device : h.device[d] \in DeviceRec
         /\ \A a \in DOMAIN h.adapter : h.adapter[a] \in AdapterRec
         /\ DOMAIN h.transport = 1 .. Len(h.transport) /\ Len(h.transport) \in Nat
         /\ DOMAIN h.device = 1 .. Len(h.device) /\ Len(h.device) \in Nat
         /\ DOMAIN h.adapter = 1 .. Len(h.adapter) /\ Len(h.adapter) \in Nat
         /\ h.listed \in Nat /\ h.stale \in BOOLEAN
         /\ \A x \in Address : h.store[x] \in Nat /\ h.file[x] \in Nat
  <1>1. h.transport \in Seq(TransportRec) /\ h.device \in Seq(DeviceRec) /\ h.adapter \in Seq(AdapterRec)
    BY DEF HeapRec
  <1>2. ASSUME NEW S, NEW s \in Seq(S)
        PROVE  (\A i \in DOMAIN s : s[i] \in S) /\ DOMAIN s = 1 .. Len(s) /\ Len(s) \in Nat
    BY <1>2
  <1> QED BY <1>1, <1>2 DEF HeapRec

LEMMA SetTIs ==
  ASSUME NEW h \in HeapRec, NEW t \in DOMAIN h.transport, NEW r \in TransportRec
  PROVE  /\ SetT(h, t, r) \in HeapRec
         /\ DOMAIN SetT(h, t, r).transport = DOMAIN h.transport
         /\ \A u \in DOMAIN h.transport : SetT(h, t, r).transport[u] = IF u = t THEN r ELSE h.transport[u]
         /\ SetT(h, t, r).device = h.device /\ SetT(h, t, r).adapter = h.adapter
         /\ SetT(h, t, r).listed = h.listed /\ SetT(h, t, r).store = h.store
         /\ SetT(h, t, r).file = h.file /\ SetT(h, t, r).stale = h.stale
  <1>1. h.transport \in Seq(TransportRec) BY DEF HeapRec
  <1>2. [h.transport EXCEPT ![t] = r] \in Seq(TransportRec) BY <1>1
  <1> QED BY <1>1, <1>2 DEF SetT, HeapRec

LEMMA SetDIs ==
  ASSUME NEW h \in HeapRec, NEW d \in DOMAIN h.device, NEW r \in DeviceRec
  PROVE  /\ SetD(h, d, r) \in HeapRec
         /\ DOMAIN SetD(h, d, r).device = DOMAIN h.device
         /\ \A e \in DOMAIN h.device : SetD(h, d, r).device[e] = IF e = d THEN r ELSE h.device[e]
         /\ SetD(h, d, r).transport = h.transport /\ SetD(h, d, r).adapter = h.adapter
         /\ SetD(h, d, r).listed = h.listed /\ SetD(h, d, r).store = h.store
         /\ SetD(h, d, r).file = h.file /\ SetD(h, d, r).stale = h.stale
  <1>1. h.device \in Seq(DeviceRec) BY DEF HeapRec
  <1>2. [h.device EXCEPT ![d] = r] \in Seq(DeviceRec) BY <1>1
  <1> QED BY <1>1, <1>2 DEF SetD, HeapRec

LEMMA SetAIs ==
  ASSUME NEW h \in HeapRec, NEW a \in DOMAIN h.adapter, NEW r \in AdapterRec
  PROVE  /\ SetA(h, a, r) \in HeapRec
         /\ DOMAIN SetA(h, a, r).adapter = DOMAIN h.adapter
         /\ \A b \in DOMAIN h.adapter : SetA(h, a, r).adapter[b] = IF b = a THEN r ELSE h.adapter[b]
         /\ SetA(h, a, r).transport = h.transport /\ SetA(h, a, r).device = h.device
         /\ SetA(h, a, r).listed = h.listed /\ SetA(h, a, r).store = h.store
         /\ SetA(h, a, r).file = h.file /\ SetA(h, a, r).stale = h.stale
  <1>1. h.adapter \in Seq(AdapterRec) BY DEF HeapRec
  <1>2. [h.adapter EXCEPT ![a] = r] \in Seq(AdapterRec) BY <1>1
  <1> QED BY <1>1, <1>2 DEF SetA, HeapRec

\* What is not a transport, a device or an adapter.
LEMMA SetRestIs ==
  ASSUME NEW h \in HeapRec, NEW l \in Nat, NEW s \in [Address -> Nat], NEW f \in [Address -> Nat]
  PROVE  LET g == [h EXCEPT !.listed = l, !.store = s, !.file = f]
         IN /\ g \in HeapRec /\ g.transport = h.transport /\ g.device = h.device
            /\ g.adapter = h.adapter /\ g.listed = l /\ g.store = s /\ g.file = f /\ g.stale = h.stale
  BY DEF HeapRec

----------------------------------------------------------------------------
(* Counts *)

LEMMA LoseOne ==
  ASSUME NEW S, IsFiniteSet(S), NEW x \in S
  PROVE  Cardinality(S \ {x}) = Cardinality(S) - 1 /\ Cardinality(S) \in Nat \ {0}
         /\ IsFiniteSet(S \ {x})
  <1>1. Cardinality(S) \in Nat /\ (Cardinality(S) = 0 <=> S = {})
    BY FS_CardinalityType, FS_EmptySet
  <1> QED BY <1>1, FS_RemoveElement

LEMMA GainOne ==
  ASSUME NEW S, IsFiniteSet(S), NEW x, x \notin S
  PROVE  Cardinality(S \cup {x}) = Cardinality(S) + 1 /\ IsFiniteSet(S \cup {x})
  BY FS_AddElement

LEMMA Finite ==
  ASSUME NEW h \in HeapRec
  PROVE  /\ \A d : IsFiniteSet(TransportsOf(h, d)) /\ Cardinality(TransportsOf(h, d)) \in Nat
         /\ \A a : IsFiniteSet(DevicesOf(h, a)) /\ Cardinality(DevicesOf(h, a)) \in Nat
         /\ \A d : Cardinality(TransportsOf(h, d)) = 0 <=> TransportsOf(h, d) = {}
         /\ \A a : Cardinality(DevicesOf(h, a)) = 0 <=> DevicesOf(h, a) = {}
  <1>1. IsFiniteSet(DOMAIN h.transport) /\ IsFiniteSet(DOMAIN h.device)
    BY HeapIs, FS_Interval
  <1> QED BY <1>1, FS_Subset, FS_CardinalityType, FS_EmptySet DEF TransportsOf, DevicesOf

Counts == [Nat -> Nat]
\* From one count of what is held outside the heap to the next.
Moved(f, g, i, n) == \A j \in Nat : g[j] = IF j = i THEN n ELSE f[j]

----------------------------------------------------------------------------

ThreadOk(r) ==
  /\ r.sco <=> r.thread # "ended"
  /\ r.thread \in {"ended", "destroying", "released"} => ~r.exported
  /\ ~r.quirk => ~r.exported
  /\ r.rfcomm => ~r.freed /\ r.thread \notin {"destroying", "released"}
  /\ r.freed => r.thread = "ended"
  /\ r.freer # NoOne => r.refs = 0

Own(r) ==
  One(r.exported \/ r.calls > 0) + One(r.client) + One(r.sco) + One(r.thread = "destroying")

\* A transport that stays as it is, freed or not.
LEMMA EditTransport ==
  ASSUME NEW h, NEW et \in Counts, NEW ed \in Counts, NEW ea \in Counts, Sound(h, et, ed, ea),
         NEW t \in DOMAIN h.transport, NEW r \in TransportRec, NEW fs \in Counts, NEW n \in Nat,
         r.device = h.transport[t].device, ThreadOk(r),
         r.refs > 0 <=> h.transport[t].refs > 0,
         r.freer # NoOne <=> h.transport[t].freer # NoOne,
         r.refs = Own(r) + One(Served(h, t)) + n, Moved(et, fs, t, n)
  PROVE  Sound(SetT(h, t, r), fs, ed, ea)
  <1> DEFINE g == SetT(h, t, r)
  <1>1. h \in HeapRec /\ ~h.stale BY DEF Sound
  <1>2. /\ g \in HeapRec /\ DOMAIN g.transport = DOMAIN h.transport
        /\ \A u \in DOMAIN h.transport : g.transport[u] = IF u = t THEN r ELSE h.transport[u]
        /\ g.device = h.device /\ g.adapter = h.adapter /\ g.listed = h.listed /\ g.store = h.store
        /\ g.file = h.file /\ g.stale = h.stale
    BY <1>1, SetTIs
  <1>n. DOMAIN h.transport \subseteq Nat BY <1>1, HeapIs
  <1> HIDE DEF g
  <1>3. Related(g) BY <1>2 DEF Sound, Related
  <1>4. Listed(g)
    <2>1. Listed(h) BY DEF Sound
    <2>2. g.adapter = h.adapter /\ g.device = h.device /\ g.listed = h.listed BY <1>2
    <2>3. \A a, x : Found(g, a, x) <=> Found(h, a, x) BY ONLY <2>2 DEF Found
    <2> QED BY ONLY <2>1, <2>2, <2>3 DEF Listed
  <1>5. Dispatching(g)
    <2>1. Dispatching(h) BY DEF Sound
    <2>2. \A u \in DOMAIN h.transport : g.transport[u].device = h.transport[u].device BY <1>2
    <2>3. /\ g.adapter = h.adapter /\ g.device = h.device
          /\ DOMAIN g.transport = DOMAIN h.transport
          /\ \A a : (Looks(g, a) <=> Looks(h, a)) /\ (Serves(g, a) <=> Serves(h, a))
      BY <1>2 DEF Looks, Serves
    <2> QED BY ONLY <2>1, <2>2, <2>3 DEF Dispatching
  <1>6. Threads(g) BY <1>2 DEF Sound, Threads, ThreadOk
  <1>7. Filed(g) BY <1>2 DEF Sound, Filed
  <1>8. \A u \in DOMAIN g.transport : Served(g, u) <=> Served(h, u)
    BY <1>2 DEF Served, Serves
  <1>9. ASSUME NEW u \in DOMAIN g.transport PROVE TransportHeld(g, u, fs[u])
    <2>1. CASE u = t BY <2>1, <1>2, <1>8, <1>n, ZenonT(40) DEF TransportHeld, Own, Moved, One
    <2>2. CASE u # t
      <3>1. TransportHeld(h, u, et[u]) BY <1>2, <1>9 DEF Sound, Counted
      <3>2. fs[u] = et[u] /\ g.transport[u] = h.transport[u] /\ (Served(g, u) <=> Served(h, u))
        BY <2>2, <1>2, <1>8, <1>9, <1>n DEF Moved
      <3> QED BY <3>1, <3>2 DEF TransportHeld, One
    <2> QED BY <2>1, <2>2
  <1>10. \A d : TransportsOf(g, d) = TransportsOf(h, d) /\ Looked(g, d) = Looked(h, d)
    BY <1>2 DEF TransportsOf, Kept, Looked, Looks
  <1>11. \A a : DevicesOf(g, a) = DevicesOf(h, a) BY <1>2 DEF DevicesOf
  <1>12. \A d \in DOMAIN g.device : DeviceHeld(g, d, ed[d])
    BY <1>2, <1>10 DEF Sound, Counted, DeviceHeld
  <1>13. \A a \in DOMAIN g.adapter : AdapterHeld(g, a, ea[a])
    BY <1>2, <1>11 DEF Sound, Counted, AdapterHeld
  <1> QED BY <1>1, <1>2, <1>3, <1>4, <1>5, <1>6, <1>7, <1>9, <1>12, <1>13 DEF Sound, Counted, g

\* What an unref leaves as it is.
SameLife(h, g) ==
  /\ DOMAIN g.transport = DOMAIN h.transport
  /\ DOMAIN g.device = DOMAIN h.device /\ DOMAIN g.adapter = DOMAIN h.adapter
  /\ \A t \in DOMAIN h.transport :
       /\ g.transport[t].quirk = h.transport[t].quirk /\ g.transport[t].thread = h.transport[t].thread
       /\ g.transport[t].freed = h.transport[t].freed /\ g.transport[t].device = h.transport[t].device
       /\ g.transport[t].exported => h.transport[t].exported
  /\ \A d \in DOMAIN h.device :
       (g.device[d].battery => h.device[d].battery) /\ g.device[d].adapter = h.device[d].adapter

\* The counts of a transport add up, so a holder finds it.
LEMMA TransportIsHeld ==
  ASSUME NEW h, NEW et \in Counts, NEW ed \in Counts, NEW ea \in Counts, Sound(h, et, ed, ea),
         NEW t \in DOMAIN h.transport
  PROVE  /\ h.transport[t] \in TransportRec /\ ThreadOk(h.transport[t])
         /\ h.transport[t].refs = Own(h.transport[t]) + One(Served(h, t)) + et[t]
         /\ Own(h.transport[t]) \in Nat /\ One(Served(h, t)) \in Nat /\ et[t] \in Nat
         /\ h.transport[t].device \in DOMAIN h.device
         /\ t \in Nat
  <1>1. h \in HeapRec BY DEF Sound
  <1>2. h.transport[t] \in TransportRec /\ t \in Nat BY <1>1, HeapIs
  <1>3. ThreadOk(h.transport[t]) BY DEF Sound, Threads, ThreadOk
  <1>4. TransportHeld(h, t, et[t]) BY DEF Sound, Counted
  <1>5. et[t] \in Nat BY <1>2 DEF Counts
  <1>6. Own(h.transport[t]) \in Nat /\ One(Served(h, t)) \in Nat BY DEF Own, One
  <1>7. h.transport[t].device \in DOMAIN h.device BY DEF Sound, Related
  <1> QED BY <1>2, <1>3, <1>4, <1>5, <1>6, <1>7 DEF TransportHeld, Own

LEMMA RefsOfTransport ==
  ASSUME NEW h \in HeapRec, NEW t \in DOMAIN h.transport, NEW e
  PROVE  [h EXCEPT !.transport[t].refs = e] = SetT(h, t, [h.transport[t] EXCEPT !.refs = e])
  BY DEF SetT, HeapRec

\* The last reference of a transport.
FreedShape(h, g, t, r, c, q) ==
  /\ DOMAIN g.transport = DOMAIN h.transport
  /\ \A u \in DOMAIN h.transport : g.transport[u] = IF u = t THEN r ELSE h.transport[u]
  /\ DOMAIN g.device = DOMAIN h.device
  /\ \A d \in DOMAIN h.device : g.device[d] = IF d = c THEN q ELSE h.device[d]
  /\ g.adapter = h.adapter /\ g.listed = h.listed /\ g.store = h.store /\ g.file = h.file
  /\ g.stale = h.stale

LEMMA FreeTransport ==
  ASSUME NEW h, NEW et \in Counts, NEW ed \in Counts, NEW ea \in Counts, Sound(h, et, ed, ea),
         NEW t \in DOMAIN h.transport, NEW fs \in Counts,
         h.transport[t].refs = 1, et[t] = 1, Moved(et, fs, t, 0),
         NEW r \in TransportRec, NEW c \in DOMAIN h.device, NEW q \in DeviceRec, NEW g \in HeapRec,
         c = h.transport[t].device, r.device = c, r.refs = 0, r.freer # NoOne,
         Own(r) = Own(h.transport[t]), ThreadOk(r),
         q.transport = None, q.addr = h.device[c].addr, q.adapter = h.device[c].adapter,
         q.refs = h.device[c].refs, q.battery = h.device[c].battery,
         FreedShape(h, g, t, r, c, q)
  PROVE  Sound(g, fs, ed, ea)
  <1>1. h \in HeapRec /\ ~h.stale BY DEF Sound
  <1>2. h.transport[t].refs = Own(h.transport[t]) + One(Served(h, t)) + et[t]
    BY TransportIsHeld
  <1>3. Kept(r) /\ Kept(h.transport[t]) BY DEF Kept
  <1>4. Own(r) = 0 /\ ~Served(h, t) BY <1>2 DEF Own, One
  <1>t. /\ DOMAIN g.transport = DOMAIN h.transport
        /\ \A u \in DOMAIN h.transport : g.transport[u] = IF u = t THEN r ELSE h.transport[u]
    BY DEF FreedShape
  <1>8. /\ DOMAIN g.device = DOMAIN h.device
        /\ \A e \in DOMAIN h.device : g.device[e] = IF e = c THEN q ELSE h.device[e]
        /\ g.adapter = h.adapter /\ g.listed = h.listed
        /\ g.store = h.store /\ g.file = h.file /\ g.stale = h.stale
    BY DEF FreedShape
  <1>9. DOMAIN h.transport \subseteq Nat BY <1>1, HeapIs
  <1>10. \A d \in DOMAIN h.device :
          /\ g.device[d].addr = h.device[d].addr
          /\ g.device[d].adapter = h.device[d].adapter
          /\ g.device[d].refs = h.device[d].refs
          /\ g.device[d].battery = h.device[d].battery
          /\ g.device[d].transport \in {None, h.device[d].transport}
    BY <1>8
  <1>11. Related(g)
    <2>1. ASSUME NEW d \in DOMAIN g.device, g.device[d].transport # None
          PROVE  /\ g.device[d].transport \in DOMAIN g.transport
                 /\ g.transport[g.device[d].transport].device = d
                 /\ g.transport[g.device[d].transport].refs > 0
      <3>1. d # c /\ g.device[d].transport = h.device[d].transport /\ d \in DOMAIN h.device
        BY <2>1, <1>8
      <3>2. /\ h.device[d].transport \in DOMAIN h.transport
            /\ h.transport[h.device[d].transport].device = d
            /\ h.transport[h.device[d].transport].refs > 0
        BY <3>1, <2>1 DEF Sound, Related
      <3>3. h.device[d].transport # t BY <3>1, <3>2, <1>3
      <3> QED BY <3>1, <3>2, <3>3, <1>t, <1>8
    <2>2. \A d \in DOMAIN g.device : g.device[d].adapter \in DOMAIN g.adapter
      BY <1>8, <1>10 DEF Sound, Related
    <2>3. \A u \in DOMAIN g.transport : g.transport[u].device \in DOMAIN g.device
      BY <1>t, <1>8, <1>3 DEF Sound, Related
    <2> QED BY <2>1, <2>2, <2>3 DEF Related
  <1>12. Listed(g)
    <2>1. Listed(h) BY DEF Sound
    <2>2. ASSUME NEW a \in DOMAIN h.adapter, NEW x \in Address PROVE Found(g, a, x)
      <3>1. Found(h, a, x) /\ g.adapter = h.adapter BY <2>1, <1>8 DEF Listed
      <3>2. DOMAIN g.device = DOMAIN h.device BY <1>8
      <3> QED BY <3>1, <3>2, <1>10 DEF Found
    <2>3. /\ \A a \in DOMAIN g.adapter : g.adapter[a].refs > 0 <=> g.listed = a
          /\ g.listed # None => g.listed \in DOMAIN g.adapter
      BY <2>1, <1>8 DEF Listed
    <2>4. g.adapter = h.adapter BY <1>8
    <2> QED BY <2>2, <2>3, <2>4 DEF Listed
  <1>13. Dispatching(g)
    <2>1. \A u \in DOMAIN h.transport : g.transport[u].device = h.transport[u].device
      BY <1>3, <1>t, <1>8
    <2>2. Dispatching(h) BY DEF Sound
    <2>3. ASSUME NEW a \in DOMAIN h.adapter, Looks(h, a)
          PROVE  /\ h.adapter[a].held # << >> /\ h.adapter[a].held[1] \in DOMAIN g.device
                 /\ g.device[h.adapter[a].held[1]].adapter = a
      <3>1. /\ h.adapter[a].held # << >> /\ h.adapter[a].held[1] \in DOMAIN h.device
            /\ h.device[h.adapter[a].held[1]].adapter = a
        BY <2>2, <2>3 DEF Dispatching
      <3> QED BY <3>1, <1>8, <1>10
    <2>4. ASSUME NEW a \in DOMAIN h.adapter, Serves(h, a)
          PROVE  /\ h.adapter[a].held[2] \in DOMAIN g.transport
                 /\ g.transport[h.adapter[a].held[2]].device = h.adapter[a].held[1]
      <3>1. /\ h.adapter[a].held[2] \in DOMAIN h.transport
            /\ h.transport[h.adapter[a].held[2]].device = h.adapter[a].held[1]
        BY <2>2, <2>4 DEF Dispatching
      <3> QED BY <3>1, <1>t, <2>1
    <2>5. g.adapter = h.adapter BY <1>8
    <2> QED BY <2>3, <2>4, <2>5, ZenonT(40) DEF Dispatching, Looks, Serves
  <1>14. Threads(g)
    <2>1. \A u \in DOMAIN h.transport : ThreadOk(h.transport[u]) BY DEF Sound, Threads, ThreadOk
    <2>2. \A u \in DOMAIN g.transport : ThreadOk(g.transport[u]) BY <2>1, <1>3, <1>t
    <2> QED BY <2>2 DEF Threads, ThreadOk
  <1>15. Filed(g)
    <2>1. Filed(h) BY DEF Sound
    <2>2. g.store = h.store /\ DOMAIN g.device = DOMAIN h.device BY <1>8
    <2> QED BY ONLY <2>1, <2>2, <1>10 DEF Filed
  <1>16. \A u \in DOMAIN g.transport : Served(g, u) <=> Served(h, u)
    <2>1. \A u \in DOMAIN h.transport :
            g.transport[u].device = h.transport[u].device /\ h.transport[u].device \in DOMAIN h.device
      BY <1>3, <1>t DEF Sound, Related
    <2>2. ASSUME NEW u \in DOMAIN h.transport
          PROVE  g.device[g.transport[u].device].adapter = h.device[h.transport[u].device].adapter
      BY <2>1, <1>8, <1>10
    <2> QED BY <2>2, <1>t, <1>8 DEF Served, Serves
  <1>17. ASSUME NEW u \in DOMAIN g.transport PROVE TransportHeld(g, u, fs[u])
    <2>1. CASE u = t
      <3>1. fs[t] = 0 /\ g.transport[t] = r /\ ~Served(g, t) BY <2>1, <1>4, <1>t, <1>8, <1>9, <1>16 DEF Moved
      <3>2. r.refs = 0 /\ Own(r) = 0 /\ One(Served(g, t)) = 0 BY <3>1, <1>3, <1>4 DEF One
      <3>3. r.refs = Own(r) + One(Served(g, t)) + fs[t] BY <3>1, <3>2
      <3> QED BY <3>1, <3>3, <2>1 DEF TransportHeld, Own
    <2>2. CASE u # t
      <3>1. TransportHeld(h, u, et[u]) BY <1>t, <1>8, <1>17 DEF Sound, Counted
      <3>2. fs[u] = et[u] /\ g.transport[u] = h.transport[u] /\ (Served(g, u) <=> Served(h, u))
        BY <2>2, <1>t, <1>16, <1>17, <1>9 DEF Moved
      <3> QED BY <3>1, <3>2 DEF TransportHeld, One
    <2> QED BY <2>1, <2>2
  <1>18. \A d : TransportsOf(g, d) = TransportsOf(h, d)
    <2>1. \A u \in DOMAIN h.transport :
            /\ g.transport[u].device = h.transport[u].device
            /\ Kept(g.transport[u]) <=> Kept(h.transport[u])
      BY <1>3, <1>t
    <2> QED BY <2>1, <1>t DEF TransportsOf
  <1>19. \A d \in DOMAIN g.device : Looked(g, d) <=> Looked(h, d)
    BY <1>8, <1>10 DEF Looked, Looks
  <1>20. \A a : DevicesOf(g, a) = DevicesOf(h, a)
    <2>1. DOMAIN g.device = DOMAIN h.device BY <1>8
    <2> QED BY ONLY <2>1, <1>10 DEF DevicesOf
  <1>21. ASSUME NEW d \in DOMAIN g.device PROVE DeviceHeld(g, d, ed[d])
    <2>1. DeviceHeld(h, d, ed[d]) BY <1>8 DEF Sound, Counted
    <2>2. d \in DOMAIN h.device BY <1>8
    <2>3. /\ g.device[d].refs = h.device[d].refs /\ g.device[d].battery = h.device[d].battery
          /\ TransportsOf(g, d) = TransportsOf(h, d) /\ (Looked(g, d) <=> Looked(h, d))
      BY <2>2, <1>10, <1>18, <1>19, <1>21
    <2> QED BY <2>1, <2>3 DEF DeviceHeld, One
  <1>22. \A a \in DOMAIN g.adapter : AdapterHeld(g, a, ea[a])
    BY <1>8, <1>20 DEF Sound, Counted, AdapterHeld
  <1> QED BY <1>1, <1>8, <1>11, <1>12, <1>13, <1>14, <1>15, <1>17, <1>21, <1>22 DEF Sound, Counted

LEMMA UnrefTransport ==
  ASSUME NEW h, NEW et \in Counts, NEW ed \in Counts, NEW ea \in Counts, Sound(h, et, ed, ea),
         NEW t \in DOMAIN h.transport, NEW by \in Who, by # NoOne, NEW fs \in Counts,
         et[t] > 0, Moved(et, fs, t, et[t] - 1)
  PROVE  /\ Sound(TransportUnref(h, t, by), fs, ed, ea)
         /\ SameLife(h, TransportUnref(h, t, by))
  <1>1. h \in HeapRec /\ ~h.stale BY DEF Sound
  <1>2. /\ h.transport[t] \in TransportRec /\ ThreadOk(h.transport[t])
        /\ h.transport[t].refs = Own(h.transport[t]) + One(Served(h, t)) + et[t]
        /\ Own(h.transport[t]) \in Nat /\ One(Served(h, t)) \in Nat /\ et[t] \in Nat
        /\ h.transport[t].device \in DOMAIN h.device /\ t \in Nat
    BY TransportIsHeld
  <1> DEFINE r == [h.transport[t] EXCEPT !.refs = @ - 1]
             r0 == [h.transport[t] EXCEPT !.refs = 0, !.freer = by]
             q == [h.device[h.transport[t].device] EXCEPT !.transport = None]
  <1>3. h.transport[t].refs \in Nat /\ h.transport[t].refs > 0 BY <1>2
  <1>4. Used(h, h.transport[t].refs) = h /\ Less(h.transport[t].refs) = h.transport[t].refs - 1
    BY <1>3 DEF Used, Less
  <1>5. CASE h.transport[t].refs > 1
    <2>1. /\ r \in TransportRec /\ r.refs = h.transport[t].refs - 1
          /\ r.device = h.transport[t].device /\ r.freer = h.transport[t].freer
          /\ Own(r) = Own(h.transport[t]) /\ r.freer = h.transport[t].freer
          /\ r.quirk = h.transport[t].quirk /\ r.thread = h.transport[t].thread
          /\ r.freed = h.transport[t].freed /\ r.exported = h.transport[t].exported
      BY <1>2, <1>5 DEF TransportRec, Own
    <2>2. ThreadOk(r) BY <2>1, <1>2, <1>5 DEF ThreadOk, TransportRec
    <2>3. TransportUnref(h, t, by) = SetT(h, t, r)
      <3>1. [h EXCEPT !.transport[t].refs = Less(@)] = SetT(h, t, r)
        BY <1>1, <1>4, RefsOfTransport
      <3>2. SetT(h, t, r).transport[t].refs > 0
        <4>1. SetT(h, t, r).transport[t] = r BY <1>1, <2>1, SetTIs
        <4> HIDE DEF r
        <4> QED BY <4>1, <2>1, <1>5, <1>3
      <3> QED BY <1>4, <3>1, <3>2 DEF TransportUnref
    <2> DEFINE n == et[t] - 1
    <2>4. n \in Nat /\ r.refs = Own(r) + One(Served(h, t)) + n BY <1>2, <2>1
    <2>5. (r.refs > 0 <=> h.transport[t].refs > 0) /\ (r.freer # NoOne <=> h.transport[t].freer # NoOne)
      BY <2>1, <1>5, <1>2
    <2> HIDE DEF r, n
    <2>6. Moved(et, fs, t, n) BY DEF n
    <2>7. Sound(SetT(h, t, r), fs, ed, ea) BY <2>1, <2>2, <2>4, <2>5, <2>6, EditTransport
    <2>8. SameLife(h, SetT(h, t, r)) BY <2>1, <1>1, SetTIs DEF SameLife
    <2> QED BY <2>3, <2>7, <2>8
  <1>6. CASE h.transport[t].refs = 1
    <2>1. et[t] = 1 BY <1>2, <1>6
    <2>2. TransportUnref(h, t, by) = SetD(SetT(h, t, r0), h.transport[t].device, q)
      <3> DEFINE z == [h.transport[t] EXCEPT !.refs = 0]
                 k == SetT(h, t, z)
      <3>1. [h EXCEPT !.transport[t].refs = Less(@)] = k
        <4>1. Less(h.transport[t].refs) = 0 BY <1>4, <1>6
        <4> QED BY <1>1, <4>1, RefsOfTransport
      <3>2. z \in TransportRec /\ z.refs = 0 BY <1>2 DEF TransportRec
      <3>3. k.transport[t] = z BY <1>1, <3>2, SetTIs
      <3>5. TransportUnref(h, t, by) =
              [k EXCEPT !.device[h.transport[t].device].transport = None, !.transport[t].freer = by]
        <4>0. k.transport[t].refs = 0 BY <3>2, <3>3
        <4>1. ~(k.transport[t].refs > 0) BY <4>0
        <4>2. [Used(h, h.transport[t].refs) EXCEPT !.transport[t].refs = Less(@)] = k BY <1>4, <3>1
        <4> HIDE DEF k
        <4>3. TransportUnref(h, t, by) = IF k.transport[t].refs > 0 THEN k ELSE [k EXCEPT !.device[h.transport[t].device].transport = None, !.transport[t].freer = by]
          BY <4>2, Zenon DEF TransportUnref
        <4> QED BY <4>3, <4>1, Zenon
      <3>6. [k EXCEPT !.device[h.transport[t].device].transport = None, !.transport[t].freer = by]
              = SetD(SetT(h, t, r0), h.transport[t].device, q)
        BY <1>1, <1>2, ZenonT(50) DEF SetT, SetD, HeapRec, TransportRec
      <3> QED BY <3>5, <3>6
    <2>3. Moved(et, fs, t, 0) BY <2>1
    <2> DEFINE c == h.transport[t].device
               k == SetT(h, t, r0)
               g == SetD(k, c, q)
    <2>4. /\ r0 \in TransportRec /\ r0.device = c /\ r0.refs = 0 /\ r0.freer # NoOne
          /\ r0.quirk = h.transport[t].quirk /\ r0.thread = h.transport[t].thread
          /\ r0.freed = h.transport[t].freed /\ r0.exported = h.transport[t].exported
          /\ Own(r0) = Own(h.transport[t])
      BY <1>2 DEF TransportRec, Own
    <2>5. ThreadOk(r0) BY <1>2 DEF ThreadOk, TransportRec
    <2>6. h.device[c] \in DeviceRec /\ c \in DOMAIN h.device BY <1>1, <1>2, HeapIs
    <2>7. /\ q \in DeviceRec /\ q.transport = None /\ q.addr = h.device[c].addr
          /\ q.adapter = h.device[c].adapter /\ q.refs = h.device[c].refs
          /\ q.battery = h.device[c].battery
      BY <2>6 DEF DeviceRec, None
    <2>r. r0.device = c BY <2>4
    <2> HIDE DEF r0, q
    <2>8. /\ k \in HeapRec /\ DOMAIN k.transport = DOMAIN h.transport
          /\ \A u \in DOMAIN h.transport : k.transport[u] = IF u = t THEN r0 ELSE h.transport[u]
          /\ k.device = h.device /\ k.adapter = h.adapter /\ k.listed = h.listed /\ k.store = h.store
          /\ k.file = h.file /\ k.stale = h.stale
      BY <1>1, <2>4, SetTIs
    <2> HIDE DEF k, c
    <2>9. /\ g \in HeapRec /\ DOMAIN g.device = DOMAIN h.device
          /\ \A e \in DOMAIN h.device : g.device[e] = IF e = c THEN q ELSE h.device[e]
          /\ g.transport = k.transport /\ g.adapter = k.adapter /\ g.listed = k.listed
          /\ g.store = k.store /\ g.file = k.file /\ g.stale = k.stale
      BY <2>6, <2>7, <2>8, SetDIs
    <2> HIDE DEF g
    <2>10. /\ DOMAIN g.transport = DOMAIN h.transport
           /\ \A u \in DOMAIN h.transport : g.transport[u] = IF u = t THEN r0 ELSE h.transport[u]
           /\ g.adapter = h.adapter /\ g.listed = h.listed
           /\ g.store = h.store /\ g.file = h.file /\ g.stale = h.stale
      BY <2>8, <2>9
    <2>c. c = h.transport[t].device BY DEF c
    <2>g. FreedShape(h, g, t, r0, c, q) BY <2>9, <2>10 DEF FreedShape
    <2>11. Sound(g, fs, ed, ea)
      BY <1>6, <2>c, <2>1, <2>3, <2>4, <2>5, <2>6, <2>7, <2>9, <2>g, FreeTransport
    <2>12. SameLife(h, g) BY <2>4, <2>7, <2>9, <2>10, <2>c DEF SameLife
    <2> QED BY <2>2, <2>11, <2>12 DEF g, k, c
  <1> QED BY <1>3, <1>5, <1>6

----------------------------------------------------------------------------
(* Devices and adapters *)

LEMMA DeviceIsHeld ==
  ASSUME NEW h, NEW et \in Counts, NEW ed \in Counts, NEW ea \in Counts, Sound(h, et, ed, ea),
         NEW d \in DOMAIN h.device
  PROVE  /\ h.device[d] \in DeviceRec /\ d \in Nat /\ h.device[d].adapter \in DOMAIN h.adapter
         /\ h.device[d].refs = Cardinality(TransportsOf(h, d)) + One(h.device[d].battery)
                                 + One(Looked(h, d)) + ed[d]
         /\ Cardinality(TransportsOf(h, d)) \in Nat /\ One(h.device[d].battery) \in Nat
         /\ One(Looked(h, d)) \in Nat /\ ed[d] \in Nat
  <1>1. h \in HeapRec BY DEF Sound
  <1>2. h.device[d] \in DeviceRec /\ d \in Nat BY <1>1, HeapIs
  <1>3. h.device[d].adapter \in DOMAIN h.adapter BY DEF Sound, Related
  <1>4. DeviceHeld(h, d, ed[d]) BY DEF Sound, Counted
  <1>5. ed[d] \in Nat BY <1>2 DEF Counts
  <1>6. One(h.device[d].battery) \in Nat /\ One(Looked(h, d)) \in Nat BY DEF One
  <1>7. Cardinality(TransportsOf(h, d)) \in Nat BY <1>1, Finite
  <1> QED BY <1>2, <1>3, <1>4, <1>5, <1>6, <1>7 DEF DeviceHeld

LEMMA AdapterIsHeld ==
  ASSUME NEW h, NEW et \in Counts, NEW ed \in Counts, NEW ea \in Counts, Sound(h, et, ed, ea),
         NEW a \in DOMAIN h.adapter
  PROVE  /\ h.adapter[a] \in AdapterRec /\ a \in Nat
         /\ h.adapter[a].refs = Cardinality(DevicesOf(h, a)) + ea[a]
         /\ Cardinality(DevicesOf(h, a)) \in Nat /\ ea[a] \in Nat
  <1>1. h \in HeapRec BY DEF Sound
  <1>2. h.adapter[a] \in AdapterRec /\ a \in Nat BY <1>1, HeapIs
  <1>4. AdapterHeld(h, a, ea[a]) BY DEF Sound, Counted
  <1>5. ea[a] \in Nat BY <1>2 DEF Counts
  <1>7. Cardinality(DevicesOf(h, a)) \in Nat BY <1>1, Finite
  <1> QED BY <1>2, <1>4, <1>5, <1>7 DEF AdapterHeld

DeviceShape(h, g, d, q) ==
  /\ DOMAIN g.device = DOMAIN h.device
  /\ \A e \in DOMAIN h.device : g.device[e] = IF e = d THEN q ELSE h.device[e]
  /\ g.transport = h.transport /\ g.adapter = h.adapter /\ g.listed = h.listed /\ g.store = h.store
  /\ g.file = h.file /\ g.stale = h.stale

\* A device that stays as it is, freed or not.
LEMMA DeviceChanges ==
  ASSUME NEW h, NEW et \in Counts, NEW ed \in Counts, NEW ea \in Counts, Sound(h, et, ed, ea),
         NEW d \in DOMAIN h.device, NEW q \in DeviceRec, NEW fs \in Counts, NEW n \in Nat,
         q.adapter = h.device[d].adapter, q.addr = h.device[d].addr,
         q.transport \in {None, h.device[d].transport},
         q.refs > 0 <=> h.device[d].refs > 0,
         q.refs = Cardinality(TransportsOf(h, d)) + One(q.battery) + One(Looked(h, d)) + n,
         Moved(ed, fs, d, n), NEW g \in HeapRec, DeviceShape(h, g, d, q)
  PROVE  Sound(g, et, fs, ea)
  <1>1. h \in HeapRec /\ ~h.stale BY DEF Sound
  <1>2. /\ DOMAIN g.device = DOMAIN h.device
        /\ \A e \in DOMAIN h.device : g.device[e] = IF e = d THEN q ELSE h.device[e]
        /\ g.transport = h.transport /\ g.adapter = h.adapter /\ g.listed = h.listed
        /\ g.store = h.store /\ g.file = h.file /\ g.stale = h.stale
    BY DEF DeviceShape
  <1>3. \A e \in DOMAIN h.device :
          /\ g.device[e].addr = h.device[e].addr
          /\ g.device[e].adapter = h.device[e].adapter
          /\ g.device[e].refs > 0 <=> h.device[e].refs > 0
          /\ g.device[e].transport \in {None, h.device[e].transport}
    BY <1>2
  <1>n. DOMAIN h.device \subseteq Nat BY <1>1, HeapIs
  <1>4. Related(g)
    <2>1. Related(h) BY DEF Sound
    <2>2. /\ g.transport = h.transport /\ g.adapter = h.adapter
          /\ DOMAIN g.device = DOMAIN h.device
      BY ONLY <1>2
    <2> QED BY ONLY <2>1, <2>2, <1>3 DEF Related
  <1>5. Listed(g)
    <2>1. Listed(h) BY DEF Sound
    <2>2. ASSUME NEW a \in DOMAIN h.adapter, NEW x \in Address PROVE Found(g, a, x)
      <3>1. Found(h, a, x) /\ g.adapter = h.adapter BY <2>1, <1>2 DEF Listed
      <3> QED BY <3>1, <1>2, <1>3 DEF Found
    <2>3. g.adapter = h.adapter /\ g.listed = h.listed BY <1>2
    <2> QED BY <2>1, <2>2, <2>3 DEF Listed
  <1>6. Dispatching(g)
    <2>1. Dispatching(h) BY DEF Sound
    <2>2. /\ g.adapter = h.adapter /\ g.transport = h.transport
          /\ DOMAIN g.device = DOMAIN h.device
      BY ONLY <1>2
    <2>3. \A a : (Looks(g, a) <=> Looks(h, a)) /\ (Serves(g, a) <=> Serves(h, a))
      BY ONLY <2>2 DEF Looks, Serves
    <2>4. \A c \in DOMAIN h.device : g.device[c].adapter = h.device[c].adapter BY ONLY <1>3
    <2>5. ASSUME NEW a \in DOMAIN h.adapter
          PROVE  /\ Looks(h, a) => /\ h.adapter[a].held # << >>
                                   /\ h.adapter[a].held[1] \in DOMAIN g.device
                                   /\ g.device[h.adapter[a].held[1]].adapter = a
                 /\ Serves(h, a) => /\ h.adapter[a].held[2] \in DOMAIN g.transport
                                    /\ g.transport[h.adapter[a].held[2]].device = h.adapter[a].held[1]
      BY ONLY <2>5, <2>1, <2>2, <2>4 DEF Dispatching
    <2> QED BY ONLY <2>2, <2>3, <2>5 DEF Dispatching
  <1>7. Threads(g) BY <1>2 DEF Sound, Threads
  <1>8. Filed(g)
    <2>1. Filed(h) BY DEF Sound
    <2> QED BY <2>1, <1>2, <1>3 DEF Filed
  <1>9. \A u \in DOMAIN g.transport : Served(g, u) <=> Served(h, u)
    <2>1. ASSUME NEW u \in DOMAIN h.transport
          PROVE  g.device[h.transport[u].device].adapter = h.device[h.transport[u].device].adapter
      <3>1. h.transport[u].device \in DOMAIN h.device BY DEF Sound, Related
      <3> QED BY <3>1, <1>3
    <2>2. g.adapter = h.adapter /\ g.transport = h.transport BY <1>2
    <2> QED BY <2>1, <2>2 DEF Served, Serves
  <1>10. ASSUME NEW u \in DOMAIN g.transport PROVE TransportHeld(g, u, et[u])
    <2>1. TransportHeld(h, u, et[u]) /\ g.transport[u] = h.transport[u]
      BY <1>2 DEF Sound, Counted
    <2> QED BY <2>1, <1>9, <1>10 DEF TransportHeld, One
  <1>11. \A e : TransportsOf(g, e) = TransportsOf(h, e) BY <1>2 DEF TransportsOf
  <1>12. \A e \in DOMAIN h.device : Looked(g, e) <=> Looked(h, e)
    BY <1>2, <1>3 DEF Looked, Looks
  <1>13. ASSUME NEW e \in DOMAIN g.device PROVE DeviceHeld(g, e, fs[e])
    <2>1. e \in DOMAIN h.device /\ TransportsOf(g, e) = TransportsOf(h, e) /\ (Looked(g, e) <=> Looked(h, e))
      BY <1>2, <1>11, <1>12
    <2>2. CASE e = d
      <3>1. g.device[d] = q /\ fs[d] = n BY <2>2, <1>2, <1>n DEF Moved
      <3> QED BY <3>1, <2>1, <2>2 DEF DeviceHeld, One
    <2>3. CASE e # d
      <3>1. g.device[e] = h.device[e] /\ fs[e] = ed[e] BY <2>1, <2>3, <1>2, <1>n DEF Moved
      <3>2. DeviceHeld(h, e, ed[e]) BY <2>1 DEF Sound, Counted
      <3> QED BY <3>1, <3>2, <2>1 DEF DeviceHeld, One
    <2> QED BY <2>2, <2>3
  <1>14. \A a : DevicesOf(g, a) = DevicesOf(h, a) BY <1>2, <1>3 DEF DevicesOf
  <1>15. \A a \in DOMAIN g.adapter : AdapterHeld(g, a, ea[a])
    BY <1>2, <1>14 DEF Sound, Counted, AdapterHeld
  <1> QED BY <1>1, <1>2, <1>4, <1>5, <1>6, <1>7, <1>8, <1>10, <1>13, <1>15 DEF Sound, Counted

LEMMA EditDevice ==
  ASSUME NEW h, NEW et \in Counts, NEW ed \in Counts, NEW ea \in Counts, Sound(h, et, ed, ea),
         NEW d \in DOMAIN h.device, NEW q \in DeviceRec, NEW fs \in Counts, NEW n \in Nat,
         q.adapter = h.device[d].adapter, q.addr = h.device[d].addr,
         q.transport \in {None, h.device[d].transport},
         q.refs > 0 <=> h.device[d].refs > 0,
         q.refs = Cardinality(TransportsOf(h, d)) + One(q.battery) + One(Looked(h, d)) + n,
         Moved(ed, fs, d, n)
  PROVE  Sound(SetD(h, d, q), et, fs, ea)
  <1>1. h \in HeapRec BY DEF Sound
  <1>2. SetD(h, d, q) \in HeapRec /\ DeviceShape(h, SetD(h, d, q), d, q)
    BY <1>1, SetDIs DEF DeviceShape
  <1> QED BY <1>2, DeviceChanges

AdapterShape(h, g, a, r) ==
  /\ DOMAIN g.adapter = DOMAIN h.adapter
  /\ \A b \in DOMAIN h.adapter : g.adapter[b] = IF b = a THEN r ELSE h.adapter[b]
  /\ g.transport = h.transport /\ g.device = h.device /\ g.store = h.store
  /\ g.file = h.file /\ g.stale = h.stale

\* An adapter whose table and dispatcher stay as they are; freed, it is not listed.
LEMMA AdapterChanges ==
  ASSUME NEW h, NEW et \in Counts, NEW ed \in Counts, NEW ea \in Counts, Sound(h, et, ed, ea),
         NEW a \in DOMAIN h.adapter, NEW r \in AdapterRec, NEW fs \in Counts, NEW n \in Nat,
         r.devices = h.adapter[a].devices, r.held = h.adapter[a].held,
         \/ r.dispatcher = h.adapter[a].dispatcher
         \/ {r.dispatcher, h.adapter[a].dispatcher} \subseteq {"none", "poll", "ended"},
         r.refs = Cardinality(DevicesOf(h, a)) + n, Moved(ea, fs, a, n),
         NEW g \in HeapRec, AdapterShape(h, g, a, r),
         \/ g.listed = h.listed /\ (r.refs > 0 <=> h.adapter[a].refs > 0)
         \/ g.listed = None /\ r.refs = 0 /\ h.adapter[a].refs > 0
  PROVE  Sound(g, et, ed, fs)
  <1>1. h \in HeapRec /\ ~h.stale BY DEF Sound
  <1>2. /\ DOMAIN g.adapter = DOMAIN h.adapter
        /\ \A b \in DOMAIN h.adapter : g.adapter[b] = IF b = a THEN r ELSE h.adapter[b]
        /\ g.transport = h.transport /\ g.device = h.device /\ g.store = h.store
        /\ g.file = h.file /\ g.stale = h.stale
    BY DEF AdapterShape
  <1>3. \A b \in DOMAIN h.adapter :
          /\ g.adapter[b].devices = h.adapter[b].devices
          /\ g.adapter[b].held = h.adapter[b].held
          /\ Looks(g, b) <=> Looks(h, b)
          /\ Serves(g, b) <=> Serves(h, b)
    <2>1. /\ r.dispatcher \in {"device", "serve"} <=> h.adapter[a].dispatcher \in {"device", "serve"}
          /\ r.dispatcher = "serve" <=> h.adapter[a].dispatcher = "serve"
      OBVIOUS
    <2>2. ASSUME NEW b \in DOMAIN h.adapter
          PROVE  /\ g.adapter[b].devices = h.adapter[b].devices
                 /\ g.adapter[b].held = h.adapter[b].held
                 /\ g.adapter[b].dispatcher \in {"device", "serve"} <=> h.adapter[b].dispatcher \in {"device", "serve"}
                 /\ g.adapter[b].dispatcher = "serve" <=> h.adapter[b].dispatcher = "serve"
      BY <1>2, <2>1
    <2> QED BY <2>2 DEF Looks, Serves
  <1>n. DOMAIN h.adapter \subseteq Nat \ {0} BY <1>1, HeapIs
  <1>4. Related(g)
    <2>1. Related(h) BY DEF Sound
    <2>2. /\ g.transport = h.transport /\ g.device = h.device
          /\ DOMAIN g.adapter = DOMAIN h.adapter
      BY ONLY <1>2
    <2> QED BY ONLY <2>1, <2>2 DEF Related
  <1>5. Listed(g)
    <2>1. Listed(h) BY DEF Sound
    <2>2. ASSUME NEW b \in DOMAIN h.adapter, NEW x \in Address PROVE Found(g, b, x)
      <3>1. Found(h, b, x) /\ g.device = h.device BY <2>1, <1>2 DEF Listed
      <3>2. g.adapter[b].devices = h.adapter[b].devices BY <1>3
      <3> QED BY <3>1, <3>2 DEF Found
    <2>4. r.refs \in Nat BY DEF AdapterRec
    <2>5. \A b \in DOMAIN g.adapter : g.adapter[b].refs > 0 <=> g.listed = b
      BY <2>1, <2>4, <1>2, <1>n DEF Listed, None
    <2>6. g.listed # None => g.listed \in DOMAIN g.adapter BY <2>1, <1>2 DEF Listed
    <2> QED BY <2>2, <2>5, <2>6, <1>2 DEF Listed
  <1>6. Dispatching(g)
    <2>1. Dispatching(h) BY DEF Sound
    <2>2. ASSUME NEW b \in DOMAIN h.adapter
          PROVE  /\ g.adapter[b].held = h.adapter[b].held
                 /\ (Looks(g, b) <=> Looks(h, b)) /\ (Serves(g, b) <=> Serves(h, b))
      BY <1>3
    <2>3. DOMAIN g.adapter = DOMAIN h.adapter /\ g.device = h.device /\ g.transport = h.transport
      BY <1>2
    <2> QED BY <2>1, <2>2, <2>3 DEF Dispatching
  <1>7. Threads(g) BY <1>2 DEF Sound, Threads
  <1>8. Filed(g)
    <2>1. Filed(h) BY DEF Sound
    <2> QED BY <2>1, <1>2 DEF Filed
  <1>9. \A u \in DOMAIN g.transport : Served(g, u) <=> Served(h, u)
    <2>1. ASSUME NEW u \in DOMAIN h.transport
          PROVE  h.device[h.transport[u].device].adapter \in DOMAIN h.adapter
      BY DEF Sound, Related
    <2>2. g.device = h.device /\ g.transport = h.transport BY <1>2
    <2>3. ASSUME NEW b \in DOMAIN h.adapter
          PROVE  g.adapter[b].held = h.adapter[b].held /\ (Serves(g, b) <=> Serves(h, b))
      BY <1>3
    <2> QED BY <2>1, <2>2, <2>3 DEF Served
  <1>10. ASSUME NEW u \in DOMAIN g.transport PROVE TransportHeld(g, u, et[u])
    <2>1. TransportHeld(h, u, et[u]) /\ g.transport[u] = h.transport[u]
      BY <1>2 DEF Sound, Counted
    <2> QED BY <2>1, <1>9, <1>10 DEF TransportHeld, One
  <1>11. \A e : TransportsOf(g, e) = TransportsOf(h, e) BY <1>2 DEF TransportsOf
  <1>12. \A e \in DOMAIN h.device : Looked(g, e) <=> Looked(h, e)
    <2>1. \A e \in DOMAIN h.device : h.device[e].adapter \in DOMAIN h.adapter BY DEF Sound, Related
    <2>2. g.device = h.device BY <1>2
    <2>3. ASSUME NEW b \in DOMAIN h.adapter
          PROVE  g.adapter[b].held = h.adapter[b].held /\ (Looks(g, b) <=> Looks(h, b))
      BY <1>3
    <2> QED BY <2>1, <2>2, <2>3 DEF Looked
  <1>13. ASSUME NEW e \in DOMAIN g.device PROVE DeviceHeld(g, e, ed[e])
    <2>1. e \in DOMAIN h.device /\ TransportsOf(g, e) = TransportsOf(h, e) /\ (Looked(g, e) <=> Looked(h, e))
      BY <1>2, <1>11, <1>12, <1>13
    <2>2. DeviceHeld(h, e, ed[e]) /\ g.device[e] = h.device[e] BY <2>1, <1>2 DEF Sound, Counted
    <2> QED BY <2>1, <2>2 DEF DeviceHeld, One
  <1>14. \A b : DevicesOf(g, b) = DevicesOf(h, b) BY <1>2 DEF DevicesOf
  <1>15. ASSUME NEW b \in DOMAIN g.adapter PROVE AdapterHeld(g, b, fs[b])
    <2>1. CASE b = a
      BY <2>1, <1>2, <1>14, <1>n DEF AdapterHeld, Moved
    <2>2. CASE b # a
      <3>1. AdapterHeld(h, b, ea[b]) BY <1>2, <1>15 DEF Sound, Counted
      <3> QED BY <3>1, <2>2, <1>2, <1>14, <1>15, <1>n DEF AdapterHeld, Moved
    <2> QED BY <2>1, <2>2
  <1> QED BY <1>1, <1>2, <1>4, <1>5, <1>6, <1>7, <1>8, <1>10, <1>13, <1>15 DEF Sound, Counted

LEMMA EditAdapter ==
  ASSUME NEW h, NEW et \in Counts, NEW ed \in Counts, NEW ea \in Counts, Sound(h, et, ed, ea),
         NEW a \in DOMAIN h.adapter, NEW r \in AdapterRec, NEW fs \in Counts, NEW n \in Nat,
         r.devices = h.adapter[a].devices, r.held = h.adapter[a].held,
         \/ r.dispatcher = h.adapter[a].dispatcher
         \/ {r.dispatcher, h.adapter[a].dispatcher} \subseteq {"none", "poll", "ended"},
         r.refs > 0 <=> h.adapter[a].refs > 0,
         r.refs = Cardinality(DevicesOf(h, a)) + n, Moved(ea, fs, a, n)
  PROVE  Sound(SetA(h, a, r), et, ed, fs)
  <1>1. h \in HeapRec BY DEF Sound
  <1>2. /\ SetA(h, a, r) \in HeapRec /\ AdapterShape(h, SetA(h, a, r), a, r)
        /\ SetA(h, a, r).listed = h.listed
    BY <1>1, SetAIs DEF AdapterShape
  <1> QED BY <1>2, AdapterChanges

LEMMA RefsOfAdapter ==
  ASSUME NEW h \in HeapRec, NEW a \in DOMAIN h.adapter, NEW e
  PROVE  [h EXCEPT !.adapter[a].refs = e] = SetA(h, a, [h.adapter[a] EXCEPT !.refs = e])
  BY DEF SetA, HeapRec

LEMMA RefsOfDevice ==
  ASSUME NEW h \in HeapRec, NEW d \in DOMAIN h.device, NEW e
  PROVE  [h EXCEPT !.device[d].refs = e] = SetD(h, d, [h.device[d] EXCEPT !.refs = e])
  BY DEF SetD, HeapRec

LEMMA FreedIsWho == Freed \in Who
  BY DEF Freed, Who

LEMMA UnrefAdapter ==
  ASSUME NEW h, NEW et \in Counts, NEW ed \in Counts, NEW ea \in Counts, Sound(h, et, ed, ea),
         NEW a \in DOMAIN h.adapter, NEW by \in Who, NEW fs \in Counts,
         ea[a] > 0, Moved(ea, fs, a, ea[a] - 1)
  PROVE  /\ Sound(AdapterUnref(h, a, by), et, ed, fs)
         /\ SameLife(h, AdapterUnref(h, a, by))
  <1>1. h \in HeapRec /\ ~h.stale BY DEF Sound
  <1>2. /\ h.adapter[a] \in AdapterRec /\ a \in Nat
        /\ h.adapter[a].refs = Cardinality(DevicesOf(h, a)) + ea[a]
        /\ Cardinality(DevicesOf(h, a)) \in Nat /\ ea[a] \in Nat
    BY AdapterIsHeld
  <1>3. h.adapter[a].refs \in Nat /\ h.adapter[a].refs > 0 BY <1>2
  <1>4. Used(h, h.adapter[a].refs) = h /\ Less(h.adapter[a].refs) = h.adapter[a].refs - 1
    BY <1>3 DEF Used, Less
  <1> DEFINE m == h.adapter[a].refs - 1
             z == [h.adapter[a] EXCEPT !.refs = m]
             k == SetA(h, a, z)
             joins == k.adapter[a].dispatcher # "none" /\ by # Dispatcher(a)
             w == IF joins THEN by ELSE Freed
             n == ea[a] - 1
  <1>5. m \in Nat /\ n \in Nat /\ m = Cardinality(DevicesOf(h, a)) + n BY <1>2, <1>3
  <1>6. /\ z \in AdapterRec /\ z.refs = m /\ z.devices = h.adapter[a].devices
        /\ z.held = h.adapter[a].held /\ z.dispatcher = h.adapter[a].dispatcher
    BY <1>2, <1>5 DEF AdapterRec
  <1>7. [Used(h, h.adapter[a].refs) EXCEPT !.adapter[a].refs = Less(@)] = k
    BY <1>1, <1>4, RefsOfAdapter
  <1>8. k.adapter[a] = z BY <1>1, <1>6, SetAIs
  <1> HIDE DEF k
  <1>9. AdapterUnref(h, a, by) =
          IF k.adapter[a].refs > 0 THEN k
          ELSE [k EXCEPT !.listed = None, !.adapter[a].cancelled = TRUE, !.adapter[a].reaper = w]
    BY <1>7, ZenonT(40) DEF AdapterUnref
  <1>m. Moved(ea, fs, a, n) OBVIOUS
  <1>10. CASE m > 0
    <2>1. AdapterUnref(h, a, by) = k BY <1>9, <1>8, <1>6, <1>10
    <2> HIDE DEF m, z, n
    <2>2. Sound(k, et, ed, fs) BY <1>3, <1>5, <1>6, <1>m, <1>10, EditAdapter DEF k
    <2>3. SameLife(h, k) BY <1>1, <1>6, SetAIs DEF SameLife, k
    <2> QED BY <2>1, <2>2, <2>3
  <1>11. CASE ~(m > 0)
    <2> DEFINE r == [z EXCEPT !.cancelled = TRUE, !.reaper = w]
               g == [SetA(h, a, r) EXCEPT !.listed = None]
    <2>0. ~(k.adapter[a].refs > 0) BY <1>8, <1>6, <1>11
    <2> HIDE DEF m, n, w, z
    <2> DEFINE e == [SetA(h, a, z) EXCEPT !.listed = None, !.adapter[a].cancelled = TRUE, !.adapter[a].reaper = w]
    <2>1. AdapterUnref(h, a, by) = e
      BY <1>9, <2>0, Zenon DEF k
    <2>2. e = g
      <3>1. z \in AdapterRec BY <1>6
      <3>2. [SetA(h, a, z) EXCEPT !.listed = None, !.adapter[a].cancelled = TRUE, !.adapter[a].reaper = w]
             = [SetA(h, a, [z EXCEPT !.cancelled = TRUE, !.reaper = w]) EXCEPT !.listed = None]
        BY <1>1, <3>1 DEF SetA, HeapRec
      <3> QED BY <3>2 DEF e, g
    <2>3. w \in Who BY FreedIsWho DEF w
    <2>4. /\ r \in AdapterRec /\ r.refs = m /\ r.devices = h.adapter[a].devices
          /\ r.held = h.adapter[a].held /\ r.dispatcher = h.adapter[a].dispatcher
      BY <1>6, <2>3 DEF AdapterRec
    <2> HIDE DEF r
    <2>5. /\ SetA(h, a, r) \in HeapRec /\ AdapterShape(h, SetA(h, a, r), a, r)
      BY <1>1, <2>4, SetAIs DEF AdapterShape
    <2>6. g \in HeapRec /\ AdapterShape(h, g, a, r) /\ g.listed = None
      BY <2>5 DEF AdapterShape, HeapRec, None
    <2> HIDE DEF g, e
    <2>7. g.listed = IF r.refs > 0 THEN h.listed ELSE None BY <2>4, <2>6, <1>11
    <2>8. Sound(g, et, ed, fs) BY <1>3, <1>5, <1>m, <2>4, <2>6, <2>7, AdapterChanges
    <2>9. SameLife(h, g) BY <2>6 DEF SameLife, AdapterShape
    <2> QED BY <2>1, <2>2, <2>8, <2>9
  <1> QED BY <1>10, <1>11

LEMMA LastOfDevice ==
  ASSUME NEW h, NEW et \in Counts, NEW ed \in Counts, NEW ea \in Counts, Sound(h, et, ed, ea),
         NEW d \in DOMAIN h.device
  PROVE  h.device[d].refs = 1 /\ ed[d] = 1 =>
           /\ Cardinality(TransportsOf(h, d)) = 0 /\ One(h.device[d].battery) = 0
           /\ One(Looked(h, d)) = 0
  <1>1. /\ h.device[d].refs = Cardinality(TransportsOf(h, d)) + One(h.device[d].battery)
                                 + One(Looked(h, d)) + ed[d]
        /\ Cardinality(TransportsOf(h, d)) \in Nat /\ One(h.device[d].battery) \in Nat
        /\ One(Looked(h, d)) \in Nat /\ ed[d] \in Nat
    BY DeviceIsHeld
  <1> QED BY <1>1

GoneShape(h, g, d, q, a, p, x) ==
  /\ a = h.device[d].adapter /\ x = h.device[d].addr
  /\ q.addr = x /\ q.adapter = a /\ q.refs = 0
  /\ q.transport = h.device[d].transport /\ q.battery = h.device[d].battery
  /\ p.refs = h.adapter[a].refs /\ p.dispatcher = h.adapter[a].dispatcher
  /\ p.held = h.adapter[a].held
  /\ \A y \in Address : p.devices[y] = IF y = x THEN None ELSE h.adapter[a].devices[y]
  /\ DOMAIN g.device = DOMAIN h.device
  /\ \A e \in DOMAIN h.device : g.device[e] = IF e = d THEN q ELSE h.device[e]
  /\ DOMAIN g.adapter = DOMAIN h.adapter
  /\ \A b \in DOMAIN h.adapter : g.adapter[b] = IF b = a THEN p ELSE h.adapter[b]
  /\ g.store[x] = NoEntry /\ \A y \in Address \ {x} : g.store[y] = h.store[y]
  /\ g.transport = h.transport /\ g.listed = h.listed /\ g.stale = h.stale

\* The last reference of a device: it leaves the table, and its adapter is given back.
LEMMA FreeDevice ==
  ASSUME NEW h, NEW et \in Counts, NEW ed \in Counts, NEW ea \in Counts, Sound(h, et, ed, ea),
         NEW d \in DOMAIN h.device, NEW fd \in Counts, NEW fa \in Counts,
         h.device[d].refs = 1, ed[d] = 1, Moved(ed, fd, d, 0),
         NEW a \in DOMAIN h.adapter, Moved(ea, fa, a, ea[a] + 1), NEW x \in Address,
         NEW q \in DeviceRec, NEW p \in AdapterRec, NEW g \in HeapRec, GoneShape(h, g, d, q, a, p, x)
  PROVE  Sound(g, et, fd, fa)
  <1>1. h \in HeapRec /\ ~h.stale BY DEF Sound
  <1>2. /\ DOMAIN g.device = DOMAIN h.device
        /\ \A e \in DOMAIN h.device : g.device[e] = IF e = d THEN q ELSE h.device[e]
        /\ DOMAIN g.adapter = DOMAIN h.adapter
        /\ \A b \in DOMAIN h.adapter : g.adapter[b] = IF b = a THEN p ELSE h.adapter[b]
        /\ g.store[x] = NoEntry /\ \A y \in Address \ {x} : g.store[y] = h.store[y]
        /\ g.transport = h.transport /\ g.listed = h.listed /\ g.stale = h.stale
    BY DEF GoneShape
  <1>s. /\ a = h.device[d].adapter /\ x = h.device[d].addr
        /\ q.addr = x /\ q.adapter = a /\ q.refs = 0
        /\ q.transport = h.device[d].transport /\ q.battery = h.device[d].battery
        /\ p.refs = h.adapter[a].refs /\ p.dispatcher = h.adapter[a].dispatcher
        /\ p.held = h.adapter[a].held
        /\ \A y \in Address : p.devices[y] = IF y = x THEN None ELSE h.adapter[a].devices[y]
    BY DEF GoneShape
  <1>3. \A e \in DOMAIN h.device :
          /\ g.device[e].addr = h.device[e].addr
          /\ g.device[e].adapter = h.device[e].adapter
          /\ g.device[e].battery = h.device[e].battery
          /\ g.device[e].transport = h.device[e].transport
          /\ e # d => g.device[e].refs = h.device[e].refs
    BY <1>2, <1>s
  <1>4. \A b \in DOMAIN h.adapter :
          /\ g.adapter[b].refs = h.adapter[b].refs
          /\ g.adapter[b].dispatcher = h.adapter[b].dispatcher
          /\ g.adapter[b].held = h.adapter[b].held
          /\ \A y \in Address : g.adapter[b].devices[y] =
               IF b = a /\ y = x THEN None ELSE h.adapter[b].devices[y]
    <2> SUFFICES ASSUME NEW b \in DOMAIN h.adapter
                 PROVE  /\ g.adapter[b].refs = h.adapter[b].refs
                        /\ g.adapter[b].dispatcher = h.adapter[b].dispatcher
                        /\ g.adapter[b].held = h.adapter[b].held
                        /\ \A y \in Address : g.adapter[b].devices[y] =
                             IF b = a /\ y = x THEN None ELSE h.adapter[b].devices[y]
      OBVIOUS
    <2>1. b \in DOMAIN h.adapter OBVIOUS
    <2>2. g.adapter[b] = IF b = a THEN p ELSE h.adapter[b] BY ONLY <2>1, <1>2
    <2>3. CASE b = a
      <3>1. g.adapter[b] = p BY ONLY <2>2, <2>3
      <3> QED BY ONLY <3>1, <2>3, <1>s
    <2>4. CASE b # a
      <3>1. g.adapter[b] = h.adapter[b] BY ONLY <2>2, <2>4
      <3> QED BY ONLY <3>1, <2>4
    <2> QED BY ONLY <2>3, <2>4
  <1>5. \A b \in DOMAIN h.adapter : (Looks(g, b) <=> Looks(h, b)) /\ (Serves(g, b) <=> Serves(h, b))
    BY <1>4 DEF Looks, Serves
  <1>6. DOMAIN h.device \subseteq Nat /\ DOMAIN h.adapter \subseteq Nat BY <1>1, HeapIs
  <1>8. /\ Cardinality(TransportsOf(h, d)) = 0 /\ One(h.device[d].battery) = 0
        /\ One(Looked(h, d)) = 0
    BY LastOfDevice
  <1>9. Related(g)
    <2>1. Related(h) BY DEF Sound
    <2>2. DOMAIN g.device = DOMAIN h.device /\ DOMAIN g.adapter = DOMAIN h.adapter
          /\ g.transport = h.transport
      BY <1>2
    <2>3. \A e \in DOMAIN h.device : g.device[e].adapter = h.device[e].adapter
                                      /\ g.device[e].transport = h.device[e].transport
      BY <1>3
    <2> QED BY <2>1, <2>2, <2>3 DEF Related
  <1>10. Listed(g)
    <2>1. Listed(h) BY DEF Sound
    <2>2. ASSUME NEW b \in DOMAIN h.adapter, NEW y \in Address PROVE Found(g, b, y)
      <3> DEFINE e == h.adapter[b].devices[y]
      <3>1. e # None => /\ e \in DOMAIN h.device /\ h.device[e].refs > 0
                        /\ h.device[e].adapter = b /\ h.device[e].addr = y
        BY <2>1 DEF Listed, Found
      <3>2. g.adapter[b].devices[y] = IF b = a /\ y = x THEN None ELSE e BY <1>4
      <3> HIDE DEF e
      <3>3. ASSUME g.adapter[b].devices[y] # None
            PROVE  /\ e \in DOMAIN g.device /\ g.device[e].refs > 0 /\ g.device[e].adapter = b
                   /\ g.device[e].addr = y /\ g.adapter[b].devices[y] = e
        <4>1. g.adapter[b].devices[y] = e /\ e # None /\ ~(b = a /\ y = x) BY <3>2, <3>3
        <4>2. e # d BY <4>1, <3>1, <1>s
        <4> QED BY <4>1, <4>2, <3>1, <1>2, <1>3
      <3> QED BY <3>3 DEF Found
    <2>3. /\ \A b \in DOMAIN g.adapter : g.adapter[b].refs > 0 <=> g.listed = b
          /\ g.listed # None => g.listed \in DOMAIN g.adapter
      BY <2>1, <1>2, <1>4 DEF Listed
    <2>4. DOMAIN g.adapter = DOMAIN h.adapter BY <1>2
    <2> QED BY <2>2, <2>3, <2>4 DEF Listed
  <1>11. Dispatching(g)
    <2>1. Dispatching(h) BY DEF Sound
    <2>2. ASSUME NEW b \in DOMAIN h.adapter, Looks(h, b)
          PROVE  /\ h.adapter[b].held # << >> /\ h.adapter[b].held[1] \in DOMAIN g.device
                 /\ g.device[h.adapter[b].held[1]].adapter = b
      <3>1. /\ h.adapter[b].held # << >> /\ h.adapter[b].held[1] \in DOMAIN h.device
            /\ h.device[h.adapter[b].held[1]].adapter = b
        BY <2>1, <2>2 DEF Dispatching
      <3> QED BY <3>1, <1>2, <1>3
    <2>3. ASSUME NEW b \in DOMAIN h.adapter, Serves(h, b)
          PROVE  /\ h.adapter[b].held[2] \in DOMAIN h.transport
                 /\ h.transport[h.adapter[b].held[2]].device = h.adapter[b].held[1]
      BY <2>1, <2>3 DEF Dispatching
    <2>4. DOMAIN g.adapter = DOMAIN h.adapter /\ g.transport = h.transport BY <1>2
    <2>5. ASSUME NEW b \in DOMAIN h.adapter
          PROVE  /\ g.adapter[b].held = h.adapter[b].held
                 /\ (Looks(g, b) <=> Looks(h, b)) /\ (Serves(g, b) <=> Serves(h, b))
      BY <1>4, <1>5
    <2>6. ASSUME NEW b \in DOMAIN h.adapter
          PROVE  /\ Looks(g, b) => /\ g.adapter[b].held # << >>
                                   /\ g.adapter[b].held[1] \in DOMAIN g.device
                                   /\ g.device[g.adapter[b].held[1]].adapter = b
                 /\ Serves(g, b) => /\ g.adapter[b].held[2] \in DOMAIN g.transport
                                    /\ g.transport[g.adapter[b].held[2]].device = g.adapter[b].held[1]
      BY <2>2, <2>3, <2>4, <2>5
    <2> QED BY <2>4, <2>6 DEF Dispatching
  <1>12. Threads(g) BY <1>2 DEF Sound, Threads
  <1>13. Filed(g)
    <2>1. Filed(h) BY DEF Sound
    <2>2. ASSUME NEW y \in Address, g.store[y] # NoEntry
          PROVE  \E e \in DOMAIN g.device : g.device[e].addr = y /\ g.device[e].refs > 0
      <3>1. y # x /\ h.store[y] # NoEntry BY <2>2, <1>2
      <3>2. PICK e \in DOMAIN h.device : h.device[e].addr = y /\ h.device[e].refs > 0
        BY <2>1, <3>1 DEF Filed
      <3>3. e # d BY <3>1, <3>2, <1>s
      <3> QED BY <3>2, <3>3, <1>2, <1>3
    <2> QED BY <2>2 DEF Filed
  <1>14. \A u \in DOMAIN g.transport : Served(g, u) <=> Served(h, u)
    <2>1. ASSUME NEW u \in DOMAIN h.transport
          PROVE  /\ g.device[h.transport[u].device].adapter = h.device[h.transport[u].device].adapter
                 /\ h.device[h.transport[u].device].adapter \in DOMAIN h.adapter
      <3>1. h.transport[u].device \in DOMAIN h.device BY DEF Sound, Related
      <3>2. h.device[h.transport[u].device].adapter \in DOMAIN h.adapter BY <3>1 DEF Sound, Related
      <3> QED BY <3>1, <3>2, <1>3
    <2>2. g.transport = h.transport BY <1>2
    <2>3. ASSUME NEW b \in DOMAIN h.adapter
          PROVE  g.adapter[b].held = h.adapter[b].held /\ (Serves(g, b) <=> Serves(h, b))
      BY <1>4, <1>5
    <2>4. ASSUME NEW u \in DOMAIN h.transport PROVE Served(g, u) <=> Served(h, u)
      <3> DEFINE b == h.device[h.transport[u].device].adapter
      <3>1. b \in DOMAIN h.adapter /\ g.device[g.transport[u].device].adapter = b BY <2>1, <2>2
      <3>2. g.adapter[b].held = h.adapter[b].held /\ (Serves(g, b) <=> Serves(h, b)) BY <3>1, <2>3
      <3> QED BY <3>1, <3>2 DEF Served
    <2> QED BY <2>2, <2>4
  <1>15. ASSUME NEW u \in DOMAIN g.transport PROVE TransportHeld(g, u, et[u])
    <2>1. TransportHeld(h, u, et[u]) /\ g.transport[u] = h.transport[u]
      BY <1>2 DEF Sound, Counted
    <2> QED BY <2>1, <1>14, <1>15 DEF TransportHeld, One
  <1>16. \A e : TransportsOf(g, e) = TransportsOf(h, e) BY <1>2 DEF TransportsOf
  <1>17. \A e \in DOMAIN h.device : Looked(g, e) <=> Looked(h, e)
    <2>1. \A e \in DOMAIN h.device :
            h.device[e].adapter \in DOMAIN h.adapter /\ g.device[e].adapter = h.device[e].adapter
      BY <1>3 DEF Sound, Related
    <2>3. ASSUME NEW b \in DOMAIN h.adapter
          PROVE  g.adapter[b].held = h.adapter[b].held /\ (Looks(g, b) <=> Looks(h, b))
      BY <1>4, <1>5
    <2> QED BY <2>1, <2>3 DEF Looked
  <1>18. ASSUME NEW e \in DOMAIN g.device PROVE DeviceHeld(g, e, fd[e])
    <2>1. e \in DOMAIN h.device /\ TransportsOf(g, e) = TransportsOf(h, e) /\ (Looked(g, e) <=> Looked(h, e))
      BY <1>2, <1>16, <1>17, <1>18
    <2>2. CASE e = d
      <3>1. g.device[d] = q /\ fd[d] = 0 BY <2>2, <1>2, <1>6 DEF Moved
      <3>2. g.device[e] = q /\ fd[e] = 0 BY <2>2, <3>1
      <3>3. TransportsOf(g, e) = TransportsOf(h, d) /\ (Looked(g, e) <=> Looked(h, d))
        BY <2>1, <2>2
      <3>4. /\ Cardinality(TransportsOf(h, d)) = 0 /\ One(Looked(h, d)) = 0
            /\ One(q.battery) = 0 /\ q.refs = 0
        BY <1>8, <1>s
      <3>5. One(Looked(g, e)) = 0 BY ONLY <3>3, <3>4 DEF One
      <3> QED BY ONLY <3>2, <3>3, <3>4, <3>5 DEF DeviceHeld
    <2>3. CASE e # d
      <3>1. g.device[e] = h.device[e] /\ fd[e] = ed[e] BY <2>1, <2>3, <1>2, <1>6 DEF Moved
      <3>2. DeviceHeld(h, e, ed[e]) BY <2>1 DEF Sound, Counted
      <3> QED BY <3>1, <3>2, <2>1 DEF DeviceHeld, One
    <2> QED BY <2>2, <2>3
  <1>e. \A e \in DOMAIN h.device : \A b :
          (g.device[e].adapter = b /\ g.device[e].refs > 0)
            <=> (h.device[e].adapter = b /\ h.device[e].refs > 0 /\ e # d)
    <2>1. g.device[d].refs = 0 BY <1>2, <1>s
    <2> QED BY <2>1, <1>3
  <1>19. DevicesOf(g, a) = DevicesOf(h, a) \ {d}
    <2>1. DOMAIN g.device = DOMAIN h.device BY <1>2
    <2> QED BY <2>1, <1>e DEF DevicesOf
  <1>19d. d \in DevicesOf(h, a)
    <2>2. h.device[d].adapter = a BY ONLY <1>s
    <2>3. h.device[d].refs = 1 OBVIOUS
    <2>1. d \in DOMAIN h.device /\ h.device[d].adapter = a /\ h.device[d].refs > 0
      <3>1. h.device[d].refs > 0 BY ONLY <2>3
      <3> QED BY <3>1, <2>2, Zenon
    <2> QED BY ONLY <2>1 DEF DevicesOf
  <1>20. \A b : b # a => DevicesOf(g, b) = DevicesOf(h, b)
    <2>1. DOMAIN g.device = DOMAIN h.device BY <1>2
    <2>2. h.device[d].adapter = a BY <1>s
    <2> QED BY ONLY <2>1, <2>2, <1>e DEF DevicesOf
  <1>21. Cardinality(DevicesOf(g, a)) = Cardinality(DevicesOf(h, a)) - 1
         /\ Cardinality(DevicesOf(h, a)) \in Nat
    BY <1>1, <1>19, <1>19d, Finite, LoseOne
  <1>22. ASSUME NEW b \in DOMAIN g.adapter PROVE AdapterHeld(g, b, fa[b])
    <2>1. b \in DOMAIN h.adapter /\ b \in Nat BY <1>2, <1>6, <1>22
    <2>2. AdapterHeld(h, b, ea[b]) BY <2>1 DEF Sound, Counted
    <2>3. g.adapter[b].refs = h.adapter[b].refs BY <2>1, <1>4
    <2>4. ea[a] \in Nat BY <1>6 DEF Counts
    <2>5. CASE b = a
      <3>1. fa[a] = ea[a] + 1 BY <1>6 DEF Moved
      <3> QED BY <3>1, <2>5, <2>2, <2>3, <2>4, <1>21 DEF AdapterHeld
    <2>6. CASE b # a
      <3>1. fa[b] = ea[b] /\ DevicesOf(g, b) = DevicesOf(h, b) BY <2>6, <2>1, <1>20 DEF Moved
      <3> QED BY <3>1, <2>2, <2>3 DEF AdapterHeld
    <2> QED BY <2>5, <2>6
  <1> QED BY <1>1, <1>2, <1>9, <1>10, <1>11, <1>12, <1>13, <1>15, <1>18, <1>22 DEF Sound, Counted

LEMMA SavedIs ==
  ASSUME NEW h \in HeapRec, NEW x \in Address
  PROVE  LET g == Saved(h, x)
         IN /\ g \in HeapRec /\ g.transport = h.transport /\ g.device = h.device
            /\ g.adapter = h.adapter /\ g.listed = h.listed /\ g.stale = h.stale
            /\ g.store[x] = NoEntry /\ \A y \in Address \ {x} : g.store[y] = h.store[y]
  <1>1. CASE h.store[x] = NoEntry BY <1>1 DEF Saved
  <1>2. CASE h.store[x] # NoEntry
    <2>1. Saved(h, x) = [h EXCEPT !.file[x] = h.store[x], !.store[x] = NoEntry] BY <1>2 DEF Saved
    <2> DEFINE s == [h.store EXCEPT ![x] = NoEntry]
               f == [h.file EXCEPT ![x] = h.store[x]]
               g == [h EXCEPT !.listed = h.listed, !.store = s, !.file = f]
    <2>2. h.store \in [Address -> Nat] /\ h.file \in [Address -> Nat] /\ NoEntry \in Nat /\ h.listed \in Nat
      BY DEF HeapRec, NoEntry
    <2>3. s \in [Address -> Nat] /\ f \in [Address -> Nat] BY <2>2
    <2>4. s[x] = NoEntry /\ \A y \in Address \ {x} : s[y] = h.store[y] BY <2>2
    <2>5. Saved(h, x) = g BY <2>1 DEF HeapRec
    <2> HIDE DEF s, f
    <2>6. /\ g \in HeapRec /\ g.transport = h.transport /\ g.device = h.device
          /\ g.adapter = h.adapter /\ g.listed = h.listed /\ g.store = s /\ g.stale = h.stale
      BY <2>2, <2>3 DEF HeapRec
    <2> QED BY <2>4, <2>5, <2>6
  <1> QED BY <1>1, <1>2

\* The device leaves the table of its adapter.
LEMMA LeftTable ==
  ASSUME NEW h \in HeapRec, NEW a \in DOMAIN h.adapter, NEW x \in Address
  PROVE  LET p == [h.adapter[a] EXCEPT !.devices = [@ EXCEPT ![x] = None]]
         IN /\ [h EXCEPT !.adapter[a].devices[x] = None] = SetA(h, a, p)
            /\ p \in AdapterRec /\ p.refs = h.adapter[a].refs
            /\ p.dispatcher = h.adapter[a].dispatcher /\ p.held = h.adapter[a].held
            /\ p.cancelled = h.adapter[a].cancelled /\ p.reaper = h.adapter[a].reaper
            /\ \A y \in Address : p.devices[y] = IF y = x THEN None ELSE h.adapter[a].devices[y]
  <1>1. h.adapter[a] \in AdapterRec BY HeapIs
  <1>2. [h EXCEPT !.adapter[a].devices[x] = None]
         = SetA(h, a, [h.adapter[a] EXCEPT !.devices = [@ EXCEPT ![x] = None]])
    BY <1>1 DEF SetA, HeapRec, AdapterRec
  <1> QED BY <1>1, <1>2 DEF AdapterRec, None

LEMMA DeviceUnrefIs ==
  ASSUME NEW h, NEW d, NEW by, NEW k,
         [Used(h, h.device[d].refs) EXCEPT !.device[d].refs = Less(@)] = k
  PROVE  DeviceUnref(h, d, by) =
          IF k.device[d].refs > 0 THEN k
          ELSE AdapterUnref(Saved([k EXCEPT !.adapter[h.device[d].adapter].devices[h.device[d].addr] = None],
                            h.device[d].addr), h.device[d].adapter, by)
  <1>1. CASE k.device[d].refs > 0 BY <1>1 DEF DeviceUnref
  <1>2. CASE ~(k.device[d].refs > 0)
    <2> DEFINE L(g) == [g EXCEPT !.adapter[h.device[d].adapter].devices[h.device[d].addr] = None]
               F(g) == IF g.device[d].refs > 0 THEN g
                       ELSE AdapterUnref(Saved(L(g), h.device[d].addr), h.device[d].adapter, by)
    <2>1. DeviceUnref(h, d, by) = F([Used(h, h.device[d].refs) EXCEPT !.device[d].refs = Less(@)])
      BY DEF DeviceUnref
    <2>2. L(k) = [k EXCEPT !.adapter[h.device[d].adapter].devices[h.device[d].addr] = None] OBVIOUS
    <2> HIDE DEF L
    <2>3. F(k) = AdapterUnref(Saved(L(k), h.device[d].addr), h.device[d].adapter, by) BY <1>2
    <2> QED BY <2>1, <2>2, <2>3, <1>2
  <1> QED BY <1>1, <1>2

LEMMA UnrefDevice ==
  ASSUME NEW h, NEW et \in Counts, NEW ed \in Counts, NEW ea \in Counts, Sound(h, et, ed, ea),
         NEW d \in DOMAIN h.device, NEW by \in Who, NEW fs \in Counts,
         ed[d] > 0, Moved(ed, fs, d, ed[d] - 1)
  PROVE  /\ Sound(DeviceUnref(h, d, by), et, fs, ea)
         /\ SameLife(h, DeviceUnref(h, d, by))
  <1>1. h \in HeapRec /\ ~h.stale BY DEF Sound
  <1>2. /\ h.device[d] \in DeviceRec /\ d \in Nat /\ h.device[d].adapter \in DOMAIN h.adapter
        /\ h.device[d].refs = Cardinality(TransportsOf(h, d)) + One(h.device[d].battery)
                                 + One(Looked(h, d)) + ed[d]
        /\ Cardinality(TransportsOf(h, d)) \in Nat /\ One(h.device[d].battery) \in Nat
        /\ One(Looked(h, d)) \in Nat /\ ed[d] \in Nat
    BY DeviceIsHeld
  <1>3. h.device[d].refs \in Nat /\ h.device[d].refs > 0 BY <1>2
  <1>4. Used(h, h.device[d].refs) = h /\ Less(h.device[d].refs) = h.device[d].refs - 1
    BY <1>3 DEF Used, Less
  <1> DEFINE m == h.device[d].refs - 1
             q == [h.device[d] EXCEPT !.refs = m]
             k == SetD(h, d, q)
             n == ed[d] - 1
             a == h.device[d].adapter
             x == h.device[d].addr
  <1>5. /\ m \in Nat /\ n \in Nat
        /\ m = Cardinality(TransportsOf(h, d)) + One(h.device[d].battery) + One(Looked(h, d)) + n
    BY <1>2, <1>3
  <1>6. /\ q \in DeviceRec /\ q.refs = m /\ q.adapter = a /\ q.addr = x
        /\ q.transport = h.device[d].transport /\ q.battery = h.device[d].battery
        /\ a \in DOMAIN h.adapter /\ x \in Address
    BY <1>2, <1>5 DEF DeviceRec
  <1>7. [Used(h, h.device[d].refs) EXCEPT !.device[d].refs = Less(@)] = k
    BY <1>1, <1>4, RefsOfDevice
  <1> HIDE DEF q
  <1>8. /\ k \in HeapRec /\ DOMAIN k.device = DOMAIN h.device
        /\ \A e \in DOMAIN h.device : k.device[e] = IF e = d THEN q ELSE h.device[e]
        /\ k.transport = h.transport /\ k.adapter = h.adapter /\ k.listed = h.listed
        /\ k.store = h.store /\ k.file = h.file /\ k.stale = h.stale
    BY <1>1, <1>6, SetDIs
  <1> HIDE DEF k
  <1>9. DeviceUnref(h, d, by) =
          IF k.device[d].refs > 0 THEN k
          ELSE AdapterUnref(Saved([k EXCEPT !.adapter[h.device[d].adapter].devices[h.device[d].addr] = None],
                            h.device[d].addr), h.device[d].adapter, by)
    BY <1>7, DeviceUnrefIs
  <1>m. Moved(ed, fs, d, n) OBVIOUS
  <1>10. CASE m > 0
    <2>1. k.device[d] = q BY <1>8
    <2> HIDE DEF m, n
    <2>2. k.device[d].refs > 0 BY <2>1, <1>6, <1>10
    <2>3. DeviceUnref(h, d, by) = k BY <1>9, <2>2
    <2>4. q.refs > 0 <=> h.device[d].refs > 0 BY <1>6, <1>3, <1>10
    <2>5. q.refs = Cardinality(TransportsOf(h, d)) + One(q.battery) + One(Looked(h, d)) + n
      BY <1>5, <1>6
    <2>6. q.adapter = h.device[d].adapter /\ q.addr = h.device[d].addr
          /\ q.transport \in {None, h.device[d].transport}
      BY <1>6
    <2>7. Sound(k, et, fs, ea) BY <1>5, <1>6, <1>m, <2>4, <2>5, <2>6, EditDevice DEF k
    <2>8. SameLife(h, k) BY <1>6, <1>8 DEF SameLife
    <2> QED BY <2>3, <2>7, <2>8
  <1>11. CASE ~(m > 0)
    <2>1. m = 0 /\ h.device[d].refs = 1 BY <1>3, <1>5, <1>11
    <2>2. ed[d] = 1 /\ n = 0 BY <1>2, <1>5, <2>1
    <2>3. Moved(ed, fs, d, 0) BY <1>m, <2>2
    <2> DEFINE p == [k.adapter[a] EXCEPT !.devices = [@ EXCEPT ![x] = None]]
               l == SetA(k, a, p)
               g == Saved(l, x)
    <2>4. q.refs = 0 BY <2>1, <1>6
    <2>5. ~(k.device[d].refs > 0) BY <1>8, <2>4
    <2>6. a \in DOMAIN k.adapter /\ x \in Address /\ k.adapter[a] = h.adapter[a] BY <1>6, <1>8
    <2>7. /\ [k EXCEPT !.adapter[a].devices[x] = None] = l
          /\ p \in AdapterRec /\ p.refs = k.adapter[a].refs
          /\ p.dispatcher = k.adapter[a].dispatcher /\ p.held = k.adapter[a].held
          /\ \A y \in Address : p.devices[y] = IF y = x THEN None ELSE k.adapter[a].devices[y]
      <3> HIDE DEF a, x, k
      <3>1. k \in HeapRec BY <1>8
      <3> QED BY ONLY <3>1, <2>6, LeftTable DEF p, l
    <2>8. DeviceUnref(h, d, by) = AdapterUnref(g, a, by)
      <3>1. DeviceUnref(h, d, by) = AdapterUnref(Saved([k EXCEPT !.adapter[a].devices[x] = None], x), a, by)
        BY <1>9, <2>5, Zenon
      <3>2. [k EXCEPT !.adapter[a].devices[x] = None] = l BY <2>7, Zenon
      <3> QED BY <3>1, <3>2, Zenon
    <2> HIDE DEF p, m, n
    <2> DEFINE aa == a
               xx == x
    <2>9. aa = h.device[d].adapter /\ xx = h.device[d].addr /\ a = aa /\ x = xx OBVIOUS
    <2> HIDE DEF a, x
    <2>10. /\ l \in HeapRec /\ DOMAIN l.adapter = DOMAIN h.adapter
           /\ \A b \in DOMAIN h.adapter : l.adapter[b] = IF b = a THEN p ELSE h.adapter[b]
           /\ l.transport = k.transport /\ l.device = k.device /\ l.listed = k.listed
           /\ l.store = k.store /\ l.file = k.file /\ l.stale = k.stale
      BY <1>8, <2>6, <2>7, SetAIs
    <2> HIDE DEF l
    <2>11. /\ g \in HeapRec /\ g.transport = l.transport /\ g.device = l.device
           /\ g.adapter = l.adapter /\ g.listed = l.listed /\ g.stale = l.stale
           /\ g.store[x] = NoEntry /\ \A y \in Address \ {x} : g.store[y] = l.store[y]
      BY <2>6, <2>10, SavedIs
    <2> HIDE DEF g
    <2>12. GoneShape(h, g, d, q, a, p, x)
      <3>1. a = h.device[d].adapter /\ x = h.device[d].addr BY <2>9
      <3>2. /\ q.addr = x /\ q.adapter = a /\ q.refs = 0
            /\ q.transport = h.device[d].transport /\ q.battery = h.device[d].battery
        BY <1>6, <2>4, <2>9
      <3>3. /\ p.refs = h.adapter[a].refs /\ p.dispatcher = h.adapter[a].dispatcher
            /\ p.held = h.adapter[a].held
            /\ \A y \in Address : p.devices[y] = IF y = x THEN None ELSE h.adapter[a].devices[y]
        BY <2>6, <2>7
      <3>4. /\ DOMAIN g.device = DOMAIN h.device
            /\ \A e \in DOMAIN h.device : g.device[e] = IF e = d THEN q ELSE h.device[e]
            /\ DOMAIN g.adapter = DOMAIN h.adapter
            /\ \A b \in DOMAIN h.adapter : g.adapter[b] = IF b = a THEN p ELSE h.adapter[b]
            /\ g.transport = h.transport /\ g.listed = h.listed /\ g.stale = h.stale
        BY <1>8, <2>10, <2>11
      <3>5. g.store[x] = NoEntry /\ \A y \in Address \ {x} : g.store[y] = h.store[y]
        BY <1>8, <2>10, <2>11
      <3> QED BY <3>1, <3>2, <3>3, <3>4, <3>5 DEF GoneShape
    <2>13. a \in DOMAIN h.adapter /\ a \in Nat BY <2>6, <1>8, <1>1, HeapIs
    <2> DEFINE fa == [b \in Nat |-> IF b = a THEN ea[a] + 1 ELSE ea[b]]
    <2>14. fa \in Counts /\ Moved(ea, fa, a, ea[a] + 1) /\ fa[a] > 0 /\ Moved(fa, ea, a, fa[a] - 1)
      <3>1. ea[a] \in Nat /\ \A b \in Nat : ea[b] \in Nat BY <2>13 DEF Counts
      <3>2. fa[a] = ea[a] + 1 BY <2>13
      <3>3. fa \in Counts BY <3>1 DEF Counts
      <3>4. Moved(ea, fa, a, ea[a] + 1) BY DEF Moved
      <3>5. Moved(fa, ea, a, fa[a] - 1) BY <3>1, <3>2 DEF Moved
      <3> QED BY <3>1, <3>2, <3>3, <3>4, <3>5
    <2> HIDE DEF fa
    <2>15. Sound(g, et, fs, fa)
      <3>1. GoneShape(h, g, d, q, a, p, x) /\ p \in AdapterRec /\ g \in HeapRec /\ q \in DeviceRec
            /\ x \in Address
        BY <2>12, <2>7, <2>11, <1>6, <2>6
      <3> QED BY <3>1, <2>1, <2>2, <2>3, <2>13, <2>14, FreeDevice
    <2>16. a \in DOMAIN g.adapter BY <2>10, <2>11, <2>13
    <2>17. Sound(AdapterUnref(g, a, by), et, fs, ea) /\ SameLife(g, AdapterUnref(g, a, by))
      BY <2>14, <2>15, <2>16, UnrefAdapter
    <2>18. SameLife(h, g)
      <3>1. \A e \in DOMAIN h.device : g.device[e] = IF e = d THEN q ELSE h.device[e]
        BY <2>12 DEF GoneShape
      <3>2. q.battery = h.device[d].battery /\ q.adapter = h.device[d].adapter BY <1>6, <2>9
      <3>3. /\ DOMAIN g.device = DOMAIN h.device /\ DOMAIN g.adapter = DOMAIN h.adapter
            /\ g.transport = h.transport
        BY <2>12 DEF GoneShape
      <3> QED BY <3>1, <3>2, <3>3 DEF SameLife
    <2>19. ASSUME NEW i, SameLife(h, g), SameLife(g, i) PROVE SameLife(h, i)
      BY <2>19 DEF SameLife
    <2> QED BY <2>8, <2>17, <2>18, <2>19
  <1> QED BY <1>10, <1>11

----------------------------------------------------------------------------
(* What main holds *)

Plus(f, i) == [j \in Nat |-> IF j = i THEN f[j] + 1 ELSE f[j]]

LEMMA PlusIs ==
  ASSUME NEW f \in Counts, NEW i \in Nat
  PROVE  /\ Plus(f, i) \in Counts /\ Plus(f, i)[i] = f[i] + 1 /\ Plus(f, i)[i] > 0
         /\ f[i] \in Nat
         /\ Moved(f, Plus(f, i), i, f[i] + 1)
         /\ Moved(Plus(f, i), f, i, Plus(f, i)[i] - 1)
  <1>1. \A j \in Nat : f[j] \in Nat BY DEF Counts
  <1>2. Plus(f, i) \in Counts BY <1>1 DEF Plus, Counts
  <1>3. Plus(f, i)[i] = f[i] + 1 BY DEF Plus
  <1>4. Moved(f, Plus(f, i), i, f[i] + 1) BY DEF Moved, Plus
  <1>5. Moved(Plus(f, i), f, i, Plus(f, i)[i] - 1) BY <1>1, <1>3 DEF Moved, Plus
  <1> QED BY <1>1, <1>2, <1>3, <1>4, <1>5

LEMMA ByMainIs ==
  ASSUME NEW m, NEW b
  PROVE  /\ ByMainT(m) \in Counts /\ ByMainD(m) \in Counts /\ ByMainA(m, b) \in Counts
         /\ \A i \in Nat : /\ ByMainT(m)[i] = One(InMain(m, OfTransport, i))
                           /\ ByMainD(m)[i] = One(InMain(m, OfDevice, i))
                           /\ ByMainA(m, b)[i] =
                                One(b # None /\ b = i /\ ~(m # << >> /\ m[1].do = "batteries"))
                                  + One(InMain(m, {"leaveAdapter"}, i))
  BY DEF ByMainT, ByMainD, ByMainA, Counts, One

LEMMA InTail ==
  ASSUME NEW m \in Seq(FrameRec), m # << >>
  PROVE  /\ Tail(m) \in Seq(FrameRec) /\ m[1] \in FrameRec /\ Len(m) \in Nat
         /\ Len(Tail(m)) = Len(m) - 1 /\ \A i \in 1 .. Len(Tail(m)) : Tail(m)[i] = m[i + 1]
         /\ \A dos, id : InMain(m, dos, id) <=> (m[1].do \in dos /\ m[1].id = id) \/ InMain(Tail(m), dos, id)
  <1>1. /\ Tail(m) \in Seq(FrameRec) /\ m[1] \in FrameRec /\ Len(m) \in Nat /\ Len(m) > 0
        /\ Len(Tail(m)) = Len(m) - 1 /\ DOMAIN m = 1 .. Len(m)
        /\ DOMAIN Tail(m) = 1 .. Len(m) - 1
        /\ \A i \in 1 .. Len(Tail(m)) : Tail(m)[i] = m[i + 1]
    OBVIOUS
  <1> DEFINE k == Tail(m)
  <1> HIDE DEF k
  <1>2. ASSUME NEW dos, NEW id, InMain(m, dos, id)
        PROVE  (m[1].do \in dos /\ m[1].id = id) \/ InMain(k, dos, id)
    <2>1. PICK i \in DOMAIN m : m[i].do \in dos /\ m[i].id = id BY <1>2 DEF InMain
    <2>2. CASE i = 1 BY <2>1, <2>2
    <2>3. CASE i # 1
      <3>1. i - 1 \in DOMAIN k /\ k[i - 1] = m[i] BY <1>1, <2>3 DEF k
      <3> QED BY <2>1, <3>1 DEF InMain
    <2> QED BY <2>2, <2>3
  <1>3. ASSUME NEW dos, NEW id, (m[1].do \in dos /\ m[1].id = id) \/ InMain(k, dos, id)
        PROVE  InMain(m, dos, id)
    <2>1. CASE m[1].do \in dos /\ m[1].id = id
      <3>1. 1 \in DOMAIN m BY <1>1
      <3> QED BY <2>1, <3>1 DEF InMain
    <2>2. CASE InMain(k, dos, id)
      <3>1. PICK i \in DOMAIN k : k[i].do \in dos /\ k[i].id = id BY <2>2 DEF InMain
      <3>2. i + 1 \in DOMAIN m /\ m[i + 1] = k[i] BY <1>1 DEF k
      <3> QED BY <3>1, <3>2 DEF InMain
    <2> QED BY <1>3, <2>1, <2>2
  <1> QED BY <1>1, <1>2, <1>3 DEF k

Pushes(n, f, m) == n = <<f>> \o m

LEMMA Pushed ==
  ASSUME NEW m \in Seq(FrameRec), NEW f \in FrameRec, NEW n, Pushes(n, f, m)
  PROVE  /\ n \in Seq(FrameRec) /\ n # << >> /\ n[1] = f /\ Tail(n) = m /\ Len(n) = Len(m) + 1
         /\ \A i \in 1 .. Len(m) : n[i + 1] = m[i]
  BY DEF Pushes

\* The functions below one that destroys a transport.
LEMMA ShapeIs ==
  ASSUME NEW h, NEW b, NEW m \in Seq(FrameRec), Shape(h, m, b)
  PROVE  /\ \A id : ~InMain(m, OfTransport, id)
         /\ m # << >> =>
              /\ m[1].do \in {"leaveDevice", "leaveAdapter", "batteries", "adapter", "device"}
              /\ Shape(h, Tail(m), b)
  <1>1. DOMAIN m = 1 .. Len(m) /\ Len(m) \in Nat OBVIOUS
  <1>2. ASSUME NEW id PROVE ~InMain(m, OfTransport, id)
    BY <1>1 DEF Shape, OnDevice, OnAdapter, InMain, OfTransport
  <1>3. ASSUME m # << >>
        PROVE  /\ m[1].do \in {"leaveDevice", "leaveAdapter", "batteries", "adapter", "device"}
               /\ Shape(h, Tail(m), b)
    <2>1. m[1].do \in {"leaveDevice", "leaveAdapter", "batteries", "adapter", "device"}
      BY <1>3 DEF Shape, OnDevice, OnAdapter
    <2> DEFINE k == Tail(m)
    <2>2. Len(k) = Len(m) - 1 /\ \A i \in 1 .. Len(k) : k[i] = m[i + 1] BY <1>3, InTail
    <2>3. k \in Seq(FrameRec) BY <1>3, InTail
    <2> HIDE DEF k
    <2>e. Len(k) = 0 => k = << >>
      <3>1. ASSUME NEW s \in Seq(FrameRec), Len(s) = 0 PROVE s = << >> BY <3>1
      <3> QED BY <3>1, <2>3
    <2>s. Shape(h, k, b)
      <3>4. CASE Len(m) = 1
        <4>1. k = << >> BY <3>4, <2>2, <2>e
        <4> QED BY <4>1 DEF Shape
      <3>5. CASE Len(m) = 2
        <4>1. Len(k) = 1 /\ k[1] = m[2] BY <3>5, <2>2
        <4>2. \/ m[2].do = "leaveDevice" /\ m[2].id \in DOMAIN h.device
              \/ m[2].do = "batteries" /\ m[2].id = b /\ b # None
          BY <3>5, <1>3 DEF Shape, OnDevice, OnAdapter
        <4> QED BY <4>1, <4>2 DEF Shape, OnDevice, OnAdapter
      <3>6. CASE Len(m) = 3
        <4>1. Len(k) = 2 /\ k[1] = m[2] /\ k[2] = m[3] BY <3>6, <2>2
        <4>2. /\ m[2].do = "adapter" /\ m[2].id = b /\ b # None
              /\ m[3].do = "batteries" /\ m[3].id = b
          BY <3>6, <1>3 DEF Shape, OnDevice, OnAdapter
        <4> QED BY <4>1, <4>2 DEF Shape, OnDevice, OnAdapter
      <3> QED BY <3>4, <3>5, <3>6, <1>3 DEF Shape
    <2> QED BY <2>1, <2>s DEF k
  <1> QED BY <1>2, <1>3

LEMMA SameCounts ==
  ASSUME NEW f \in Counts, NEW g \in Counts, \A i \in Nat : f[i] = g[i]
  PROVE  f = g
  BY DEF Counts

OnBatteries(m) == m # << >> /\ m[1].do = "batteries"

LEMMA SameHeld ==
  ASSUME NEW m, NEW k, NEW b
  PROVE  /\ (\A id \in Nat : InMain(m, OfTransport, id) <=> InMain(k, OfTransport, id))
              => ByMainT(k) = ByMainT(m)
         /\ (\A id \in Nat : InMain(m, OfDevice, id) <=> InMain(k, OfDevice, id))
              => ByMainD(k) = ByMainD(m)
         /\ /\ \A id \in Nat : InMain(m, {"leaveAdapter"}, id) <=> InMain(k, {"leaveAdapter"}, id)
            /\ OnBatteries(m) <=> OnBatteries(k)
            => ByMainA(k, b) = ByMainA(m, b)
  <1>1. ASSUME \A id \in Nat : InMain(m, OfTransport, id) <=> InMain(k, OfTransport, id)
        PROVE  ByMainT(k) = ByMainT(m)
    <2>1. \A id \in Nat : One(InMain(k, OfTransport, id)) = One(InMain(m, OfTransport, id))
      BY <1>1 DEF One
    <2> QED BY <2>1 DEF ByMainT
  <1>2. ASSUME \A id \in Nat : InMain(m, OfDevice, id) <=> InMain(k, OfDevice, id)
        PROVE  ByMainD(k) = ByMainD(m)
    <2>1. \A id \in Nat : One(InMain(k, OfDevice, id)) = One(InMain(m, OfDevice, id))
      BY <1>2 DEF One
    <2> QED BY <2>1 DEF ByMainD
  <1>3. ASSUME \A id \in Nat : InMain(m, {"leaveAdapter"}, id) <=> InMain(k, {"leaveAdapter"}, id),
               OnBatteries(m) <=> OnBatteries(k)
        PROVE  ByMainA(k, b) = ByMainA(m, b)
    <2>1. \A id \in Nat : One(InMain(k, {"leaveAdapter"}, id)) = One(InMain(m, {"leaveAdapter"}, id))
      BY <1>3 DEF One
    <2>2. \A id \in Nat : One(b # None /\ b = id /\ ~OnBatteries(k)) = One(b # None /\ b = id /\ ~OnBatteries(m))
      BY <1>3 DEF One
    <2> QED BY <2>1, <2>2 DEF ByMainA, OnBatteries
  <1> QED BY <1>1, <1>2, <1>3

\* What is below the innermost function.
LEMMA Below ==
  ASSUME NEW h, NEW b, NEW m \in Seq(FrameRec), m # << >>, Shape(h, m, b)
  PROVE  LET k == Tail(m)
         IN /\ m[1].do \in OfDevice =>
                 /\ m[1].id \in DOMAIN h.device
                 /\ \A id : ~InMain(k, OfDevice, id)
                 /\ k # << >> => k[1].do = "adapter"
            /\ m[1].do = "leaveAdapter" =>
                 /\ m[1].id \in DOMAIN h.adapter
                 /\ \A id : ~InMain(k, {"leaveAdapter"}, id)
                 /\ k # << >> /\ k[1].do = "leaveDevice"
            /\ m[1].do = "adapter" =>
                 /\ m[1].id = b /\ b # None
                 /\ \A id : ~InMain(k, {"leaveAdapter"}, id) /\ ~InMain(k, OfDevice, id)
                 /\ k # << >> /\ k[1].do = "batteries"
            /\ m[1].do = "batteries" => b # None /\ k = << >>
  <1> DEFINE k == Tail(m)
  <1>1. /\ k \in Seq(FrameRec) /\ Len(m) \in Nat /\ Len(k) = Len(m) - 1
        /\ \A i \in 1 .. Len(k) : k[i] = m[i + 1]
    BY InTail
  <1> HIDE DEF k
  <1>2. DOMAIN k = 1 .. Len(k) BY <1>1
  <1>e. Len(k) = 0 => k = << >>
    <2>1. ASSUME NEW s \in Seq(FrameRec), Len(s) = 0 PROVE s = << >> BY <2>1
    <2> QED BY <2>1, <1>1
  <1>f. Len(k) > 0 => k # << >> BY <1>1
  <1>3. CASE Len(m) = 1
    <2>1. k = << >> BY <1>1, <1>3, <1>e
    <2>2. \A dos, id : ~InMain(k, dos, id) BY <1>1, <1>2, <1>3 DEF InMain
    <2>3. \/ m[1].do = "leaveDevice" /\ m[1].id \in DOMAIN h.device
          \/ m[1].do = "batteries" /\ m[1].id = b /\ b # None
      BY <1>3 DEF Shape, OnDevice, OnAdapter
    <2> QED BY <2>1, <2>2, <2>3 DEF k, OfDevice
  <1>4. CASE Len(m) = 2
    <2>1. Len(k) = 1 /\ k[1] = m[2] /\ k # << >> BY <1>1, <1>4, <1>f
    <2>2. \A dos, id : InMain(k, dos, id) <=> m[2].do \in dos /\ m[2].id = id
      BY <1>2, <2>1 DEF InMain
    <2>3. \/ m[1].do = "leaveAdapter" /\ m[1].id \in DOMAIN h.adapter /\ m[2].do = "leaveDevice"
          \/ m[1].do = "adapter" /\ m[1].id = b /\ b # None /\ m[2].do = "batteries"
      BY <1>4 DEF Shape, OnDevice, OnAdapter
    <2> QED BY <2>1, <2>2, <2>3 DEF k, OfDevice
  <1>5. CASE Len(m) = 3
    <2>1. Len(k) = 2 /\ k[1] = m[2] /\ k[2] = m[3] /\ k # << >> BY <1>1, <1>5, <1>f
    <2>2. \A dos, id : InMain(k, dos, id) =>
            (m[2].do \in dos /\ m[2].id = id) \/ (m[3].do \in dos /\ m[3].id = id)
      BY <1>2, <2>1 DEF InMain
    <2>3. /\ m[1].do = "device" /\ m[1].id \in DOMAIN h.device
          /\ m[2].do = "adapter" /\ m[3].do = "batteries"
      BY <1>5 DEF Shape, OnDevice, OnAdapter
    <2> QED BY <2>1, <2>2, <2>3 DEF k, OfDevice
  <1> QED BY <1>3, <1>4, <1>5 DEF Shape

LEMMA PopDevice ==
  ASSUME NEW h, NEW b, NEW m \in Seq(FrameRec), m # << >>, Shape(h, m, b), m[1].do \in OfDevice
  PROVE  LET k == Tail(m)
         IN /\ Shape(h, k, b) /\ m[1].id \in DOMAIN h.device /\ m[1].id \in Nat
            /\ ByMainT(k) = ByMainT(m) /\ ByMainA(k, b) = ByMainA(m, b)
            /\ ByMainD(m)[m[1].id] > 0
            /\ Moved(ByMainD(m), ByMainD(k), m[1].id, ByMainD(m)[m[1].id] - 1)
  <1> DEFINE k == Tail(m)
  <1>1. /\ k \in Seq(FrameRec) /\ m[1].id \in Nat
        /\ \A dos, id : InMain(m, dos, id) <=> (m[1].do \in dos /\ m[1].id = id) \/ InMain(k, dos, id)
    BY InTail DEF FrameRec
  <1>2. Shape(h, k, b) /\ m[1].id \in DOMAIN h.device
        /\ (\A id : ~InMain(k, OfDevice, id)) /\ (k # << >> => k[1].do = "adapter")
    BY Below, ShapeIs
  <1> HIDE DEF k
  <1>3. \A id \in Nat : InMain(m, OfTransport, id) <=> InMain(k, OfTransport, id)
    BY <1>1 DEF OfDevice, OfTransport
  <1>4. ByMainT(k) = ByMainT(m)
    BY <1>3, SameHeld
  <1>5. \A id \in Nat : InMain(m, {"leaveAdapter"}, id) <=> InMain(k, {"leaveAdapter"}, id)
    BY <1>1 DEF OfDevice
  <1>6. ByMainA(k, b) = ByMainA(m, b)
    <2>1. m[1].do # "batteries" /\ ~(k # << >> /\ k[1].do = "batteries") BY <1>2 DEF OfDevice
    <2>2. OnBatteries(m) <=> OnBatteries(k) BY <2>1 DEF OnBatteries
    <2> QED BY <2>2, <1>5, SameHeld
  <1>7. \A id \in Nat : ByMainD(k)[id] = 0 /\ ByMainD(m)[id] = IF id = m[1].id THEN 1 ELSE 0
    <2>1. \A id : InMain(m, OfDevice, id) <=> m[1].id = id BY <1>1, <1>2
    <2>2. \A id : One(InMain(k, OfDevice, id)) = 0 BY ONLY <1>2 DEF One
    <2>3. \A id : One(InMain(m, OfDevice, id)) = IF id = m[1].id THEN 1 ELSE 0 BY ONLY <2>1 DEF One
    <2>4. \A n : \A id \in Nat : ByMainD(n)[id] = One(InMain(n, OfDevice, id)) BY ByMainIs
    <2> QED BY ONLY <2>2, <2>3, <2>4
  <1>8. Moved(ByMainD(m), ByMainD(k), m[1].id, ByMainD(m)[m[1].id] - 1) /\ ByMainD(m)[m[1].id] > 0
    BY <1>1, <1>7 DEF Moved
  <1> QED BY <1>1, <1>2, <1>4, <1>6, <1>8 DEF k

LEMMA PopAdapter ==
  ASSUME NEW h, NEW b, NEW m \in Seq(FrameRec), m # << >>, Shape(h, m, b),
         m[1].do \in {"leaveAdapter", "adapter"}
  PROVE  LET k == Tail(m)
         IN /\ Shape(h, k, b) /\ m[1].id \in Nat /\ (m[1].id \in DOMAIN h.adapter \/ (m[1].id = b /\ b # None))
            /\ ByMainT(k) = ByMainT(m) /\ ByMainD(k) = ByMainD(m)
            /\ ByMainA(m, b)[m[1].id] > 0
            /\ Moved(ByMainA(m, b), ByMainA(k, b), m[1].id, ByMainA(m, b)[m[1].id] - 1)
  <1> DEFINE k == Tail(m)
  <1>1. /\ k \in Seq(FrameRec) /\ m[1].id \in Nat
        /\ \A dos, id : InMain(m, dos, id) <=> (m[1].do \in dos /\ m[1].id = id) \/ InMain(k, dos, id)
    BY InTail DEF FrameRec
  <1>2. /\ Shape(h, k, b) /\ k # << >>
        /\ m[1].do = "leaveAdapter" => k[1].do = "leaveDevice" /\ m[1].id \in DOMAIN h.adapter
        /\ m[1].do = "adapter" => k[1].do = "batteries" /\ m[1].id = b /\ b # None
        /\ \A id : ~InMain(k, {"leaveAdapter"}, id)
    BY Below, ShapeIs
  <1> HIDE DEF k
  <1>3. \A id \in Nat : InMain(m, OfTransport, id) <=> InMain(k, OfTransport, id)
    BY <1>1 DEF OfTransport
  <1>4. ByMainT(k) = ByMainT(m)
    BY <1>3, SameHeld
  <1>5. \A id \in Nat : InMain(m, OfDevice, id) <=> InMain(k, OfDevice, id)
    BY <1>1 DEF OfDevice
  <1>6. ByMainD(k) = ByMainD(m)
    BY <1>5, SameHeld
  <1> DEFINE B(n, id) == One(b # None /\ b = id /\ ~(n # << >> /\ n[1].do = "batteries"))
             E(id) == One(b # None /\ b = id)
             L(n, id) == One(InMain(n, {"leaveAdapter"}, id))
             A == ByMainA(m, b)
             C == ByMainA(k, b)
  <1>a. \A id \in Nat : A[id] = B(m, id) + L(m, id) /\ C[id] = B(k, id) + L(k, id) BY ByMainIs
  <1>e. \A id \in Nat : E(id) \in Nat BY DEF One
  <1>l. \A id : L(k, id) = 0 BY <1>2 DEF One
  <1>9. A[m[1].id] > 0 /\ Moved(A, C, m[1].id, A[m[1].id] - 1)
    <2>7. CASE m[1].do = "leaveAdapter"
      <3>1. \A id : B(m, id) = E(id) /\ B(k, id) = E(id) BY <1>2, <2>7 DEF One
      <3>2. \A id : L(m, id) = IF id = m[1].id THEN 1 ELSE 0 BY <1>1, <1>2, <2>7 DEF One
      <3> HIDE DEF B, E, L, A, C
      <3>3. \A id \in Nat : C[id] = E(id) /\ A[id] = IF id = m[1].id THEN E(id) + 1 ELSE E(id)
        <4>1. ASSUME NEW id \in Nat PROVE C[id] = E(id) + 0 /\ A[id] = E(id) + L(m, id)
          BY ONLY <4>1, <3>1, <1>a, <1>l
        <4>2. ASSUME NEW id \in Nat
              PROVE C[id] = E(id) /\ A[id] = IF id = m[1].id THEN E(id) + 1 ELSE E(id)
          <5>1. E(id) \in Nat /\ E(id) + 0 = E(id) BY ONLY <4>2, <1>e
          <5>2. C[id] = E(id) + 0 /\ A[id] = E(id) + L(m, id) BY ONLY <4>2, <4>1
          <5>3. L(m, id) = IF id = m[1].id THEN 1 ELSE 0 BY ONLY <3>2
          <5> QED BY ONLY <5>1, <5>2, <5>3
        <4> QED BY ONLY <4>2
      <3>4. ASSUME NEW i \in Nat, i = m[1].id PROVE A[i] > 0 /\ Moved(A, C, i, A[i] - 1)
        <4>1. A[i] = E(i) + 1 /\ C[i] = E(i) /\ E(i) \in Nat BY <3>3, <3>4, <1>e
        <4>2. \A j \in Nat \ {i} : C[j] = A[j] BY <3>3, <3>4
        <4>3. C[i] = A[i] - 1 /\ A[i] > 0 BY <4>1
        <4> QED BY <4>2, <4>3 DEF Moved
      <3> QED BY <3>4, <1>1
    <2>8. CASE m[1].do = "adapter"
      <3>1. m[1].id = b /\ b # None /\ k # << >> /\ k[1].do = "batteries" /\ m[1].do # "batteries"
        BY <1>2, <2>8
      <3>2. \A id : B(m, id) = (IF id = m[1].id THEN 1 ELSE 0) /\ B(k, id) = 0
        BY <3>1 DEF One
      <3>3. \A id : L(m, id) = 0 BY <1>1, <1>2, <2>8 DEF One
      <3> HIDE DEF B, E, L, A, C
      <3>4. \A id \in Nat : C[id] = 0 /\ A[id] = IF id = m[1].id THEN 1 ELSE 0
        BY <3>2, <3>3, <1>a, <1>l
      <3> QED BY <3>4, <1>1 DEF Moved
    <2> QED BY <2>7, <2>8
  <1> HIDE DEF B, E, L, A, C
  <1>10. m[1].id \in DOMAIN h.adapter \/ (m[1].id = b /\ b # None)
    <2>1. CASE m[1].do = "leaveAdapter" BY <2>1, <1>2
    <2>2. CASE m[1].do = "adapter" BY <2>2, <1>2
    <2> QED BY <2>1, <2>2
  <1> QED BY <1>1, <1>2, <1>4, <1>6, <1>9, <1>10 DEF k, A, C

LEMMA PopTransport ==
  ASSUME NEW h, NEW b, NEW m \in Seq(FrameRec), OnTransport(h, m), Shape(h, Tail(m), b),
         Tail(m) # << >>, Tail(m)[1].do \in {"leaveAdapter", "device"}
  PROVE  LET k == Tail(m)
         IN /\ k \in Seq(FrameRec) /\ m[1].id \in Nat
            /\ ByMainD(k) = ByMainD(m) /\ ByMainA(k, b) = ByMainA(m, b)
            /\ ByMainT(m)[m[1].id] > 0
            /\ Moved(ByMainT(m), ByMainT(k), m[1].id, ByMainT(m)[m[1].id] - 1)
  <1> DEFINE k == Tail(m)
  <1>0. m # << >> /\ m[1].do \in OfTransport BY DEF OnTransport
  <1>1. /\ k \in Seq(FrameRec) /\ m[1].id \in Nat
        /\ \A dos, id : InMain(m, dos, id) <=> (m[1].do \in dos /\ m[1].id = id) \/ InMain(k, dos, id)
    BY <1>0, InTail DEF FrameRec
  <1>2. \A id : ~InMain(k, OfTransport, id) BY <1>1, ShapeIs
  <1>3. k # << >> /\ k[1].do # "batteries" /\ m[1].do # "batteries" BY <1>0 DEF OfTransport
  <1> HIDE DEF k
  <1>5. \A id \in Nat : InMain(m, OfDevice, id) <=> InMain(k, OfDevice, id)
    BY <1>0, <1>1 DEF OfDevice, OfTransport
  <1>6. ByMainD(k) = ByMainD(m)
    BY <1>5, SameHeld
  <1>7. \A id \in Nat : InMain(m, {"leaveAdapter"}, id) <=> InMain(k, {"leaveAdapter"}, id)
    BY <1>0, <1>1 DEF OfTransport
  <1>8. ByMainA(k, b) = ByMainA(m, b)
    <2>1. OnBatteries(m) <=> OnBatteries(k) BY <1>3 DEF OnBatteries
    <2> QED BY <2>1, <1>7, SameHeld
  <1>9. \A id \in Nat : ByMainT(k)[id] = 0 /\ ByMainT(m)[id] = IF id = m[1].id THEN 1 ELSE 0
    BY <1>0, <1>1, <1>2, ByMainIs DEF One
  <1>10. Moved(ByMainT(m), ByMainT(k), m[1].id, ByMainT(m)[m[1].id] - 1) /\ ByMainT(m)[m[1].id] > 0
    BY <1>1, <1>9 DEF Moved
  <1> QED BY <1>1, <1>6, <1>8, <1>10 DEF k

\* Main goes on in the destruction of the same transport.
LEMMA GoOn ==
  ASSUME NEW h, NEW b, NEW m \in Seq(FrameRec), OnTransport(h, m), Shape(h, Tail(m), b),
         Tail(m) # << >>, Tail(m)[1].do \in {"leaveAdapter", "device"}, NEW do \in OfTransport,
         NEW f, f = [m[1] EXCEPT !.do = do], NEW n, Pushes(n, f, Tail(m))
  PROVE  /\ n \in Seq(FrameRec) /\ MainShape(h, n, b) /\ n # << >> /\ n[1].do = do
         /\ n[1].id = m[1].id
         /\ ByMainT(n) = ByMainT(m) /\ ByMainD(n) = ByMainD(m) /\ ByMainA(n, b) = ByMainA(m, b)
  <1>0. m # << >> /\ m[1].do \in OfTransport /\ m[1].id \in DOMAIN h.transport BY DEF OnTransport
  <1>1. /\ Tail(m) \in Seq(FrameRec) /\ m[1] \in FrameRec
        /\ \A dos, id : InMain(m, dos, id) <=> (m[1].do \in dos /\ m[1].id = id) \/ InMain(Tail(m), dos, id)
    BY <1>0, InTail
  <1>2. f \in FrameRec /\ f.do = do /\ f.id = m[1].id BY <1>1 DEF FrameRec, Doing
  <1>3. n \in Seq(FrameRec) /\ n # << >> /\ n[1] = f /\ Tail(n) = Tail(m)
    <2> DEFINE k == Tail(m)
    <2>1. k \in Seq(FrameRec) /\ Pushes(n, f, k) BY <1>1
    <2> HIDE DEF k
    <2>2. n \in Seq(FrameRec) /\ n # << >> /\ n[1] = f /\ Tail(n) = k
      BY <1>2, <2>1, Pushed
    <2> QED BY <2>2 DEF k
  <1>4. \A dos, id : InMain(n, dos, id) <=> (f.do \in dos /\ f.id = id) \/ InMain(Tail(m), dos, id)
    BY <1>3, InTail
  <1>5. MainShape(h, n, b) BY <1>0, <1>2, <1>3 DEF MainShape, OnTransport
  <1>6. \A id : /\ InMain(n, OfTransport, id) <=> InMain(m, OfTransport, id)
                /\ InMain(n, OfDevice, id) <=> InMain(m, OfDevice, id)
                /\ InMain(n, {"leaveAdapter"}, id) <=> InMain(m, {"leaveAdapter"}, id)
    BY <1>0, <1>1, <1>2, <1>4 DEF OfTransport, OfDevice
  <1>7. n[1].do # "batteries" /\ m[1].do # "batteries" BY <1>0, <1>2, <1>3 DEF OfTransport
  <1>8. OnBatteries(m) <=> OnBatteries(n) BY <1>7 DEF OnBatteries
  <1>9. ByMainT(n) = ByMainT(m) /\ ByMainD(n) = ByMainD(m) /\ ByMainA(n, b) = ByMainA(m, b)
    BY <1>6, <1>8, SameHeld
  <1> QED BY <1>2, <1>3, <1>5, <1>9

LEMMA MovedBack ==
  ASSUME NEW f \in Counts, NEW g \in Counts, NEW i \in Nat, f[i] > 0, Moved(f, g, i, f[i] - 1)
  PROVE  Moved(g, f, i, g[i] + 1)
  <1>1. f[i] \in Nat /\ g[i] = f[i] - 1 BY DEF Counts, Moved
  <1>2. f[i] = g[i] + 1 BY <1>1
  <1>3. \A j \in Nat : j # i => f[j] = g[j] BY DEF Moved
  <1> QED BY <1>2, <1>3 DEF Moved

LEMMA PushTransport ==
  ASSUME NEW h, NEW b, NEW m \in Seq(FrameRec), m # << >>, Shape(h, m, b),
         m[1].do \in {"leaveAdapter", "device"}, NEW t \in DOMAIN h.transport, t \in Nat,
         NEW n \in Seq(FrameRec), n # << >>, n[1] = Frame("unregister", t), Tail(n) = m
  PROVE  /\ MainShape(h, n, b) /\ n[1].do = "unregister"
         /\ ByMainD(n) = ByMainD(m) /\ ByMainA(n, b) = ByMainA(m, b)
         /\ Moved(ByMainT(m), ByMainT(n), t, ByMainT(m)[t] + 1)
  <1>1. n[1].do = "unregister" /\ n[1].id = t BY DEF Frame
  <1>3. OnTransport(h, n) BY <1>1 DEF OnTransport, OfTransport
  <1>4. MainShape(h, n, b) BY <1>3 DEF MainShape
  <1>5. /\ ByMainD(m) = ByMainD(n) /\ ByMainA(m, b) = ByMainA(n, b)
        /\ ByMainT(n)[t] > 0 /\ Moved(ByMainT(n), ByMainT(m), t, ByMainT(n)[t] - 1)
    BY <1>1, <1>3, PopTransport
  <1>6. Moved(ByMainT(m), ByMainT(n), t, ByMainT(m)[t] + 1) BY <1>5, ByMainIs, MovedBack
  <1> QED BY <1>1, <1>4, <1>5, <1>6

LEMMA FrameIs ==
  ASSUME NEW do \in Doing, NEW id \in Nat
  PROVE  Frame(do, id) \in FrameRec /\ Frame(do, id).do = do /\ Frame(do, id).id = id
  BY DEF Frame, FrameRec

LEMMA PushDevice ==
  ASSUME NEW h, NEW b, NEW m \in Seq(FrameRec), m # << >>, Shape(h, m, b),
         m[1].do = "adapter", NEW d \in DOMAIN h.device, d \in Nat,
         NEW f, f = Frame("device", d), NEW n, Pushes(n, f, m)
  PROVE  /\ n \in Seq(FrameRec) /\ Shape(h, n, b) /\ n # << >> /\ n[1].do = "device"
         /\ ByMainT(n) = ByMainT(m) /\ ByMainA(n, b) = ByMainA(m, b)
         /\ Moved(ByMainD(m), ByMainD(n), d, ByMainD(m)[d] + 1)
  <1>1. f \in FrameRec /\ f.do = "device" /\ f.id = d
    BY DEF Frame, FrameRec, Doing, OfDevice
  <1>2. /\ n \in Seq(FrameRec) /\ n # << >> /\ n[1] = f /\ Tail(n) = m /\ Len(n) = Len(m) + 1
        /\ \A i \in 1 .. Len(m) : n[i + 1] = m[i]
    BY <1>1, Pushed
  <1>3. Len(m) = 2 /\ m[1].id = b /\ b # None /\ m[2].do = "batteries" /\ m[2].id = b
    BY DEF Shape, OnDevice, OnAdapter
  <1>4. Shape(h, n, b)
    <2>1. Len(n) = 3 /\ n[2] = m[1] /\ n[3] = m[2] BY <1>2, <1>3
    <2> QED BY <2>1, <1>1, <1>2, <1>3 DEF Shape, OnDevice, OnAdapter
  <1>5. /\ ByMainT(m) = ByMainT(n) /\ ByMainA(m, b) = ByMainA(n, b)
        /\ ByMainD(n)[d] > 0 /\ Moved(ByMainD(n), ByMainD(m), d, ByMainD(n)[d] - 1)
    BY <1>1, <1>2, <1>4, PopDevice DEF OfDevice
  <1>6. Moved(ByMainD(m), ByMainD(n), d, ByMainD(m)[d] + 1) BY <1>5, ByMainIs, MovedBack
  <1> QED BY <1>1, <1>2, <1>4, <1>5, <1>6

\* The functions of RequestDisconnection.
LEMMA PushDisconnection ==
  ASSUME NEW h, NEW b, NEW t \in DOMAIN h.transport, t \in Nat, NEW d \in DOMAIN h.device, d \in Nat,
         NEW a \in DOMAIN h.adapter, a \in Nat
  PROVE  LET n == <<Frame("unregister", t), Frame("leaveAdapter", a), Frame("leaveDevice", d)>>
         IN /\ n \in Seq(FrameRec) /\ MainShape(h, n, b) /\ n # << >> /\ n[1].do = "unregister"
            /\ Moved(ByMainT(<< >>), ByMainT(n), t, ByMainT(<< >>)[t] + 1)
            /\ Moved(ByMainD(<< >>), ByMainD(n), d, ByMainD(<< >>)[d] + 1)
            /\ Moved(ByMainA(<< >>, b), ByMainA(n, b), a, ByMainA(<< >>, b)[a] + 1)
  <1> DEFINE e == Frame("leaveDevice", d)
             f == Frame("leaveAdapter", a)
             g == Frame("unregister", t)
             m == << >>
             k == <<e>>
             l == <<f, e>>
  <1>1. /\ e \in FrameRec /\ e.do = "leaveDevice" /\ e.id = d
        /\ f \in FrameRec /\ f.do = "leaveAdapter" /\ f.id = a
    BY DEF Frame, FrameRec, Doing, OfDevice
  <1>g. g \in FrameRec /\ g = Frame("unregister", t) BY DEF Frame, FrameRec, Doing, OfTransport
  <1> HIDE DEF e, f, g
  <1>3. k \in Seq(FrameRec) /\ k # << >> /\ k[1] = e /\ Len(k) = 1 /\ Tail(k) = << >> BY <1>1
  <1>4. l \in Seq(FrameRec) /\ l # << >> /\ l[1] = f /\ l[2] = e /\ Len(l) = 2 /\ Tail(l) = k BY <1>1
  <1> DEFINE n == <<g, f, e>>
  <1>2. n \in Seq(FrameRec) /\ n # << >> /\ n[1] = g /\ Tail(n) = l BY <1>1, <1>g
  <1> HIDE DEF k, l, n
  <1>5. Shape(h, k, b) BY <1>1, <1>3 DEF Shape, OnDevice
  <1>6. Shape(h, l, b) BY <1>1, <1>4 DEF Shape, OnDevice
  <1>7. /\ ByMainT(m) = ByMainT(k) /\ ByMainA(m, b) = ByMainA(k, b)
        /\ ByMainD(k)[d] > 0 /\ Moved(ByMainD(k), ByMainD(m), d, ByMainD(k)[d] - 1)
    BY <1>1, <1>3, <1>5, PopDevice DEF OfDevice
  <1>8. /\ ByMainT(k) = ByMainT(l) /\ ByMainD(k) = ByMainD(l)
        /\ ByMainA(l, b)[a] > 0 /\ Moved(ByMainA(l, b), ByMainA(k, b), a, ByMainA(l, b)[a] - 1)
    <2>1. l[1].do = "leaveAdapter" /\ l[1].id = a /\ Tail(l) = k BY ONLY <1>1, <1>4
    <2>2. l \in Seq(FrameRec) /\ l # << >> BY ONLY <1>4
    <2>3. /\ ByMainT(Tail(l)) = ByMainT(l) /\ ByMainD(Tail(l)) = ByMainD(l)
          /\ ByMainA(l, b)[l[1].id] > 0
          /\ Moved(ByMainA(l, b), ByMainA(Tail(l), b), l[1].id, ByMainA(l, b)[l[1].id] - 1)
      BY ONLY <2>1, <2>2, <1>6, PopAdapter
    <2> QED BY ONLY <2>1, <2>3
  <1>9. /\ n \in Seq(FrameRec) /\ MainShape(h, n, b) /\ n # << >> /\ n[1].do = "unregister"
        /\ ByMainD(n) = ByMainD(l) /\ ByMainA(n, b) = ByMainA(l, b)
        /\ Moved(ByMainT(l), ByMainT(n), t, ByMainT(l)[t] + 1)
    BY <1>g, <1>1, <1>2, <1>4, <1>6, PushTransport, ZenonT(40)
  <1>10. /\ Moved(ByMainD(m), ByMainD(k), d, ByMainD(m)[d] + 1)
         /\ Moved(ByMainA(k, b), ByMainA(l, b), a, ByMainA(k, b)[a] + 1)
    BY <1>7, <1>8, ByMainIs, MovedBack
  <1> HIDE DEF m
  <1>12. /\ Moved(ByMainT(m), ByMainT(n), t, ByMainT(m)[t] + 1)
         /\ Moved(ByMainD(m), ByMainD(n), d, ByMainD(m)[d] + 1)
         /\ Moved(ByMainA(m, b), ByMainA(n, b), a, ByMainA(m, b)[a] + 1)
    BY <1>7, <1>8, <1>9, <1>10
  <1> QED BY <1>9, <1>12 DEF e, f, g, m, n

\* The functions of the removal of the adapter.
LEMMA PushRemoval ==
  ASSUME NEW h, NEW b \in Nat, b # None
  PROVE  LET n == <<Frame("adapter", b), Frame("batteries", b)>>
         IN /\ n \in Seq(FrameRec) /\ MainShape(h, n, b) /\ n # << >> /\ n[1].do = "adapter"
            /\ ByMainT(n) = ByMainT(<< >>) /\ ByMainD(n) = ByMainD(<< >>)
            /\ ByMainA(n, b) = ByMainA(<< >>, b)
  <1> DEFINE e == Frame("batteries", b)
             f == Frame("adapter", b)
             n == <<f, e>>
             m == << >>
  <1>1. /\ e \in FrameRec /\ e.do = "batteries" /\ e.id = b
        /\ f \in FrameRec /\ f.do = "adapter" /\ f.id = b
    BY DEF Frame, FrameRec, Doing
  <1> HIDE DEF e, f
  <1>2. n \in Seq(FrameRec) /\ n # << >> /\ n[1] = f /\ n[2] = e /\ Len(n) = 2 BY <1>1
  <1>n. DOMAIN n = 1 .. 2 BY <1>2
  <1>o. \A dos, id : ~InMain(m, dos, id) BY DEF InMain
  <1> HIDE DEF n, m
  <1>3. MainShape(h, n, b) BY <1>1, <1>2 DEF MainShape, Shape, OnAdapter
  <1>4. \A id \in Nat : ~InMain(n, OfTransport, id) /\ ~InMain(n, OfDevice, id) /\ ~InMain(n, {"leaveAdapter"}, id)
    BY <1>1, <1>2, <1>n DEF InMain, OfTransport, OfDevice
  <1>5. OnBatteries(n) <=> OnBatteries(m) BY <1>1, <1>2 DEF OnBatteries, m
  <1>6. ByMainT(n) = ByMainT(m) /\ ByMainD(n) = ByMainD(m) /\ ByMainA(n, b) = ByMainA(m, b)
    BY <1>4, <1>5, <1>o, SameHeld
  <1> QED BY <1>1, <1>2, <1>3, <1>6 DEF n, m, e, f

----------------------------------------------------------------------------
(* What several steps do *)

LEMMA SameLifeTrans ==
  ASSUME NEW g, NEW h, NEW i, SameLife(g, h), SameLife(h, i)
  PROVE  SameLife(g, i)
  BY DEF SameLife

LEMMA SameLifeOfT ==
  ASSUME NEW h \in HeapRec, NEW t \in DOMAIN h.transport, NEW r \in TransportRec,
         r.quirk = h.transport[t].quirk, r.thread = h.transport[t].thread,
         r.freed = h.transport[t].freed, r.device = h.transport[t].device,
         r.exported => h.transport[t].exported
  PROVE  SameLife(h, SetT(h, t, r))
  BY SetTIs DEF SameLife

LEMMA ClientGoes ==
  ASSUME NEW h, NEW et \in Counts, NEW ed \in Counts, NEW ea \in Counts, Sound(h, et, ed, ea),
         NEW t \in DOMAIN h.transport, NEW by \in Who, by # NoOne
  PROVE  /\ Sound(ClientGone(h, t, by), et, ed, ea)
         /\ SameLife(h, ClientGone(h, t, by))
  <1>1. h \in HeapRec BY DEF Sound
  <1>2. CASE ~h.transport[t].client
    <2>1. ClientGone(h, t, by) = h BY <1>2 DEF ClientGone
    <2> QED BY <2>1 DEF SameLife
  <1>3. CASE h.transport[t].client
    <2> DEFINE r == [h.transport[t] EXCEPT !.client = FALSE]
               k == SetT(h, t, r)
               n == et[t] + 1
    <2>1. /\ h.transport[t] \in TransportRec /\ ThreadOk(h.transport[t])
          /\ h.transport[t].refs = Own(h.transport[t]) + One(Served(h, t)) + et[t]
          /\ Own(h.transport[t]) \in Nat /\ One(Served(h, t)) \in Nat /\ et[t] \in Nat
          /\ h.transport[t].device \in DOMAIN h.device /\ t \in Nat
      BY TransportIsHeld
    <2>2. /\ r \in TransportRec /\ r.refs = h.transport[t].refs
          /\ r.device = h.transport[t].device /\ r.freer = h.transport[t].freer
          /\ r.quirk = h.transport[t].quirk /\ r.thread = h.transport[t].thread
          /\ r.freed = h.transport[t].freed /\ r.exported = h.transport[t].exported /\ ThreadOk(r)
      BY <2>1 DEF TransportRec, ThreadOk
    <2>3. Own(h.transport[t]) = Own(r) + 1 /\ Own(r) \in Nat BY <1>3, <2>1 DEF TransportRec, Own, One
    <2>4. [h EXCEPT !.transport[t].client = FALSE] = k BY <1>1, <2>1 DEF SetT, HeapRec, TransportRec
    <2> HIDE DEF r
    <2>5. ClientGone(h, t, by) = TransportUnref(k, t, by) BY <1>3, <2>4 DEF ClientGone
    <2>6. /\ Plus(et, t) \in Counts /\ Plus(et, t)[t] > 0 /\ Moved(et, Plus(et, t), t, n)
          /\ Moved(Plus(et, t), et, t, Plus(et, t)[t] - 1)
      BY <2>1, PlusIs
    <2>7. n \in Nat /\ r.refs = Own(r) + One(Served(h, t)) + n BY <2>1, <2>2, <2>3
    <2>8. (r.refs > 0 <=> h.transport[t].refs > 0) /\ (r.freer # NoOne <=> h.transport[t].freer # NoOne)
      BY <2>2
    <2> HIDE DEF n
    <2>9. Sound(k, Plus(et, t), ed, ea) BY <2>2, <2>6, <2>7, <2>8, EditTransport
    <2>10. SameLife(h, k) BY <1>1, <2>2, SameLifeOfT
    <2>11. t \in DOMAIN k.transport BY <1>1, <2>2, SetTIs
    <2> HIDE DEF k
    <2>12. Sound(TransportUnref(k, t, by), et, ed, ea) /\ SameLife(k, TransportUnref(k, t, by))
      BY <2>6, <2>9, <2>11, UnrefTransport
    <2> QED BY <2>5, <2>10, <2>12, SameLifeTrans
  <1> QED BY <1>2, <1>3

LEMMA Releases ==
  ASSUME NEW h, NEW et \in Counts, NEW ed \in Counts, NEW ea \in Counts, Sound(h, et, ed, ea),
         NEW t \in DOMAIN h.transport, NEW by \in Who, by # NoOne, NEW fs \in Counts,
         et[t] > 0, Moved(et, fs, t, et[t] - 1)
  PROVE  /\ Sound(Released(h, t, by), fs, ed, ea)
         /\ SameLife(h, Released(h, t, by))
  <1> DEFINE k == ClientGone(h, t, by)
  <1>1. Sound(k, et, ed, ea) /\ SameLife(h, k) BY ClientGoes
  <1>2. Released(h, t, by) = TransportUnref(k, t, by) BY DEF Released
  <1> HIDE DEF k
  <1>3. t \in DOMAIN k.transport BY <1>1 DEF SameLife
  <1>4. Sound(TransportUnref(k, t, by), fs, ed, ea) /\ SameLife(k, TransportUnref(k, t, by))
    BY <1>1, <1>3, UnrefTransport
  <1> QED BY <1>1, <1>2, <1>4, SameLifeTrans

\* A transport whose edit is sound once it is no longer exported.
LEMMA Unregisters ==
  ASSUME NEW h, NEW et \in Counts, NEW ed \in Counts, NEW ea \in Counts, Sound(h, et, ed, ea),
         NEW t \in DOMAIN h.transport, NEW by \in Who, by # NoOne, NEW r \in TransportRec,
         NEW fs \in Counts, NEW n \in Nat,
         r.device = h.transport[t].device, ThreadOk([r EXCEPT !.exported = FALSE]),
         r.refs > 0 <=> h.transport[t].refs > 0,
         r.freer # NoOne <=> h.transport[t].freer # NoOne,
         r.refs = Own(r) + One(Served(h, t)) + n, Moved(et, fs, t, n)
  PROVE  /\ Sound(Unregistered(SetT(h, t, r), t, by), fs, ed, ea)
         /\ SameLife(SetT(h, t, r), Unregistered(SetT(h, t, r), t, by))
         /\ ~Unregistered(SetT(h, t, r), t, by).transport[t].exported
  <1> DEFINE z == [r EXCEPT !.exported = FALSE]
             k == SetT(h, t, r)
             l == SetT(h, t, z)
  <1>1. h \in HeapRec BY DEF Sound
  <1>2. /\ z \in TransportRec /\ z.refs = r.refs /\ z.device = r.device /\ z.freer = r.freer
        /\ z.quirk = r.quirk /\ z.thread = r.thread /\ z.freed = r.freed
        /\ z.exported = FALSE /\ z.calls = r.calls /\ z.client = r.client /\ z.sco = r.sco
        /\ r.calls \in Nat /\ r.refs \in Nat
    BY DEF TransportRec
  <1>3. k \in HeapRec /\ k.transport[t] = r /\ t \in DOMAIN k.transport BY <1>1, SetTIs
  <1>4. [k EXCEPT !.transport[t].exported = FALSE] = l BY <1>1 DEF SetT, HeapRec, TransportRec
  <1>5. Unregistered(k, t, by) = IF r.exported /\ r.calls = 0 THEN TransportUnref(l, t, by) ELSE l
    BY <1>3, <1>4 DEF Unregistered
  <1>t. t \in Nat BY <1>1, HeapIs
  <1>z. ThreadOk(z) OBVIOUS
  <1>w. Own(r) = Own(z) + (IF r.exported /\ r.calls = 0 THEN 1 ELSE 0) /\ Own(z) \in Nat
    BY <1>2 DEF Own, One
  <1>o. One(Served(h, t)) \in Nat BY DEF One
  <1>6. SameLife(k, l)
    <2> HIDE DEF z
    <2>1. /\ DOMAIN k.transport = DOMAIN h.transport /\ k.device = h.device /\ k.adapter = h.adapter
          /\ \A u \in DOMAIN h.transport : k.transport[u] = IF u = t THEN r ELSE h.transport[u]
      BY <1>1, SetTIs
    <2>2. /\ DOMAIN l.transport = DOMAIN h.transport /\ l.device = h.device /\ l.adapter = h.adapter
          /\ \A u \in DOMAIN h.transport : l.transport[u] = IF u = t THEN z ELSE h.transport[u]
      BY <1>1, <1>2, SetTIs
    <2> HIDE DEF k, l
    <2> QED BY <1>2, <2>1, <2>2 DEF SameLife
  <1>x. ~l.transport[t].exported
    <2> HIDE DEF z
    <2>1. l.transport[t] = z BY <1>1, <1>2, SetTIs
    <2> HIDE DEF l
    <2> QED BY <1>2, <2>1
  <1> HIDE DEF z, k, l
  <1>l. t \in DOMAIN l.transport BY <1>3, <1>6 DEF SameLife
  <1>7. CASE r.exported /\ r.calls = 0
    <2> DEFINE m == n + 1
    <2>1. Own(r) = Own(z) + 1 BY <1>w, <1>7
    <2>2. m \in Nat /\ z.refs = Own(z) + One(Served(h, t)) + m BY <2>1, <1>2, <1>w, <1>o
    <2>3. fs[t] = n BY <1>t DEF Moved
    <2>4. /\ Plus(fs, t) \in Counts /\ Plus(fs, t)[t] > 0 /\ Moved(fs, Plus(fs, t), t, fs[t] + 1)
          /\ Moved(Plus(fs, t), fs, t, Plus(fs, t)[t] - 1)
      BY <1>t, PlusIs
    <2>5. Moved(et, Plus(fs, t), t, m) BY <2>3, <2>4 DEF Moved
    <2> HIDE DEF m
    <2>6. /\ z.device = h.transport[t].device /\ (z.refs > 0 <=> h.transport[t].refs > 0)
          /\ (z.freer # NoOne <=> h.transport[t].freer # NoOne)
      BY <1>2
    <2>7. Sound(l, Plus(fs, t), ed, ea) BY <1>2, <1>z, <2>2, <2>4, <2>5, <2>6, EditTransport DEF l
    <2>8. Sound(TransportUnref(l, t, by), fs, ed, ea) /\ SameLife(l, TransportUnref(l, t, by))
      BY <1>l, <2>4, <2>7, UnrefTransport
    <2>9. Unregistered(k, t, by) = TransportUnref(l, t, by) BY <1>5, <1>7
    <2>10. ~TransportUnref(l, t, by).transport[t].exported BY <1>l, <1>x, <2>8 DEF SameLife
    <2> QED BY <1>6, <2>8, <2>9, <2>10, SameLifeTrans DEF k
  <1>8. CASE ~(r.exported /\ r.calls = 0)
    <2>1. Own(r) = Own(z) BY <1>w, <1>8
    <2>2. z.refs = Own(z) + One(Served(h, t)) + n BY <2>1, <1>2
    <2>6. /\ z.device = h.transport[t].device /\ (z.refs > 0 <=> h.transport[t].refs > 0)
          /\ (z.freer # NoOne <=> h.transport[t].freer # NoOne)
      BY <1>2
    <2>7. Sound(l, fs, ed, ea) BY <1>2, <1>z, <2>2, <2>6, EditTransport DEF l
    <2>9. Unregistered(k, t, by) = l BY <1>5, <1>8
    <2> QED BY <1>6, <1>x, <2>7, <2>9 DEF k
  <1> QED BY <1>7, <1>8

LEMMA SetSame ==
  ASSUME NEW h \in HeapRec, NEW t \in DOMAIN h.transport
  PROVE  SetT(h, t, h.transport[t]) = h
  BY DEF SetT, HeapRec

LEMMA BatteryGoes ==
  ASSUME NEW h, NEW et \in Counts, NEW ed \in Counts, NEW ea \in Counts, Sound(h, et, ed, ea),
         NEW d \in DOMAIN h.device, NEW by \in Who
  PROVE  /\ Sound(BatteryGone(h, d, by), et, ed, ea)
         /\ SameLife(h, BatteryGone(h, d, by))
  <1>1. h \in HeapRec BY DEF Sound
  <1>2. CASE ~h.device[d].battery
    <2>1. BatteryGone(h, d, by) = h BY <1>2 DEF BatteryGone
    <2> QED BY <2>1 DEF SameLife
  <1>3. CASE h.device[d].battery
    <2> DEFINE q == [h.device[d] EXCEPT !.battery = FALSE]
               k == SetD(h, d, q)
               n == ed[d] + 1
    <2>1. /\ h.device[d] \in DeviceRec /\ d \in Nat /\ h.device[d].adapter \in DOMAIN h.adapter
          /\ h.device[d].refs = Cardinality(TransportsOf(h, d)) + One(h.device[d].battery)
                                 + One(Looked(h, d)) + ed[d]
          /\ Cardinality(TransportsOf(h, d)) \in Nat /\ One(h.device[d].battery) \in Nat
          /\ One(Looked(h, d)) \in Nat /\ ed[d] \in Nat
      BY DeviceIsHeld
    <2>2. /\ q \in DeviceRec /\ q.refs = h.device[d].refs /\ q.adapter = h.device[d].adapter
          /\ q.addr = h.device[d].addr /\ q.transport = h.device[d].transport /\ q.battery = FALSE
      BY <2>1 DEF DeviceRec
    <2>4. [h EXCEPT !.device[d].battery = FALSE] = k BY <1>1, <2>1 DEF SetD, HeapRec, DeviceRec
    <2> HIDE DEF q
    <2>5. BatteryGone(h, d, by) = DeviceUnref(k, d, by) BY <1>3, <2>4 DEF BatteryGone
    <2>6. /\ Plus(ed, d) \in Counts /\ Plus(ed, d)[d] > 0 /\ Moved(ed, Plus(ed, d), d, n)
          /\ Moved(Plus(ed, d), ed, d, Plus(ed, d)[d] - 1)
      BY <2>1, PlusIs
    <2>7. n \in Nat /\ q.refs = Cardinality(TransportsOf(h, d)) + One(q.battery) + One(Looked(h, d)) + n
      <3>1. One(h.device[d].battery) = 1 /\ One(q.battery) = 0 BY <1>3, <2>2 DEF One
      <3> QED BY <3>1, <2>1, <2>2
    <2>8. /\ q.refs > 0 <=> h.device[d].refs > 0
          /\ q.transport \in {None, h.device[d].transport}
      BY <2>2
    <2> HIDE DEF n
    <2>9. Sound(k, et, Plus(ed, d), ea) BY <2>2, <2>6, <2>7, <2>8, EditDevice
    <2>10. SameLife(h, k) BY <1>1, <2>2, SetDIs DEF SameLife
    <2>11. d \in DOMAIN k.device BY <1>1, <2>2, SetDIs
    <2> HIDE DEF k
    <2>12. Sound(DeviceUnref(k, d, by), et, ed, ea) /\ SameLife(k, DeviceUnref(k, d, by))
      BY <2>6, <2>9, <2>11, UnrefDevice
    <2> QED BY <2>5, <2>10, <2>12, SameLifeTrans
  <1> QED BY <1>2, <1>3

LEMMA EditInPlace ==
  ASSUME NEW h, NEW et \in Counts, NEW ed \in Counts, NEW ea \in Counts, Sound(h, et, ed, ea),
         NEW t \in DOMAIN h.transport, NEW r \in TransportRec,
         r.device = h.transport[t].device, ThreadOk(r),
         r.refs > 0 <=> h.transport[t].refs > 0,
         r.freer # NoOne <=> h.transport[t].freer # NoOne,
         r.refs + Own(h.transport[t]) = h.transport[t].refs + Own(r)
  PROVE  Sound(SetT(h, t, r), et, ed, ea)
  <1>1. /\ h.transport[t].refs = Own(h.transport[t]) + One(Served(h, t)) + et[t]
        /\ Own(h.transport[t]) \in Nat /\ One(Served(h, t)) \in Nat /\ et[t] \in Nat /\ t \in Nat
    BY TransportIsHeld
  <1>2. Own(r) \in Nat /\ r.refs \in Nat BY DEF Own, One, TransportRec
  <1>3. r.refs = Own(r) + One(Served(h, t)) + et[t] BY <1>1, <1>2
  <1>4. Moved(et, et, t, et[t]) BY DEF Moved
  <1> QED BY <1>1, <1>3, <1>4, EditTransport

\* What the transport itself held is given back.
LEMMA EditAndUnref ==
  ASSUME NEW h, NEW et \in Counts, NEW ed \in Counts, NEW ea \in Counts, Sound(h, et, ed, ea),
         NEW t \in DOMAIN h.transport, NEW r \in TransportRec, NEW by \in Who, by # NoOne,
         r.device = h.transport[t].device, ThreadOk(r),
         r.refs > 0 <=> h.transport[t].refs > 0,
         r.freer # NoOne <=> h.transport[t].freer # NoOne,
         r.refs + Own(h.transport[t]) = h.transport[t].refs + Own(r) + 1
  PROVE  /\ Sound(SetT(h, t, r), Plus(et, t), ed, ea)
         /\ Plus(et, t) \in Counts /\ Plus(et, t)[t] > 0 /\ Moved(Plus(et, t), et, t, Plus(et, t)[t] - 1)
         /\ t \in DOMAIN SetT(h, t, r).transport
         /\ Sound(TransportUnref(SetT(h, t, r), t, by), et, ed, ea)
         /\ SameLife(SetT(h, t, r), TransportUnref(SetT(h, t, r), t, by))
  <1> DEFINE n == et[t] + 1
             k == SetT(h, t, r)
  <1>1. /\ h.transport[t].refs = Own(h.transport[t]) + One(Served(h, t)) + et[t]
        /\ Own(h.transport[t]) \in Nat /\ One(Served(h, t)) \in Nat /\ et[t] \in Nat /\ t \in Nat
    BY TransportIsHeld
  <1>2. Own(r) \in Nat /\ r.refs \in Nat BY DEF Own, One, TransportRec
  <1>3. n \in Nat /\ r.refs = Own(r) + One(Served(h, t)) + n BY <1>1, <1>2
  <1>4. /\ Plus(et, t) \in Counts /\ Plus(et, t)[t] > 0 /\ Moved(et, Plus(et, t), t, n)
        /\ Moved(Plus(et, t), et, t, Plus(et, t)[t] - 1)
    BY <1>1, PlusIs
  <1>5. t \in DOMAIN k.transport
    <2>1. h \in HeapRec BY DEF Sound
    <2> QED BY <2>1, SetTIs
  <1> HIDE DEF n
  <1>6. Sound(k, Plus(et, t), ed, ea) BY <1>3, <1>4, EditTransport
  <1> HIDE DEF k
  <1>7. Sound(TransportUnref(k, t, by), et, ed, ea) /\ SameLife(k, TransportUnref(k, t, by))
    BY <1>4, <1>5, <1>6, UnrefTransport
  <1> QED BY <1>4, <1>5, <1>6, <1>7 DEF k

----------------------------------------------------------------------------
(* The steps that leave main where it is *)

Links(h, g, t) ==
  /\ DOMAIN g.transport = DOMAIN h.transport
  /\ DOMAIN g.device = DOMAIN h.device /\ DOMAIN g.adapter = DOMAIN h.adapter
  /\ \A u \in DOMAIN h.transport \ {t} :
       /\ g.transport[u].quirk = h.transport[u].quirk /\ g.transport[u].thread = h.transport[u].thread
       /\ g.transport[u].freed = h.transport[u].freed
  /\ \A d \in DOMAIN h.device : g.device[d].battery => h.device[d].battery \/ bluez # None

LinkOk(h, t, over) ==
  /\ ~h.transport[t].quirk
  /\ t \notin over => h.transport[t].thread \in {"run", "lost", "ended"} /\ ~h.transport[t].freed

LEMMA InvIs ==
  ASSUME Inv, ~heap.stale
  PROVE  /\ main \in Seq(FrameRec) /\ heap \in HeapRec
         /\ Sound(heap, ByMainT(main), ByMainD(main), ByMainA(main, bluez))
         /\ MainShape(heap, main, bluez) /\ Joined /\ Bluez
         /\ ByMainT(main) \in Counts /\ ByMainD(main) \in Counts /\ ByMainA(main, bluez) \in Counts
  <1>1. Sound(heap, ByMainT(main), ByMainD(main), ByMainA(main, bluez)) BY DEF Inv
  <1>2. heap \in HeapRec BY <1>1 DEF Sound
  <1> QED BY <1>1, <1>2, ByMainIs DEF Inv

LEMMA ShapeStays ==
  ASSUME NEW h, NEW g, NEW m, NEW b, MainShape(h, m, b), DOMAIN g.transport = DOMAIN h.transport,
         DOMAIN g.device = DOMAIN h.device, DOMAIN g.adapter = DOMAIN h.adapter
  PROVE  MainShape(g, m, b)
  <1>1. \A n : Shape(h, n, b) => Shape(g, n, b) BY DEF Shape, OnDevice
  <1>2. OnTransport(h, m) => OnTransport(g, m) BY DEF OnTransport
  <1> QED BY <1>1, <1>2 DEF MainShape

LEMMA StaysBut ==
  ASSUME Inv, ~heap.stale, main' = main, bluez' = bluez, crossed' = crossed,
         NEW t, Links(heap, heap', t),
         Sound(heap', ByMainT(main), ByMainD(main), ByMainA(main, bluez)),
         main # << >> /\ main[1].do = "join" /\ main[1].id = t => LinkOk(heap', t, crossed)
  PROVE  Inv'
  <1>1. /\ main \in Seq(FrameRec) /\ MainShape(heap, main, bluez) /\ Joined /\ Bluez
    BY InvIs
  <1>2. MainShape(heap', main, bluez) BY <1>1, ShapeStays DEF Links
  <1>3. ASSUME main # << >>, main[1].do = "join" PROVE LinkOk(heap', main[1].id, crossed)
    <2>1. LinkOk(heap, main[1].id, crossed) BY <1>1, <1>3 DEF Joined, LinkOk
    <2>2. CASE main[1].id = t BY <2>2, <1>3
    <2>3. CASE main[1].id # t
      <3>1. main[1].id \in DOMAIN heap.transport
        <4>1. ~Shape(heap, main, bluez) BY <1>1, <1>3, ShapeIs
        <4> QED BY <4>1, <1>1 DEF MainShape, OnTransport
      <3> QED BY <3>1, <2>1, <2>3 DEF Links, LinkOk
    <2> QED BY <2>2, <2>3
  <1>4. Joined' BY <1>3 DEF Joined, LinkOk
  <1>5. Bluez' BY <1>1 DEF Bluez, Links
  <1>6. ~heap'.stale BY DEF Sound
  <1> QED BY <1>1, <1>2, <1>4, <1>5, <1>6 DEF Inv

LEMMA Stays ==
  ASSUME Inv, ~heap.stale, main' = main, bluez' = bluez, crossed' = crossed,
         SameLife(heap, heap'),
         Sound(heap', ByMainT(main), ByMainD(main), ByMainA(main, bluez))
  PROVE  Inv'
  <1>1. Links(heap, heap', main[1].id) BY DEF SameLife, Links
  <1>2. /\ main \in Seq(FrameRec) /\ MainShape(heap, main, bluez) /\ Joined
    BY InvIs
  <1>3. ASSUME main # << >>, main[1].do = "join" PROVE LinkOk(heap', main[1].id, crossed)
    <2>1. main[1].id \in DOMAIN heap.transport
      <3>1. ~Shape(heap, main, bluez) BY <1>2, <1>3, ShapeIs
      <3> QED BY <3>1, <1>2 DEF MainShape, OnTransport
    <2>2. LinkOk(heap, main[1].id, crossed) BY <1>2, <1>3 DEF Joined, LinkOk
    <2> QED BY <2>1, <2>2 DEF SameLife, LinkOk
  <1> QED BY <1>1, <1>3, StaysBut

LEMMA LinkStays ==
  ASSUME NEW h, NEW g, NEW i, NEW t, Links(h, g, t), SameLife(g, i)
  PROVE  Links(h, i, t)
  BY DEF SameLife, Links

LEMMA LinkOfT ==
  ASSUME NEW h \in HeapRec, NEW t \in DOMAIN h.transport, NEW r \in TransportRec
  PROVE  /\ Links(h, SetT(h, t, r), t) /\ SetT(h, t, r).transport[t] = r
         /\ t \in DOMAIN SetT(h, t, r).transport
  BY SetTIs DEF Links

LEMMA WhoIs ==
  /\ Main \in Who /\ Main # NoOne /\ Worker \in Who /\ Worker # NoOne
  /\ \A i \in Nat : /\ Thread(i) \in Who /\ Thread(i) # NoOne
                    /\ Dispatcher(i) \in Who /\ Dispatcher(i) # NoOne
  BY DEF Main, Worker, Thread, Dispatcher, NoOne, Who

\* The record of a transport in the heap.
LEMMA TransportIs ==
  ASSUME Inv, ~heap.stale, NEW t \in Transports
  PROVE  /\ heap \in HeapRec /\ t \in DOMAIN heap.transport /\ t \in Nat
         /\ heap.transport[t] \in TransportRec /\ ThreadOk(heap.transport[t])
         /\ heap.transport[t].device \in DOMAIN heap.device
         /\ Own(heap.transport[t]) > 0 => heap.transport[t].refs > 0
  <1>1. /\ heap \in HeapRec /\ Sound(heap, ByMainT(main), ByMainD(main), ByMainA(main, bluez))
        /\ ByMainT(main) \in Counts /\ ByMainD(main) \in Counts /\ ByMainA(main, bluez) \in Counts
    BY InvIs
  <1>2. t \in DOMAIN heap.transport BY DEF Transports
  <1>3. /\ heap.transport[t] \in TransportRec /\ ThreadOk(heap.transport[t]) /\ t \in Nat
        /\ heap.transport[t].device \in DOMAIN heap.device
        /\ heap.transport[t].refs = Own(heap.transport[t]) + One(Served(heap, t)) + ByMainT(main)[t]
        /\ Own(heap.transport[t]) \in Nat /\ One(Served(heap, t)) \in Nat /\ ByMainT(main)[t] \in Nat
    BY <1>1, <1>2, TransportIsHeld
  <1> QED BY <1>1, <1>2, <1>3

\* A step that edits one transport, its thread and what it counts.
LEMMA StepInPlace ==
  ASSUME Inv, ~heap.stale, NEW t \in Transports, NEW r \in TransportRec,
         main' = main, bluez' = bluez, crossed' = crossed, heap' = SetT(heap, t, r),
         r.device = heap.transport[t].device, ThreadOk(r),
         r.refs > 0 <=> heap.transport[t].refs > 0,
         r.freer # NoOne <=> heap.transport[t].freer # NoOne,
         r.refs + Own(heap.transport[t]) = heap.transport[t].refs + Own(r),
         LinkOk(heap, t, crossed) => ~r.quirk /\ (t \notin crossed => r.thread \in {"run", "lost", "ended"} /\ ~r.freed)
  PROVE  Inv'
  <1>1. /\ heap \in HeapRec /\ Sound(heap, ByMainT(main), ByMainD(main), ByMainA(main, bluez))
        /\ ByMainT(main) \in Counts /\ ByMainD(main) \in Counts /\ ByMainA(main, bluez) \in Counts
        /\ Joined
    BY InvIs
  <1>2. t \in DOMAIN heap.transport BY DEF Transports
  <1>3. Sound(heap', ByMainT(main), ByMainD(main), ByMainA(main, bluez))
    BY <1>1, <1>2, EditInPlace
  <1>4. Links(heap, heap', t) /\ heap'.transport[t] = r BY <1>1, <1>2, LinkOfT
  <1>5. main # << >> /\ main[1].do = "join" /\ main[1].id = t => LinkOk(heap', t, crossed)
    BY <1>1, <1>4 DEF Joined, LinkOk
  <1> QED BY <1>3, <1>4, <1>5, StaysBut

\* A step that edits one transport and gives back what it held.
LEMMA StepAndUnref ==
  ASSUME Inv, ~heap.stale, NEW t \in Transports, NEW r \in TransportRec, NEW by \in Who, by # NoOne,
         main' = main, bluez' = bluez, crossed' = crossed, heap' = TransportUnref(SetT(heap, t, r), t, by),
         r.device = heap.transport[t].device, ThreadOk(r),
         r.refs > 0 <=> heap.transport[t].refs > 0,
         r.freer # NoOne <=> heap.transport[t].freer # NoOne,
         r.refs + Own(heap.transport[t]) = heap.transport[t].refs + Own(r) + 1,
         LinkOk(heap, t, crossed) => ~r.quirk /\ (t \notin crossed => r.thread \in {"run", "lost", "ended"} /\ ~r.freed)
  PROVE  Inv'
  <1>1. /\ heap \in HeapRec /\ Sound(heap, ByMainT(main), ByMainD(main), ByMainA(main, bluez))
        /\ ByMainT(main) \in Counts /\ ByMainD(main) \in Counts /\ ByMainA(main, bluez) \in Counts
        /\ Joined
    BY InvIs
  <1>2. t \in DOMAIN heap.transport BY DEF Transports
  <1>3. /\ Sound(heap', ByMainT(main), ByMainD(main), ByMainA(main, bluez))
        /\ SameLife(SetT(heap, t, r), heap')
    BY <1>1, <1>2, EditAndUnref
  <1>4. /\ Links(heap, SetT(heap, t, r), t) /\ SetT(heap, t, r).transport[t] = r
        /\ t \in DOMAIN SetT(heap, t, r).transport
    BY <1>1, <1>2, LinkOfT
  <1>5. Links(heap, heap', t) BY <1>3, <1>4, LinkStays
  <1>6. heap'.transport[t].quirk = r.quirk /\ heap'.transport[t].thread = r.thread
        /\ heap'.transport[t].freed = r.freed
    BY <1>3, <1>4 DEF SameLife
  <1>7. main # << >> /\ main[1].do = "join" /\ main[1].id = t => LinkOk(heap', t, crossed)
    BY <1>1, <1>6 DEF Joined, LinkOk
  <1> QED BY <1>3, <1>5, <1>7, StaysBut

LEMMA LinkLostKeeps ==
  ASSUME Inv, NEW t \in Transports, LinkLost(t)
  PROVE  Inv'
  <1> DEFINE r == [heap.transport[t] EXCEPT !.hup = TRUE]
  <1>1. /\ ~heap.stale /\ main' = main /\ bluez' = bluez /\ crossed' = crossed
        /\ heap' = [heap EXCEPT !.transport[t].hup = TRUE]
    BY DEF LinkLost, ThreadGoes, Runs
  <1>2. /\ heap \in HeapRec /\ t \in DOMAIN heap.transport /\ heap.transport[t] \in TransportRec
        /\ ThreadOk(heap.transport[t])
    BY <1>1, TransportIs
  <1>3. heap' = SetT(heap, t, r) BY <1>1, <1>2 DEF SetT, HeapRec, TransportRec
  <1>4. /\ r \in TransportRec /\ r.device = heap.transport[t].device /\ r.refs = heap.transport[t].refs
        /\ r.freer = heap.transport[t].freer /\ r.quirk = heap.transport[t].quirk
        /\ r.thread = heap.transport[t].thread /\ r.freed = heap.transport[t].freed
    BY <1>2 DEF TransportRec
  <1>5. ThreadOk(r) /\ Own(r) = Own(heap.transport[t]) BY <1>2 DEF TransportRec, ThreadOk, Own
  <1> HIDE DEF r
  <1>6. r.refs + Own(heap.transport[t]) = heap.transport[t].refs + Own(r) BY <1>4, <1>5
  <1>7. LinkOk(heap, t, crossed) => ~r.quirk /\ (t \notin crossed => r.thread \in {"run", "lost", "ended"} /\ ~r.freed)
    BY <1>4 DEF LinkOk
  <1> QED BY <1>1, <1>3, <1>4, <1>5, <1>6, <1>7, StepInPlace

LEMMA SetVolumeKeeps ==
  ASSUME Inv, NEW t \in Transports, NEW v \in Levels, SetVolume(t, v)
  PROVE  Inv'
  <1> DEFINE r == [heap.transport[t] EXCEPT !.volume = v]
  <1>1. /\ ~heap.stale /\ main' = main /\ bluez' = bluez /\ crossed' = crossed
        /\ heap' = [heap EXCEPT !.transport[t].volume = v]
    BY DEF SetVolume, Idle, Runs
  <1>2. /\ heap \in HeapRec /\ t \in DOMAIN heap.transport /\ heap.transport[t] \in TransportRec
        /\ ThreadOk(heap.transport[t])
    BY <1>1, TransportIs
  <1>v. v \in Nat BY DEF Levels, Default
  <1>3. heap' = SetT(heap, t, r) BY <1>1, <1>2 DEF SetT, HeapRec, TransportRec
  <1>4. /\ r \in TransportRec /\ r.device = heap.transport[t].device /\ r.refs = heap.transport[t].refs
        /\ r.freer = heap.transport[t].freer /\ r.quirk = heap.transport[t].quirk
        /\ r.thread = heap.transport[t].thread /\ r.freed = heap.transport[t].freed
    BY <1>2, <1>v DEF TransportRec
  <1>5. ThreadOk(r) /\ Own(r) = Own(heap.transport[t]) BY <1>2 DEF TransportRec, ThreadOk, Own
  <1> HIDE DEF r
  <1>6. r.refs + Own(heap.transport[t]) = heap.transport[t].refs + Own(r) BY <1>4, <1>5
  <1>7. LinkOk(heap, t, crossed) => ~r.quirk /\ (t \notin crossed => r.thread \in {"run", "lost", "ended"} /\ ~r.freed)
    BY <1>4 DEF LinkOk
  <1> QED BY <1>1, <1>3, <1>4, <1>5, <1>6, <1>7, StepInPlace

LEMMA CallBeginKeeps ==
  ASSUME Inv, NEW t \in Transports, CallBegin(t)
  PROVE  Inv'
  <1> DEFINE r == [heap.transport[t] EXCEPT !.calls = 1]
  <1>1. /\ ~heap.stale /\ main' = main /\ bluez' = bluez /\ crossed' = crossed
        /\ heap' = [heap EXCEPT !.transport[t].calls = 1] /\ heap.transport[t].exported
    BY DEF CallBegin, Runs
  <1>2. /\ heap \in HeapRec /\ t \in DOMAIN heap.transport /\ heap.transport[t] \in TransportRec
        /\ ThreadOk(heap.transport[t])
    BY <1>1, TransportIs
  <1>3. heap' = SetT(heap, t, r) BY <1>1, <1>2 DEF SetT, HeapRec, TransportRec
  <1>4. /\ r \in TransportRec /\ r.device = heap.transport[t].device /\ r.refs = heap.transport[t].refs
        /\ r.freer = heap.transport[t].freer /\ r.quirk = heap.transport[t].quirk
        /\ r.thread = heap.transport[t].thread /\ r.freed = heap.transport[t].freed
    BY <1>2 DEF TransportRec
  <1>5. ThreadOk(r) /\ Own(r) = Own(heap.transport[t]) BY <1>1, <1>2 DEF TransportRec, ThreadOk, Own
  <1> HIDE DEF r
  <1>6. r.refs + Own(heap.transport[t]) = heap.transport[t].refs + Own(r) BY <1>4, <1>5
  <1>7. LinkOk(heap, t, crossed) => ~r.quirk /\ (t \notin crossed => r.thread \in {"run", "lost", "ended"} /\ ~r.freed)
    BY <1>4 DEF LinkOk
  <1> QED BY <1>1, <1>3, <1>4, <1>5, <1>6, <1>7, StepInPlace

LEMMA CallOpensKeeps ==
  ASSUME Inv, NEW t \in Transports, CallOpens(t)
  PROVE  Inv'
  <1> DEFINE r == [heap.transport[t] EXCEPT !.client = TRUE, !.refs = @ + 1]
  <1>1. /\ ~heap.stale /\ main' = main /\ bluez' = bluez /\ crossed' = crossed
        /\ heap' = [heap EXCEPT !.transport[t].client = TRUE, !.transport[t].refs = @ + 1]
        /\ heap.transport[t].exported /\ ~heap.transport[t].client
    BY DEF CallOpens, InCall, Runs
  <1>2. /\ heap \in HeapRec /\ t \in DOMAIN heap.transport /\ heap.transport[t] \in TransportRec
        /\ ThreadOk(heap.transport[t])
        /\ Own(heap.transport[t]) > 0 => heap.transport[t].refs > 0
    BY <1>1, TransportIs
  <1>r. heap.transport[t].refs > 0 BY <1>1, <1>2 DEF Own, One
  <1>3. heap' = SetT(heap, t, r) BY <1>1, <1>2 DEF SetT, HeapRec, TransportRec
  <1>f. heap.transport[t].refs \in Nat /\ heap.transport[t].refs + 1 \in Nat BY <1>2 DEF TransportRec
  <1>4. /\ r \in TransportRec /\ r.device = heap.transport[t].device /\ r.refs = heap.transport[t].refs + 1
        /\ r.freer = heap.transport[t].freer /\ r.quirk = heap.transport[t].quirk
        /\ r.thread = heap.transport[t].thread /\ r.freed = heap.transport[t].freed
    BY <1>2, <1>f DEF TransportRec
  <1>5. ThreadOk(r) BY <1>2, <1>r DEF TransportRec, ThreadOk
  <1>6. Own(r) = Own(heap.transport[t]) + 1 /\ Own(heap.transport[t]) \in Nat
    BY <1>1, <1>2 DEF TransportRec, Own, One
  <1> HIDE DEF r
  <1>7. r.refs + Own(heap.transport[t]) = heap.transport[t].refs + Own(r)
        /\ (r.refs > 0 <=> heap.transport[t].refs > 0)
    BY <1>4, <1>6, <1>f, <1>r
  <1>8. LinkOk(heap, t, crossed) => ~r.quirk /\ (t \notin crossed => r.thread \in {"run", "lost", "ended"} /\ ~r.freed)
    BY <1>4 DEF LinkOk
  <1> QED BY <1>1, <1>3, <1>4, <1>5, <1>7, <1>8, StepInPlace

LEMMA CallEndsKeeps ==
  ASSUME Inv, NEW t \in Transports, CallEnds(t)
  PROVE  Inv'
  <1> DEFINE r == [heap.transport[t] EXCEPT !.calls = 0]
             k == [heap EXCEPT !.transport[t].calls = 0]
  <1>1. /\ ~heap.stale /\ main' = main /\ bluez' = bluez /\ crossed' = crossed
        /\ heap' = IF k.transport[t].exported THEN k ELSE TransportUnref(k, t, Worker)
        /\ heap.transport[t].calls > 0
    BY DEF CallEnds, InCall, Runs
  <1>2. /\ heap \in HeapRec /\ t \in DOMAIN heap.transport /\ heap.transport[t] \in TransportRec
        /\ ThreadOk(heap.transport[t])
    BY <1>1, TransportIs
  <1>3. k = SetT(heap, t, r) BY <1>2 DEF SetT, HeapRec, TransportRec
  <1>4. /\ r \in TransportRec /\ r.device = heap.transport[t].device /\ r.refs = heap.transport[t].refs
        /\ r.freer = heap.transport[t].freer /\ r.quirk = heap.transport[t].quirk
        /\ r.thread = heap.transport[t].thread /\ r.freed = heap.transport[t].freed
        /\ r.exported = heap.transport[t].exported
    BY <1>2 DEF TransportRec
  <1>f. heap.transport[t].refs \in Nat BY <1>2 DEF TransportRec
  <1>5. ThreadOk(r) BY <1>2 DEF TransportRec, ThreadOk
  <1>6. Own(heap.transport[t]) = Own(r) + (IF r.exported THEN 0 ELSE 1) /\ Own(r) \in Nat
    BY <1>1, <1>2 DEF TransportRec, Own, One
  <1>7. k.transport[t] = r BY <1>2, <1>3, <1>4, SetTIs
  <1>8. LinkOk(heap, t, crossed) => ~r.quirk /\ (t \notin crossed => r.thread \in {"run", "lost", "ended"} /\ ~r.freed)
    BY <1>4 DEF LinkOk
  <1> HIDE DEF r, k
  <1>9. CASE r.exported
    <2>1. heap' = SetT(heap, t, r) BY <1>1, <1>3, <1>7, <1>9
    <2>2. r.refs + Own(heap.transport[t]) = heap.transport[t].refs + Own(r) BY <1>4, <1>6, <1>9, <1>f
    <2> QED BY <2>1, <2>2, <1>1, <1>4, <1>5, <1>8, StepInPlace
  <1>10. CASE ~r.exported
    <2>1. heap' = TransportUnref(SetT(heap, t, r), t, Worker) BY <1>1, <1>3, <1>7, <1>10
    <2>2. r.refs + Own(heap.transport[t]) = heap.transport[t].refs + Own(r) + 1 BY <1>4, <1>6, <1>10, <1>f
    <2> QED BY <2>1, <2>2, <1>1, <1>4, <1>5, <1>8, WhoIs, StepAndUnref
  <1> QED BY <1>9, <1>10

LEMMA ClientClosesKeeps ==
  ASSUME Inv, NEW t \in Transports, ClientCloses(t)
  PROVE  Inv'
  <1>1. /\ ~heap.stale /\ main' = main /\ bluez' = bluez /\ crossed' = crossed
        /\ heap' = ClientGone(heap, t, Main)
    BY DEF ClientCloses, Idle, Runs
  <1>2. /\ Sound(heap, ByMainT(main), ByMainD(main), ByMainA(main, bluez))
        /\ ByMainT(main) \in Counts /\ ByMainD(main) \in Counts /\ ByMainA(main, bluez) \in Counts
    BY <1>1, InvIs
  <1>3. /\ Sound(heap', ByMainT(main), ByMainD(main), ByMainA(main, bluez)) /\ SameLife(heap, heap')
    BY <1>1, <1>2, WhoIs, ClientGoes DEF Transports
  <1> QED BY <1>1, <1>3, Stays

LEMMA DeviceLives ==
  ASSUME NEW h, NEW et \in Counts, NEW ed \in Counts, NEW ea \in Counts, Sound(h, et, ed, ea),
         NEW t \in DOMAIN h.transport, Kept(h.transport[t])
  PROVE  h.device[h.transport[t].device].refs > 0
  <1> DEFINE d == h.transport[t].device
  <1>1. h \in HeapRec /\ d \in DOMAIN h.device BY DEF Sound, Related
  <1>2. t \in TransportsOf(h, d) BY DEF TransportsOf
  <1> HIDE DEF d
  <1>3. Cardinality(TransportsOf(h, d)) \in Nat \ {0} BY <1>1, <1>2, Finite
  <1>4. /\ h.device[d].refs = Cardinality(TransportsOf(h, d)) + One(h.device[d].battery)
                                 + One(Looked(h, d)) + ed[d]
        /\ One(h.device[d].battery) \in Nat /\ One(Looked(h, d)) \in Nat /\ ed[d] \in Nat
    BY <1>1, DeviceIsHeld
  <1>5. h.device[d].refs > 0 BY <1>3, <1>4
  <1> QED BY <1>5 DEF d

\* A step that edits one transport and goes on from there.
LEMMA StepThrough ==
  ASSUME Inv, ~heap.stale, NEW t \in Transports, NEW r \in TransportRec,
         main' = main, bluez' = bluez, crossed' = crossed,
         Sound(heap', ByMainT(main), ByMainD(main), ByMainA(main, bluez)),
         SameLife(SetT(heap, t, r), heap'),
         LinkOk(heap, t, crossed) => ~r.quirk /\ (t \notin crossed => r.thread \in {"run", "lost", "ended"} /\ ~r.freed)
  PROVE  Inv'
  <1>1. heap \in HeapRec /\ Joined BY InvIs
  <1>2. t \in DOMAIN heap.transport BY DEF Transports
  <1>4. /\ Links(heap, SetT(heap, t, r), t) /\ SetT(heap, t, r).transport[t] = r
        /\ t \in DOMAIN SetT(heap, t, r).transport
    BY <1>1, <1>2, LinkOfT
  <1>5. Links(heap, heap', t) BY <1>4, LinkStays
  <1>6. heap'.transport[t].quirk = r.quirk /\ heap'.transport[t].thread = r.thread
        /\ heap'.transport[t].freed = r.freed
    BY <1>4 DEF SameLife
  <1>7. main # << >> /\ main[1].do = "join" /\ main[1].id = t => LinkOk(heap', t, crossed)
    BY <1>1, <1>6 DEF Joined, LinkOk
  <1> QED BY <1>5, <1>7, StaysBut

LEMMA BatteryReportKeeps ==
  ASSUME Inv, NEW t \in Transports, BatteryReport(t)
  PROVE  Inv'
  <1> DEFINE d == heap.transport[t].device
             q == [heap.device[d] EXCEPT !.battery = TRUE, !.refs = @ + 1]
             et == ByMainT(main)
             ed == ByMainD(main)
             ea == ByMainA(main, bluez)
  <1>1. /\ ~heap.stale /\ main' = main /\ bluez' = bluez /\ crossed' = crossed /\ bluez # None
        /\ heap' = [heap EXCEPT !.device[d].battery = TRUE, !.device[d].refs = @ + 1]
        /\ ~heap.device[d].battery /\ heap.transport[t].thread = "run"
    BY DEF BatteryReport, ThreadGoes, Runs
  <1>2. /\ heap \in HeapRec /\ t \in DOMAIN heap.transport /\ heap.transport[t] \in TransportRec
        /\ ThreadOk(heap.transport[t]) /\ d \in DOMAIN heap.device
        /\ Own(heap.transport[t]) > 0 => heap.transport[t].refs > 0
    BY <1>1, TransportIs
  <1>3. /\ Sound(heap, et, ed, ea) /\ et \in Counts /\ ed \in Counts /\ ea \in Counts /\ Joined
    BY <1>1, InvIs
  <1>4. heap.transport[t].refs > 0
    <2>1. heap.transport[t].sco BY <1>1, <1>2 DEF ThreadOk
    <2>2. Own(heap.transport[t]) > 0 BY <2>1 DEF Own, One
    <2> QED BY <2>2, <1>2
  <1>5. heap.device[d].refs > 0 BY <1>2, <1>3, <1>4, DeviceLives DEF Kept
  <1> HIDE DEF d, et, ed, ea
  <1>6. /\ heap.device[d] \in DeviceRec /\ d \in Nat
        /\ heap.device[d].refs = Cardinality(TransportsOf(heap, d)) + One(heap.device[d].battery)
                                 + One(Looked(heap, d)) + ed[d]
        /\ Cardinality(TransportsOf(heap, d)) \in Nat /\ One(Looked(heap, d)) \in Nat /\ ed[d] \in Nat
    BY <1>2, <1>3, DeviceIsHeld
  <1>7. heap.device[d].refs \in Nat /\ heap.device[d].refs + 1 \in Nat BY <1>6 DEF DeviceRec
  <1>8. heap' = SetD(heap, d, q) BY <1>1, <1>2, <1>6 DEF SetD, HeapRec, DeviceRec
  <1>9. /\ q \in DeviceRec /\ q.refs = heap.device[d].refs + 1 /\ q.adapter = heap.device[d].adapter
        /\ q.addr = heap.device[d].addr /\ q.transport = heap.device[d].transport /\ q.battery = TRUE
    BY <1>6, <1>7 DEF DeviceRec
  <1>10. One(heap.device[d].battery) = 0 /\ One(q.battery) = 1 BY <1>1, <1>9 DEF One
  <1> HIDE DEF q
  <1>11. q.refs = Cardinality(TransportsOf(heap, d)) + One(q.battery) + One(Looked(heap, d)) + ed[d]
         /\ (q.refs > 0 <=> heap.device[d].refs > 0)
    BY <1>5, <1>6, <1>9, <1>10
  <1>12. Moved(ed, ed, d, ed[d]) BY DEF Moved
  <1>13. q.transport \in {None, heap.device[d].transport} BY <1>9
  <1>14. Sound(heap', et, ed, ea)
    BY <1>2, <1>3, <1>6, <1>8, <1>9, <1>11, <1>12, <1>13, EditDevice
  <1>15. /\ heap'.transport = heap.transport /\ heap'.adapter = heap.adapter
         /\ DOMAIN heap'.device = DOMAIN heap.device
    BY <1>2, <1>8, <1>9, SetDIs
  <1>16. Links(heap, heap', t) BY <1>1, <1>15 DEF Links
  <1>17. main # << >> /\ main[1].do = "join" /\ main[1].id = t => LinkOk(heap', t, crossed)
    BY <1>3, <1>15 DEF Joined, LinkOk
  <1> QED BY <1>1, <1>14, <1>16, <1>17, StaysBut DEF et, ed, ea

LEMMA ThreadLostKeeps ==
  ASSUME Inv, NEW t \in Transports, ThreadLost(t)
  PROVE  Inv'
  <1> DEFINE d == heap.transport[t].device
             r == [heap.transport[t] EXCEPT !.thread = "lost"]
             k == SetT(heap, t, r)
             et == ByMainT(main)
             ed == ByMainD(main)
             ea == ByMainA(main, bluez)
  <1>1. /\ ~heap.stale /\ main' = main /\ bluez' = bluez /\ crossed' = crossed
        /\ heap' = BatteryGone([heap EXCEPT !.transport[t].thread = "lost"], d, Thread(t))
        /\ heap.transport[t].thread = "run"
    BY DEF ThreadLost, ThreadGoes, Runs
  <1>2. /\ heap \in HeapRec /\ t \in DOMAIN heap.transport /\ heap.transport[t] \in TransportRec
        /\ ThreadOk(heap.transport[t]) /\ d \in DOMAIN heap.device /\ t \in Nat
    BY <1>1, TransportIs
  <1>3. /\ Sound(heap, et, ed, ea) /\ et \in Counts /\ ed \in Counts /\ ea \in Counts
    BY <1>1, InvIs
  <1>4. [heap EXCEPT !.transport[t].thread = "lost"] = k BY <1>2 DEF SetT, HeapRec, TransportRec
  <1>5. /\ r \in TransportRec /\ r.device = heap.transport[t].device /\ r.refs = heap.transport[t].refs
        /\ r.freer = heap.transport[t].freer /\ r.quirk = heap.transport[t].quirk
        /\ r.thread = "lost" /\ r.freed = heap.transport[t].freed
    BY <1>2 DEF TransportRec, Labels
  <1>6. ThreadOk(r) /\ Own(r) = Own(heap.transport[t]) BY <1>1, <1>2 DEF TransportRec, ThreadOk, Own
  <1> HIDE DEF r, et, ed, ea
  <1>7. r.refs + Own(heap.transport[t]) = heap.transport[t].refs + Own(r) BY <1>5, <1>6
  <1>8. Sound(k, et, ed, ea) BY <1>2, <1>3, <1>5, <1>6, <1>7, EditInPlace
  <1>9. d \in DOMAIN k.device BY <1>2, <1>5, SetTIs
  <1> HIDE DEF k, d
  <1>10. Sound(heap', et, ed, ea) /\ SameLife(k, heap')
    BY <1>1, <1>2, <1>3, <1>4, <1>8, <1>9, WhoIs, BatteryGoes
  <1>11. LinkOk(heap, t, crossed) => ~r.quirk /\ (t \notin crossed => r.thread \in {"run", "lost", "ended"} /\ ~r.freed)
    BY <1>5 DEF LinkOk
  <1> QED BY <1>1, <1>5, <1>10, <1>11, StepThrough DEF k, et, ed, ea

LEMMA ThreadTestKeeps ==
  ASSUME Inv, NEW t \in Transports, ThreadTest(t)
  PROVE  Inv'
  <1>1. /\ ~heap.stale /\ main' = main /\ bluez' = bluez /\ crossed' = crossed
        /\ heap' = IF heap.transport[t].quirk THEN [heap EXCEPT !.transport[t].thread = "quirk"]
                   ELSE TransportUnref([heap EXCEPT !.transport[t].sco = FALSE,
                                              !.transport[t].thread = "ended"], t, Thread(t))
        /\ heap.transport[t].thread = "lost"
    BY DEF ThreadTest, ThreadGoes, Runs
  <1>2. /\ heap \in HeapRec /\ t \in DOMAIN heap.transport /\ heap.transport[t] \in TransportRec
        /\ ThreadOk(heap.transport[t]) /\ t \in Nat
    BY <1>1, TransportIs
  <1>3. CASE heap.transport[t].quirk
    <2> DEFINE r == [heap.transport[t] EXCEPT !.thread = "quirk"]
    <2>1. heap' = SetT(heap, t, r) BY <1>1, <1>2, <1>3 DEF SetT, HeapRec, TransportRec
    <2>2. /\ r \in TransportRec /\ r.device = heap.transport[t].device /\ r.refs = heap.transport[t].refs
          /\ r.freer = heap.transport[t].freer
      BY <1>2 DEF TransportRec, Labels
    <2>3. ThreadOk(r) /\ Own(r) = Own(heap.transport[t]) BY <1>1, <1>2 DEF TransportRec, ThreadOk, Own
    <2>4. ~LinkOk(heap, t, crossed) BY <1>3 DEF LinkOk
    <2> HIDE DEF r
    <2>5. r.refs + Own(heap.transport[t]) = heap.transport[t].refs + Own(r) BY <2>2, <2>3
    <2> QED BY <1>1, <2>1, <2>2, <2>3, <2>4, <2>5, StepInPlace
  <1>4. CASE ~heap.transport[t].quirk
    <2> DEFINE r == [heap.transport[t] EXCEPT !.sco = FALSE, !.thread = "ended"]
    <2>1. heap' = TransportUnref(SetT(heap, t, r), t, Thread(t))
      <3>1. [heap EXCEPT !.transport[t].sco = FALSE, !.transport[t].thread = "ended"] = SetT(heap, t, r)
        BY <1>2 DEF SetT, HeapRec, TransportRec
      <3> QED BY <3>1, <1>1, <1>4
    <2>2. /\ r \in TransportRec /\ r.device = heap.transport[t].device /\ r.refs = heap.transport[t].refs
          /\ r.freer = heap.transport[t].freer /\ r.quirk = heap.transport[t].quirk
          /\ r.thread = "ended" /\ r.freed = heap.transport[t].freed
      BY <1>2 DEF TransportRec, Labels
    <2>3. ThreadOk(r) BY <1>1, <1>2, <1>4 DEF TransportRec, ThreadOk
    <2>4. Own(heap.transport[t]) = Own(r) + 1 /\ Own(r) \in Nat
      <3>1. heap.transport[t].sco BY <1>1, <1>2 DEF ThreadOk
      <3> QED BY <3>1, <1>1, <1>2 DEF TransportRec, Own, One
    <2>5. heap.transport[t].refs \in Nat BY <1>2 DEF TransportRec
    <2>6. LinkOk(heap, t, crossed) => ~r.quirk /\ (t \notin crossed => r.thread \in {"run", "lost", "ended"} /\ ~r.freed)
      BY <2>2 DEF LinkOk
    <2> HIDE DEF r
    <2>7. r.refs + Own(heap.transport[t]) = heap.transport[t].refs + Own(r) + 1 BY <2>2, <2>4, <2>5
    <2> QED BY <1>1, <1>2, <2>1, <2>2, <2>3, <2>6, <2>7, WhoIs, StepAndUnref
  <1> QED BY <1>3, <1>4

LEMMA ThreadQuirkKeeps ==
  ASSUME Inv, NEW t \in Transports, ThreadQuirk(t)
  PROVE  Inv'
  <1> DEFINE r == [heap.transport[t] EXCEPT !.rfcomm = FALSE, !.refs = @ + 1, !.thread = "destroying"]
             k == SetT(heap, t, r)
             et == ByMainT(main)
             ed == ByMainD(main)
             ea == ByMainA(main, bluez)
  <1>1. /\ ~heap.stale /\ main' = main /\ bluez' = bluez /\ crossed' = crossed
        /\ heap' = Unregistered([heap EXCEPT !.transport[t].rfcomm = FALSE, !.transport[t].refs = @ + 1,
                                       !.transport[t].thread = "destroying"], t, Thread(t))
        /\ heap.transport[t].thread = "quirk"
    BY DEF ThreadQuirk, ThreadGoes, Runs
  <1>2. /\ heap \in HeapRec /\ t \in DOMAIN heap.transport /\ heap.transport[t] \in TransportRec
        /\ ThreadOk(heap.transport[t]) /\ t \in Nat
        /\ Own(heap.transport[t]) > 0 => heap.transport[t].refs > 0
    BY <1>1, TransportIs
  <1>3. /\ Sound(heap, et, ed, ea) /\ et \in Counts /\ ed \in Counts /\ ea \in Counts
    BY <1>1, InvIs
  <1> HIDE DEF et, ed, ea
  <1>4. /\ heap.transport[t].refs = Own(heap.transport[t]) + One(Served(heap, t)) + et[t]
        /\ Own(heap.transport[t]) \in Nat /\ One(Served(heap, t)) \in Nat /\ et[t] \in Nat
    BY <1>2, <1>3, TransportIsHeld
  <1>5. heap.transport[t].refs \in Nat /\ heap.transport[t].refs + 1 \in Nat BY <1>2 DEF TransportRec
  <1>6. heap.transport[t].refs > 0
    <2>1. heap.transport[t].sco BY <1>1, <1>2 DEF ThreadOk
    <2>2. Own(heap.transport[t]) > 0 BY <2>1 DEF Own, One
    <2> QED BY <2>2, <1>2
  <1>7. [heap EXCEPT !.transport[t].rfcomm = FALSE, !.transport[t].refs = @ + 1,
                     !.transport[t].thread = "destroying"] = k
    BY <1>2 DEF SetT, HeapRec, TransportRec
  <1>8. /\ r \in TransportRec /\ r.device = heap.transport[t].device /\ r.refs = heap.transport[t].refs + 1
        /\ r.freer = heap.transport[t].freer
    BY <1>2, <1>5 DEF TransportRec, Labels
  <1>9. ThreadOk([r EXCEPT !.exported = FALSE])
    BY <1>1, <1>2, <1>6, <1>5 DEF TransportRec, ThreadOk
  <1>10. Own(r) = Own(heap.transport[t]) + 1 BY <1>1, <1>2 DEF TransportRec, Own, One
  <1>11. ~LinkOk(heap, t, crossed) \/ t \in crossed BY <1>1 DEF LinkOk
  <1>q. r.quirk = heap.transport[t].quirk BY <1>2 DEF TransportRec
  <1> HIDE DEF r
  <1>12. r.refs = Own(r) + One(Served(heap, t)) + et[t] BY <1>4, <1>5, <1>8, <1>10
  <1>13. Moved(et, et, t, et[t]) BY DEF Moved
  <1>14. (r.refs > 0 <=> heap.transport[t].refs > 0) /\ (r.freer # NoOne <=> heap.transport[t].freer # NoOne)
    BY <1>5, <1>6, <1>8
  <1>15. Sound(heap', et, ed, ea) /\ SameLife(k, heap')
    <2>1. heap' = Unregistered(k, t, Thread(t)) BY <1>1, <1>7
    <2> QED BY <2>1, <1>2, <1>3, <1>4, <1>8, <1>9, <1>12, <1>13, <1>14, WhoIs, Unregisters
  <1>16. LinkOk(heap, t, crossed) => ~r.quirk /\ (t \notin crossed => r.thread \in {"run", "lost", "ended"} /\ ~r.freed)
    BY <1>11, <1>q DEF LinkOk
  <1> QED BY <1>1, <1>8, <1>15, <1>16, StepThrough DEF et, ed, ea

LEMMA ThreadDestroyKeeps ==
  ASSUME Inv, NEW t \in Transports, ThreadDestroy(t)
  PROVE  Inv'
  <1> DEFINE r == [heap.transport[t] EXCEPT !.thread = "released"]
             k == SetT(heap, t, r)
             et == ByMainT(main)
             ed == ByMainD(main)
             ea == ByMainA(main, bluez)
  <1>1. /\ ~heap.stale /\ main' = main /\ bluez' = bluez /\ crossed' = crossed
        /\ heap' = Released([heap EXCEPT !.transport[t].thread = "released"], t, Thread(t))
        /\ heap.transport[t].thread = "destroying"
    BY DEF ThreadDestroy, ThreadGoes, Runs
  <1>2. /\ heap \in HeapRec /\ t \in DOMAIN heap.transport /\ heap.transport[t] \in TransportRec
        /\ ThreadOk(heap.transport[t]) /\ t \in Nat
    BY <1>1, TransportIs
  <1>3. /\ Sound(heap, et, ed, ea) /\ et \in Counts /\ ed \in Counts /\ ea \in Counts
    BY <1>1, InvIs
  <1> HIDE DEF et, ed, ea
  <1>5. heap.transport[t].refs \in Nat BY <1>2 DEF TransportRec
  <1>7. [heap EXCEPT !.transport[t].thread = "released"] = k BY <1>2 DEF SetT, HeapRec, TransportRec
  <1>8. /\ r \in TransportRec /\ r.device = heap.transport[t].device /\ r.refs = heap.transport[t].refs
        /\ r.freer = heap.transport[t].freer /\ r.quirk = heap.transport[t].quirk
    BY <1>2 DEF TransportRec, Labels
  <1>9. ThreadOk(r) BY <1>1, <1>2 DEF TransportRec, ThreadOk
  <1>10. Own(heap.transport[t]) = Own(r) + 1 /\ Own(r) \in Nat BY <1>1, <1>2 DEF TransportRec, Own, One
  <1>11. ~LinkOk(heap, t, crossed) \/ t \in crossed BY <1>1 DEF LinkOk
  <1> HIDE DEF r
  <1>12. r.refs + Own(heap.transport[t]) = heap.transport[t].refs + Own(r) + 1 BY <1>5, <1>8, <1>10
  <1>13. Thread(t) \in Who /\ Thread(t) # NoOne BY <1>2, WhoIs
  <1>14. /\ Sound(k, Plus(et, t), ed, ea) /\ t \in DOMAIN k.transport
         /\ Plus(et, t) \in Counts /\ Plus(et, t)[t] > 0 /\ Moved(Plus(et, t), et, t, Plus(et, t)[t] - 1)
    BY <1>2, <1>3, <1>8, <1>9, <1>12, <1>13, EditAndUnref, ZenonT(40)
  <1> HIDE DEF k
  <1>15. Sound(heap', et, ed, ea) /\ SameLife(k, heap')
    <2>1. heap' = Released(k, t, Thread(t)) BY <1>1, <1>7
    <2> QED BY <2>1, <1>3, <1>13, <1>14, Releases
  <1>16. LinkOk(heap, t, crossed) => ~r.quirk /\ (t \notin crossed => r.thread \in {"run", "lost", "ended"} /\ ~r.freed)
    BY <1>11, <1>8 DEF LinkOk
  <1> QED BY <1>1, <1>8, <1>15, <1>16, StepThrough DEF et, ed, ea, k

LEMMA ThreadFreesKeeps ==
  ASSUME Inv, NEW t \in Transports, ThreadFrees(t)
  PROVE  Inv'
  <1> DEFINE r == [heap.transport[t] EXCEPT !.quirk = FALSE, !.sco = FALSE, !.freed = TRUE, !.thread = "ended"]
  <1>1. /\ ~heap.stale /\ main' = main /\ bluez' = bluez /\ crossed' = crossed
        /\ heap' = IF heap.transport[t].freed THEN [heap EXCEPT !.stale = TRUE]
             ELSE TransportUnref([heap EXCEPT !.transport[t].quirk = FALSE, !.transport[t].sco = FALSE,
                                    !.transport[t].freed = TRUE, !.transport[t].thread = "ended"],
                                 t, Thread(t))
        /\ heap.transport[t].thread = "released"
    BY DEF ThreadFrees, ThreadGoes, Runs
  <1>2. /\ heap \in HeapRec /\ t \in DOMAIN heap.transport /\ heap.transport[t] \in TransportRec
        /\ ThreadOk(heap.transport[t]) /\ t \in Nat
    BY <1>1, TransportIs
  <1>3. ~heap.transport[t].freed BY <1>1, <1>2 DEF ThreadOk
  <1>4. heap' = TransportUnref(SetT(heap, t, r), t, Thread(t))
    <2>1. [heap EXCEPT !.transport[t].quirk = FALSE, !.transport[t].sco = FALSE,
                       !.transport[t].freed = TRUE, !.transport[t].thread = "ended"] = SetT(heap, t, r)
      <3> HIDE DEF r
      <3>1. r = [heap.transport[t] EXCEPT !.quirk = FALSE, !.sco = FALSE, !.freed = TRUE, !.thread = "ended"]
        BY DEF r
      <3>2. heap \in HeapRec /\ t \in DOMAIN heap.transport /\ heap.transport[t] \in TransportRec BY <1>2
      <3> QED BY ONLY <3>1, <3>2, ZenonT(60) DEF SetT, HeapRec, TransportRec
    <2> QED BY <2>1, <1>1, <1>3
  <1>5. heap.transport[t].refs \in Nat BY <1>2 DEF TransportRec
  <1>8. /\ r \in TransportRec /\ r.device = heap.transport[t].device /\ r.refs = heap.transport[t].refs
        /\ r.freer = heap.transport[t].freer /\ r.quirk = FALSE
    BY <1>2 DEF TransportRec, Labels
  <1>9. ThreadOk(r) BY <1>1, <1>2 DEF TransportRec, ThreadOk
  <1>10. Own(heap.transport[t]) = Own(r) + 1 /\ Own(r) \in Nat
    <2>1. heap.transport[t].sco BY <1>1, <1>2 DEF ThreadOk
    <2> QED BY <2>1, <1>1, <1>2 DEF TransportRec, Own, One
  <1>11. ~LinkOk(heap, t, crossed) \/ t \in crossed BY <1>1 DEF LinkOk
  <1> HIDE DEF r
  <1>12. r.refs + Own(heap.transport[t]) = heap.transport[t].refs + Own(r) + 1 BY <1>5, <1>8, <1>10
  <1>16. LinkOk(heap, t, crossed) => ~r.quirk /\ (t \notin crossed => r.thread \in {"run", "lost", "ended"} /\ ~r.freed)
    BY <1>11, <1>8 DEF LinkOk
  <1> QED BY <1>1, <1>2, <1>4, <1>8, <1>9, <1>12, <1>16, WhoIs, StepAndUnref

==============================================================================
