---------------------------- MODULE DeviceProofs -----------------------------
(* Adapters, devices and transports of bluez-alsa: each step of main and of the    *)
(* dispatchers keeps the invariant of DeviceLemmas; the theorems about every       *)
(* instance of BaDevices.                                                          *)
EXTENDS DeviceLemmas

----------------------------------------------------------------------------
(* The steps of main *)

LEMMA MainIn ==
  ASSUME Inv, NEW do, In(do)
  PROVE  /\ ~heap.stale /\ main # << >> /\ main[1].do = do /\ main[1] \in FrameRec /\ main[1].id \in Nat
         /\ main \in Seq(FrameRec) /\ Tail(main) \in Seq(FrameRec)
         /\ do \in OfTransport =>
              /\ OnTransport(heap, main) /\ Shape(heap, Tail(main), bluez) /\ Tail(main) # << >>
              /\ Tail(main)[1].do \in {"leaveAdapter", "device"}
              /\ main[1].id \in DOMAIN heap.transport
         /\ do \notin OfTransport => Shape(heap, main, bluez)
  <1>1. ~heap.stale /\ main # << >> /\ main[1].do = do BY DEF In, Runs, Top
  <1>2. main \in Seq(FrameRec) /\ MainShape(heap, main, bluez) BY <1>1, InvIs
  <1>3. main[1] \in FrameRec /\ Tail(main) \in Seq(FrameRec) BY <1>1, <1>2, InTail
  <1>4. main[1].id \in Nat BY <1>3 DEF FrameRec
  <1>5. Shape(heap, main, bluez) => main[1].do \notin OfTransport
    BY <1>1, <1>2, ShapeIs DEF OfTransport
  <1> QED BY <1>1, <1>2, <1>3, <1>4, <1>5 DEF MainShape, OnTransport

LEMMA DestroyTransportKeeps ==
  ASSUME Inv, DestroyTransport
  PROVE  Inv'
  <1> DEFINE t == main[1].id
             h == Unregistered(heap, t, Main)
             et == ByMainT(main)
             ed == ByMainD(main)
             ea == ByMainA(main, bluez)
  <1>1. /\ In("unregister") /\ bluez' = bluez
        /\ \/ /\ heap.transport[t].rfcomm
              /\ heap' = [h EXCEPT !.transport[t].quirk = FALSE, !.transport[t].cancelled = TRUE]
              /\ crossed' = IF heap.transport[t].thread = "quirk" THEN crossed \cup {t} ELSE crossed
              /\ main' = <<[main[1] EXCEPT !.do = "join"]>> \o Tail(main)
           \/ /\ heap' = h
              /\ main' = <<[main[1] EXCEPT !.do = "release"]>> \o Tail(main)
              /\ crossed' = crossed
    BY DEF DestroyTransport, Goto, Top
  <1>2. /\ ~heap.stale /\ main # << >> /\ main[1].do = "unregister" /\ t \in Nat
        /\ main \in Seq(FrameRec)
        /\ OnTransport(heap, main) /\ Shape(heap, Tail(main), bluez) /\ Tail(main) # << >>
        /\ Tail(main)[1].do \in {"leaveAdapter", "device"} /\ t \in DOMAIN heap.transport
    BY <1>1, MainIn DEF OfTransport
  <1>3. /\ Sound(heap, et, ed, ea) /\ et \in Counts /\ ed \in Counts /\ ea \in Counts
        /\ heap \in HeapRec /\ Bluez
    BY <1>2, InvIs
  <1> HIDE DEF et, ed, ea
  <1> DEFINE r == heap.transport[t]
  <1>4. /\ r \in TransportRec /\ ThreadOk(r) /\ r.refs = Own(r) + One(Served(heap, t)) + et[t]
        /\ et[t] \in Nat
    BY <1>2, <1>3, TransportIsHeld
  <1>5. ThreadOk([r EXCEPT !.exported = FALSE]) BY <1>4 DEF TransportRec, ThreadOk
  <1>6. Moved(et, et, t, et[t]) BY DEF Moved
  <1>7. SetT(heap, t, r) = heap BY <1>2, <1>3, SetSame
  <1>8. Sound(h, et, ed, ea) /\ SameLife(heap, h) /\ ~h.transport[t].exported
    <2>1. /\ Sound(Unregistered(SetT(heap, t, r), t, Main), et, ed, ea)
          /\ SameLife(SetT(heap, t, r), Unregistered(SetT(heap, t, r), t, Main))
          /\ ~Unregistered(SetT(heap, t, r), t, Main).transport[t].exported
      BY <1>2, <1>3, <1>4, <1>5, <1>6, WhoIs, Unregisters
    <2> QED BY <2>1, <1>7
  <1>d. "join" \in OfTransport /\ "release" \in OfTransport BY DEF OfTransport
  <1> DEFINE tt == t
  <1>t. t = tt OBVIOUS
  <1>w. /\ r.rfcomm => ~r.freed /\ r.thread \notin {"destroying", "released"}
        /\ r.thread \in Labels
    BY <1>4 DEF ThreadOk, TransportRec
  <1> HIDE DEF h, t
  <1>9. CASE /\ heap.transport[t].rfcomm
             /\ heap' = [h EXCEPT !.transport[t].quirk = FALSE, !.transport[t].cancelled = TRUE]
             /\ crossed' = IF heap.transport[t].thread = "quirk" THEN crossed \cup {t} ELSE crossed
             /\ main' = <<[main[1] EXCEPT !.do = "join"]>> \o Tail(main)
    <2> DEFINE z == [h.transport[t] EXCEPT !.quirk = FALSE, !.cancelled = TRUE]
    <2>1. h \in HeapRec /\ t \in DOMAIN h.transport BY <1>2, <1>8 DEF Sound, SameLife
    <2>2. h.transport[t] \in TransportRec /\ ThreadOk(h.transport[t]) BY <1>3, <1>8, <2>1, TransportIsHeld
    <2>3. heap' = SetT(h, t, z) BY <1>9, <2>1, <2>2 DEF SetT, HeapRec, TransportRec
    <2>4. /\ z \in TransportRec /\ z.device = h.transport[t].device /\ z.refs = h.transport[t].refs
          /\ z.freer = h.transport[t].freer /\ z.quirk = FALSE /\ z.thread = h.transport[t].thread
          /\ z.freed = h.transport[t].freed
      BY <2>2 DEF TransportRec
    <2>5. ThreadOk(z) /\ Own(z) = Own(h.transport[t]) BY <1>8, <2>2 DEF TransportRec, ThreadOk, Own
    <2> HIDE DEF z
    <2>6. z.refs + Own(h.transport[t]) = h.transport[t].refs + Own(z) BY <2>4, <2>5
    <2>7. Sound(heap', et, ed, ea) BY <1>3, <1>8, <2>1, <2>3, <2>4, <2>5, <2>6, EditInPlace
    <2>8. /\ Links(h, heap', t) /\ heap'.transport[t] = z BY <2>1, <2>3, <2>4, LinkOfT
    <2>9. DOMAIN heap'.transport = DOMAIN heap.transport /\ DOMAIN heap'.device = DOMAIN heap.device
          /\ DOMAIN heap'.adapter = DOMAIN heap.adapter
      BY <1>8, <2>8 DEF Links, SameLife
    <2>10. heap'.device = h.device BY <2>1, <2>3, <2>4, SetTIs
    <2>11. /\ main' \in Seq(FrameRec) /\ MainShape(heap, main', bluez) /\ main' # << >>
           /\ main'[1].do = "join" /\ main'[1].id = t
           /\ ByMainT(main') = et /\ ByMainD(main') = ed /\ ByMainA(main', bluez) = ea
      <3>1. Pushes(main', [main[1] EXCEPT !.do = "join"], Tail(main)) BY <1>9 DEF Pushes
      <3> QED BY <3>1, <1>2, <1>d, GoOn DEF et, ed, ea, t
    <2>12. Joined'
      <3>1. z.thread = r.thread /\ z.freed = r.freed BY <1>2, <1>8, <2>4 DEF SameLife
      <3>2. r.rfcomm BY <1>9
      <3>3. ~r.freed /\ (r.thread # "quirk" => r.thread \in {"run", "lost", "ended"})
        BY <3>2, <1>w DEF Labels
      <3>4. t \notin crossed' => r.thread # "quirk" BY <1>9
      <3> QED BY <2>4, <2>8, <2>11, <3>1, <3>3, <3>4 DEF Joined
    <2>13. Bluez' BY <1>1, <1>3, <1>8, <2>9, <2>10 DEF Bluez, SameLife
    <2>14. MainShape(heap', main', bluez) BY <2>9, <2>11, ShapeStays
    <2>15. ~heap'.stale BY <2>7 DEF Sound
    <2> QED BY <1>1, <2>7, <2>11, <2>12, <2>13, <2>14, <2>15 DEF Inv
  <1>10. CASE /\ heap' = h
              /\ main' = <<[main[1] EXCEPT !.do = "release"]>> \o Tail(main)
              /\ crossed' = crossed
    <2>11. /\ main' \in Seq(FrameRec) /\ MainShape(heap, main', bluez) /\ main' # << >>
           /\ main'[1].do = "release"
           /\ ByMainT(main') = et /\ ByMainD(main') = ed /\ ByMainA(main', bluez) = ea
      <3>1. Pushes(main', [main[1] EXCEPT !.do = "release"], Tail(main)) BY <1>10 DEF Pushes
      <3> QED BY <3>1, <1>2, <1>d, GoOn DEF et, ed, ea, t
    <2>12. Joined' BY <2>11 DEF Joined
    <2>13. Bluez' BY <1>1, <1>3, <1>8, <1>10 DEF Bluez, SameLife
    <2>14. MainShape(heap', main', bluez) BY <1>8, <1>10, <2>11, ShapeStays DEF SameLife
    <2>15. ~heap'.stale BY <1>8, <1>10 DEF Sound
    <2> QED BY <1>1, <1>8, <1>10, <2>11, <2>12, <2>13, <2>14, <2>15 DEF Inv
  <1> QED BY <1>1, <1>9, <1>10 DEF t, h

LEMMA JoinRfcommKeeps ==
  ASSUME Inv, JoinRfcomm
  PROVE  Inv'
  <1> DEFINE t == main[1].id
             et == ByMainT(main)
             ed == ByMainD(main)
             ea == ByMainA(main, bluez)
             r == [heap.transport[t] EXCEPT !.sco = FALSE, !.freed = TRUE, !.rfcomm = FALSE]
             h == IF heap.transport[t].sco THEN TransportUnref(heap, t, Main) ELSE heap
  <1>1. /\ In("join") /\ bluez' = bluez /\ crossed' = crossed
        /\ heap.transport[t].thread = "ended"
        /\ heap' = IF heap.transport[t].freed THEN [heap EXCEPT !.stale = TRUE]
                ELSE [h EXCEPT !.transport[t].sco = FALSE, !.transport[t].freed = TRUE,
                               !.transport[t].rfcomm = FALSE]
        /\ main' = <<[main[1] EXCEPT !.do = "release"]>> \o Tail(main)
    BY DEF JoinRfcomm, Goto, Top
  <1>2. /\ ~heap.stale /\ main # << >> /\ main[1].do = "join" /\ t \in Nat
        /\ main \in Seq(FrameRec)
        /\ OnTransport(heap, main) /\ Shape(heap, Tail(main), bluez) /\ Tail(main) # << >>
        /\ Tail(main)[1].do \in {"leaveAdapter", "device"} /\ t \in DOMAIN heap.transport
    BY <1>1, MainIn DEF OfTransport
  <1>3. /\ Sound(heap, et, ed, ea) /\ et \in Counts /\ ed \in Counts /\ ea \in Counts
        /\ heap \in HeapRec /\ Bluez /\ Joined
    BY <1>2, InvIs
  <1>d. "release" \in OfTransport BY DEF OfTransport
  <1>4. /\ main' \in Seq(FrameRec) /\ MainShape(heap, main', bluez) /\ main' # << >>
        /\ main'[1].do = "release"
        /\ ByMainT(main') = et /\ ByMainD(main') = ed /\ ByMainA(main', bluez) = ea
    <2>1. Pushes(main', [main[1] EXCEPT !.do = "release"], Tail(main)) BY <1>1 DEF Pushes
    <2> QED BY <2>1, <1>2, <1>d, GoOn
  <1>5. CASE heap.transport[t].freed
    <2>1. heap' = [heap EXCEPT !.stale = TRUE] BY <1>1, <1>5
    <2>2. heap'.stale BY <1>3, <2>1 DEF HeapRec
    <2>3. t \in crossed BY <1>2, <1>3, <1>5 DEF Joined
    <2> QED BY <1>1, <1>4, <2>2, <2>3 DEF Inv
  <1>6. CASE ~heap.transport[t].freed
    <2>1. heap.transport[t] \in TransportRec /\ ThreadOk(heap.transport[t])
      BY <1>2, <1>3, TransportIsHeld
    <2>2. ~heap.transport[t].sco BY <1>1, <2>1 DEF ThreadOk
    <2>3. heap' = SetT(heap, t, r)
      <3>1. heap' = [heap EXCEPT !.transport[t].sco = FALSE, !.transport[t].freed = TRUE,
                               !.transport[t].rfcomm = FALSE]
        BY <1>1, <1>6, <2>2
      <3> QED BY <3>1, <1>2, <1>3, <2>1, ZenonT(40) DEF SetT, HeapRec, TransportRec
    <2>4. /\ r \in TransportRec /\ r.device = heap.transport[t].device /\ r.refs = heap.transport[t].refs
          /\ r.freer = heap.transport[t].freer
      BY <2>1 DEF TransportRec
    <2>5. ThreadOk(r) /\ Own(r) = Own(heap.transport[t])
      BY <1>1, <2>1, <2>2 DEF TransportRec, ThreadOk, Own
    <2> HIDE DEF r, et, ed, ea, t
    <2>6. r.refs + Own(heap.transport[t]) = heap.transport[t].refs + Own(r) BY <2>4, <2>5
    <2>7. Sound(heap', et, ed, ea) BY <1>2, <1>3, <2>3, <2>4, <2>5, <2>6, EditInPlace
    <2>9. DOMAIN heap'.transport = DOMAIN heap.transport /\ heap'.device = heap.device
          /\ heap'.adapter = heap.adapter
      BY <1>2, <1>3, <2>3, <2>4, SetTIs
    <2>12. Joined' BY <1>4 DEF Joined
    <2>13. Bluez' BY <1>1, <1>3, <2>9 DEF Bluez
    <2>14. MainShape(heap', main', bluez) BY <1>4, <2>9, ShapeStays
    <2>15. ~heap'.stale BY <2>7 DEF Sound
    <2> QED BY <1>1, <1>4, <2>7, <2>12, <2>13, <2>14, <2>15 DEF Inv
  <1> QED BY <1>5, <1>6

\* Main returns from a function.
LEMMA Returns ==
  ASSUME Inv, ~heap.stale, main # << >>, main' = Tail(main), bluez' = bluez, crossed' = crossed,
         Shape(heap, Tail(main), bluez), SameLife(heap, heap'),
         Sound(heap', ByMainT(main'), ByMainD(main'), ByMainA(main', bluez))
  PROVE  Inv'
  <1>1. main \in Seq(FrameRec) /\ Bluez BY InvIs
  <1>2. Tail(main) \in Seq(FrameRec) BY <1>1, InTail
  <1>3. MainShape(heap, main', bluez) BY DEF MainShape
  <1>4. MainShape(heap', main', bluez) BY <1>3, ShapeStays DEF SameLife
  <1>5. Joined' BY <1>2, ShapeIs DEF Joined
  <1>6. Bluez' BY <1>1 DEF Bluez, SameLife
  <1>7. ~heap'.stale BY DEF Sound
  <1> QED BY <1>2, <1>4, <1>5, <1>6, <1>7 DEF Inv

LEMMA ReleaseTransportKeeps ==
  ASSUME Inv, ReleaseTransport
  PROVE  Inv'
  <1> DEFINE t == main[1].id
             k == Tail(main)
  <1>1. /\ In("release") /\ bluez' = bluez /\ crossed' = crossed
        /\ heap' = Released(heap, t, Main) /\ main' = k
    BY DEF ReleaseTransport, Return, Top
  <1>2. /\ ~heap.stale /\ main # << >> /\ t \in Nat
        /\ main \in Seq(FrameRec)
        /\ OnTransport(heap, main) /\ Shape(heap, k, bluez) /\ k # << >>
        /\ k[1].do \in {"leaveAdapter", "device"} /\ t \in DOMAIN heap.transport
    BY <1>1, MainIn DEF OfTransport
  <1>3. /\ Sound(heap, ByMainT(main), ByMainD(main), ByMainA(main, bluez))
        /\ ByMainT(main) \in Counts /\ ByMainD(main) \in Counts /\ ByMainA(main, bluez) \in Counts
    BY <1>2, InvIs
  <1>4. /\ ByMainD(k) = ByMainD(main) /\ ByMainA(k, bluez) = ByMainA(main, bluez)
        /\ ByMainT(main)[t] > 0
        /\ Moved(ByMainT(main), ByMainT(k), t, ByMainT(main)[t] - 1)
    BY <1>2, PopTransport
  <1>5. ByMainT(k) \in Counts BY ByMainIs
  <1>6. Sound(heap', ByMainT(k), ByMainD(main), ByMainA(main, bluez)) /\ SameLife(heap, heap')
    BY <1>1, <1>2, <1>3, <1>4, <1>5, WhoIs, Releases
  <1> QED BY <1>1, <1>2, <1>4, <1>6, Returns

LEMMA LeaveKeeps ==
  ASSUME Inv, Leave
  PROVE  Inv'
  <1> DEFINE k == Tail(main)
             i == main[1].id
  <1>1. /\ bluez' = bluez /\ crossed' = crossed /\ main' = k
        /\ \/ In("leaveAdapter") /\ heap' = AdapterUnref(heap, i, Main)
           \/ In("leaveDevice") /\ heap' = DeviceUnref(heap, i, Main)
    BY DEF Leave, Return, Top
  <1>c. ByMainT(k) \in Counts /\ ByMainD(k) \in Counts /\ ByMainA(k, bluez) \in Counts BY ByMainIs
  <1>2. CASE In("leaveAdapter") /\ heap' = AdapterUnref(heap, i, Main)
    <2>1. /\ ~heap.stale /\ main # << >> /\ main[1].do = "leaveAdapter" /\ i \in Nat
          /\ main \in Seq(FrameRec) /\ Shape(heap, main, bluez)
      BY <1>2, MainIn DEF OfTransport
    <2>2. /\ Sound(heap, ByMainT(main), ByMainD(main), ByMainA(main, bluez))
          /\ ByMainT(main) \in Counts /\ ByMainD(main) \in Counts /\ ByMainA(main, bluez) \in Counts
      BY <2>1, InvIs
    <2>3. /\ Shape(heap, k, bluez) /\ ByMainT(k) = ByMainT(main) /\ ByMainD(k) = ByMainD(main)
          /\ ByMainA(main, bluez)[i] > 0
          /\ Moved(ByMainA(main, bluez), ByMainA(k, bluez), i, ByMainA(main, bluez)[i] - 1)
      <3>1. /\ main \in Seq(FrameRec) /\ main # << >> /\ Shape(heap, main, bluez)
            /\ main[1].do \in {"leaveAdapter", "adapter"}
        BY ONLY <2>1
      <3> QED BY ONLY <3>1, PopAdapter
    <2>4. i \in DOMAIN heap.adapter BY <2>1, Below
    <2>5. Sound(heap', ByMainT(main), ByMainD(main), ByMainA(k, bluez)) /\ SameLife(heap, heap')
      BY <1>2, <1>c, <2>2, <2>3, <2>4, WhoIs, UnrefAdapter
    <2> QED BY <1>1, <2>1, <2>3, <2>5, Returns
  <1>3. CASE In("leaveDevice") /\ heap' = DeviceUnref(heap, i, Main)
    <2>1. /\ ~heap.stale /\ main # << >> /\ main[1].do = "leaveDevice" /\ i \in Nat
          /\ main \in Seq(FrameRec) /\ Shape(heap, main, bluez)
      BY <1>3, MainIn DEF OfTransport
    <2>2. /\ Sound(heap, ByMainT(main), ByMainD(main), ByMainA(main, bluez))
          /\ ByMainT(main) \in Counts /\ ByMainD(main) \in Counts /\ ByMainA(main, bluez) \in Counts
      BY <2>1, InvIs
    <2>d. main[1].do \in OfDevice BY <2>1 DEF OfDevice
    <2>3. /\ Shape(heap, k, bluez) /\ i \in DOMAIN heap.device
          /\ ByMainT(k) = ByMainT(main) /\ ByMainA(k, bluez) = ByMainA(main, bluez)
          /\ ByMainD(main)[i] > 0
          /\ Moved(ByMainD(main), ByMainD(k), i, ByMainD(main)[i] - 1)
      BY <2>1, <2>d, PopDevice
    <2>5. Sound(heap', ByMainT(main), ByMainD(k), ByMainA(main, bluez)) /\ SameLife(heap, heap')
      BY <1>3, <1>c, <2>2, <2>3, WhoIs, UnrefDevice
    <2> QED BY <1>1, <2>1, <2>3, <2>5, Returns
  <1> QED BY <1>1, <1>2, <1>3

----------------------------------------------------------------------------
(* Another reference of what is in use *)

\* What a reference taken changes.
SameBut(h, g) ==
  /\ g \in HeapRec /\ SameLife(h, g)
  /\ g.listed = h.listed /\ g.store = h.store /\ g.file = h.file

TakesT(g, h, t) == g = [h EXCEPT !.transport[t].refs = @ + 1]
TakesD(g, h, d) == g = [h EXCEPT !.device[d].refs = @ + 1]
TakesA(g, h, a) == g = [h EXCEPT !.adapter[a].refs = @ + 1]

\* The device is in use, and one more outside the heap will hold it.
LiveD(h, d) == d \in DOMAIN h.device /\ h.device[d].refs > 0
Gains(ed, fs, d) == Moved(ed, fs, d, ed[d] + 1)

LEMMA TakeDevice ==
  ASSUME NEW h, NEW et \in Counts, NEW ed \in Counts, NEW ea \in Counts, Sound(h, et, ed, ea),
         NEW d, LiveD(h, d), NEW fs \in Counts, Gains(ed, fs, d), NEW g, TakesD(g, h, d)
  PROVE  /\ Sound(g, et, fs, ea) /\ SameBut(h, g)
         /\ g.transport = h.transport /\ g.adapter = h.adapter
         /\ LiveD(g, d)
         /\ \A e \in DOMAIN h.device :
              g.device[e].transport = h.device[e].transport /\ g.device[e].addr = h.device[e].addr
  <1> DEFINE q == [h.device[d] EXCEPT !.refs = h.device[d].refs + 1]
             n == ed[d] + 1
  <1>a. d \in DOMAIN h.device /\ h.device[d].refs > 0 BY DEF LiveD
  <1>1. h \in HeapRec BY DEF Sound
  <1>2. /\ h.device[d] \in DeviceRec /\ d \in Nat
        /\ h.device[d].refs = Cardinality(TransportsOf(h, d)) + One(h.device[d].battery)
                                 + One(Looked(h, d)) + ed[d]
        /\ Cardinality(TransportsOf(h, d)) \in Nat /\ One(h.device[d].battery) \in Nat
        /\ One(Looked(h, d)) \in Nat /\ ed[d] \in Nat
    BY <1>a, DeviceIsHeld
  <1>3. h.device[d].refs \in Nat /\ h.device[d].refs + 1 \in Nat BY <1>2 DEF DeviceRec
  <1>4. g = SetD(h, d, q) BY <1>1, <1>a, RefsOfDevice DEF TakesD
  <1>5. /\ q \in DeviceRec /\ q.refs = h.device[d].refs + 1 /\ q.adapter = h.device[d].adapter
        /\ q.addr = h.device[d].addr /\ q.transport = h.device[d].transport
        /\ q.battery = h.device[d].battery
    BY <1>2, <1>3 DEF DeviceRec
  <1> HIDE DEF q
  <1>6. /\ q.refs = Cardinality(TransportsOf(h, d)) + One(q.battery) + One(Looked(h, d)) + n
        /\ q.refs > 0 <=> h.device[d].refs > 0
        /\ n \in Nat /\ q.transport \in {None, h.device[d].transport} /\ q.refs > 0
    BY <1>2, <1>3, <1>5, <1>a
  <1> HIDE DEF n
  <1>7. Moved(ed, fs, d, n) BY DEF n, Gains
  <1>8. Sound(g, et, fs, ea) BY <1>4, <1>5, <1>6, <1>7, <1>a, EditDevice
  <1>9. SameBut(h, g) BY <1>1, <1>4, <1>5, <1>a, SetDIs DEF SameLife, SameBut
  <1>10. /\ g.transport = h.transport /\ g.adapter = h.adapter
         /\ DOMAIN g.device = DOMAIN h.device
         /\ \A e \in DOMAIN h.device : g.device[e] = IF e = d THEN q ELSE h.device[e]
    <2>1. LET k == SetD(h, d, q)
          IN /\ k.transport = h.transport /\ k.adapter = h.adapter
             /\ DOMAIN k.device = DOMAIN h.device
             /\ \A e \in DOMAIN h.device : k.device[e] = IF e = d THEN q ELSE h.device[e]
      BY <1>1, <1>5, <1>a, SetDIs
    <2> QED BY <1>4, <2>1
  <1>11. \A e \in DOMAIN h.device :
              g.device[e].transport = h.device[e].transport /\ g.device[e].addr = h.device[e].addr
    BY <1>5, <1>10
  <1>12. LiveD(g, d) BY <1>6, <1>10, <1>a DEF LiveD
  <1> QED BY <1>8, <1>9, <1>10, <1>11, <1>12

LEMMA TakeTransport ==
  ASSUME NEW h, NEW et \in Counts, NEW ed \in Counts, NEW ea \in Counts, Sound(h, et, ed, ea),
         NEW t \in DOMAIN h.transport, h.transport[t].refs > 0, NEW fs \in Counts,
         Moved(et, fs, t, et[t] + 1), NEW g, TakesT(g, h, t)
  PROVE  /\ Sound(g, fs, ed, ea) /\ SameBut(h, g) /\ g.device = h.device /\ g.adapter = h.adapter
         /\ g.transport[t].refs > 0
  <1> DEFINE r == [h.transport[t] EXCEPT !.refs = h.transport[t].refs + 1]
             n == et[t] + 1
  <1>1. h \in HeapRec BY DEF Sound
  <1>2. /\ h.transport[t] \in TransportRec /\ ThreadOk(h.transport[t])
        /\ h.transport[t].refs = Own(h.transport[t]) + One(Served(h, t)) + et[t]
        /\ Own(h.transport[t]) \in Nat /\ One(Served(h, t)) \in Nat /\ et[t] \in Nat
        /\ t \in Nat
    BY TransportIsHeld
  <1>3. h.transport[t].refs \in Nat /\ h.transport[t].refs + 1 \in Nat BY <1>2 DEF TransportRec
  <1>4. g = SetT(h, t, r) BY <1>1, RefsOfTransport DEF TakesT
  <1>5. /\ r \in TransportRec /\ r.refs = h.transport[t].refs + 1
        /\ r.device = h.transport[t].device /\ r.freer = h.transport[t].freer
        /\ r.quirk = h.transport[t].quirk /\ r.thread = h.transport[t].thread
        /\ r.freed = h.transport[t].freed /\ r.exported = h.transport[t].exported
    BY <1>2, <1>3 DEF TransportRec
  <1>6. Own(r) = Own(h.transport[t]) BY <1>2 DEF Own, TransportRec
  <1>7. ThreadOk(r) BY <1>2, <1>3 DEF ThreadOk, TransportRec
  <1> HIDE DEF r
  <1>8. /\ n \in Nat /\ r.refs = Own(r) + One(Served(h, t)) + n
        /\ r.refs > 0 <=> h.transport[t].refs > 0
        /\ r.refs > 0
    BY <1>2, <1>3, <1>5, <1>6
  <1> HIDE DEF n
  <1>9. Moved(et, fs, t, n) BY DEF n
  <1>10. r.freer # NoOne <=> h.transport[t].freer # NoOne BY <1>5
  <1>11. Sound(g, fs, ed, ea) BY <1>4, <1>5, <1>7, <1>8, <1>9, <1>10, EditTransport
  <1>12. SameLife(h, g) BY <1>1, <1>4, <1>5, SameLifeOfT
  <1>13. /\ g \in HeapRec /\ g.device = h.device /\ g.adapter = h.adapter /\ g.listed = h.listed
         /\ g.store = h.store /\ g.file = h.file /\ g.transport[t] = r
    <2>1. LET k == SetT(h, t, r)
          IN /\ k \in HeapRec /\ k.device = h.device /\ k.adapter = h.adapter /\ k.listed = h.listed
             /\ k.store = h.store /\ k.file = h.file /\ k.transport[t] = r
      BY <1>1, <1>5, SetTIs
    <2> QED BY <1>4, <2>1
  <1> QED BY <1>8, <1>11, <1>12, <1>13 DEF SameBut

LEMMA TakeAdapter ==
  ASSUME NEW h, NEW et \in Counts, NEW ed \in Counts, NEW ea \in Counts, Sound(h, et, ed, ea),
         NEW a \in DOMAIN h.adapter, h.adapter[a].refs > 0, NEW fs \in Counts,
         Moved(ea, fs, a, ea[a] + 1), NEW g, TakesA(g, h, a)
  PROVE  /\ Sound(g, et, ed, fs) /\ SameBut(h, g) /\ g.device = h.device /\ g.transport = h.transport
         /\ \A b \in DOMAIN h.adapter : g.adapter[b].devices = h.adapter[b].devices
  <1> DEFINE r == [h.adapter[a] EXCEPT !.refs = h.adapter[a].refs + 1]
             n == ea[a] + 1
  <1>1. h \in HeapRec BY DEF Sound
  <1>2. /\ h.adapter[a] \in AdapterRec /\ a \in Nat
        /\ h.adapter[a].refs = Cardinality(DevicesOf(h, a)) + ea[a]
        /\ Cardinality(DevicesOf(h, a)) \in Nat /\ ea[a] \in Nat
    BY AdapterIsHeld
  <1>3. h.adapter[a].refs \in Nat /\ h.adapter[a].refs + 1 \in Nat BY <1>2 DEF AdapterRec
  <1>4. g = SetA(h, a, r) BY <1>1, RefsOfAdapter DEF TakesA
  <1>5. /\ r \in AdapterRec /\ r.refs = h.adapter[a].refs + 1
        /\ r.devices = h.adapter[a].devices /\ r.held = h.adapter[a].held
        /\ r.dispatcher = h.adapter[a].dispatcher
    BY <1>2, <1>3 DEF AdapterRec
  <1> HIDE DEF r
  <1>6. /\ n \in Nat /\ r.refs = Cardinality(DevicesOf(h, a)) + n
        /\ r.refs > 0 <=> h.adapter[a].refs > 0
    BY <1>2, <1>3, <1>5
  <1> HIDE DEF n
  <1>7. Moved(ea, fs, a, n) BY DEF n
  <1>8. Sound(g, et, ed, fs)
    <2>1. \/ r.dispatcher = h.adapter[a].dispatcher
          \/ {r.dispatcher, h.adapter[a].dispatcher} \subseteq {"none", "poll", "ended"}
      BY <1>5
    <2>2. Sound(SetA(h, a, r), et, ed, fs) BY <1>5, <1>6, <1>7, <2>1, EditAdapter
    <2> QED BY <1>4, <2>2
  <1> DEFINE k == SetA(h, a, r)
  <1>9. /\ k \in HeapRec /\ k.device = h.device /\ k.transport = h.transport /\ k.listed = h.listed
        /\ k.store = h.store /\ k.file = h.file /\ DOMAIN k.adapter = DOMAIN h.adapter
        /\ \A b \in DOMAIN h.adapter : k.adapter[b] = IF b = a THEN r ELSE h.adapter[b]
    BY <1>1, <1>5, SetAIs
  <1>10. g = k BY <1>4
  <1> HIDE DEF k
  <1>11. SameLife(h, k) BY <1>9 DEF SameLife
  <1>12. SameBut(h, g) BY <1>9, <1>10, <1>11 DEF SameBut
  <1> QED BY <1>5, <1>8, <1>9, <1>10, <1>12

\* An adapter that is as much in use as before: its table may lose devices, and
\* its dispatcher hand over what it holds.
LEMMA AdapterTurns ==
  ASSUME NEW h, NEW et \in Counts, NEW ed \in Counts, NEW ea \in Counts, Sound(h, et, ed, ea),
         NEW a \in DOMAIN h.adapter, NEW r \in AdapterRec, NEW ft \in Counts, NEW fd \in Counts,
         r.refs = h.adapter[a].refs,
         \A x \in Address : r.devices[x] \in {None, h.adapter[a].devices[x]},
         NEW g \in HeapRec, AdapterShape(h, g, a, r), g.listed = h.listed,
         Dispatching(g),
         \A t \in DOMAIN h.transport : One(Served(g, t)) + ft[t] = One(Served(h, t)) + et[t],
         \A d \in DOMAIN h.device : One(Looked(g, d)) + fd[d] = One(Looked(h, d)) + ed[d]
  PROVE  Sound(g, ft, fd, ea)
  <1>1. h \in HeapRec /\ ~h.stale BY DEF Sound
  <1>2. /\ DOMAIN g.adapter = DOMAIN h.adapter
        /\ \A b \in DOMAIN h.adapter : g.adapter[b] = IF b = a THEN r ELSE h.adapter[b]
        /\ g.transport = h.transport /\ g.device = h.device /\ g.store = h.store
        /\ g.file = h.file /\ g.stale = h.stale
    BY DEF AdapterShape
  <1>3. \A b \in DOMAIN h.adapter :
          /\ g.adapter[b].refs = h.adapter[b].refs
          /\ \A x \in Address : g.adapter[b].devices[x] \in {None, h.adapter[b].devices[x]}
    BY <1>2
  <1>4. Related(g)
    <2>1. Related(h) BY DEF Sound
    <2> QED BY <2>1, <1>2 DEF Related
  <1>5. Listed(g)
    <2>1. Listed(h) BY DEF Sound
    <2>2. ASSUME NEW b \in DOMAIN h.adapter, NEW x \in Address PROVE Found(g, b, x)
      <3>1. Found(h, b, x) /\ g.device = h.device BY <2>1, <1>2 DEF Listed
      <3>2. g.adapter[b].devices[x] \in {None, h.adapter[b].devices[x]} BY <1>3
      <3> QED BY <3>1, <3>2 DEF Found
    <2> QED BY <2>1, <2>2, <1>2, <1>3 DEF Listed
  <1>6. Threads(g) BY <1>2 DEF Sound, Threads
  <1>7. Filed(g)
    <2>1. Filed(h) BY DEF Sound
    <2> QED BY <2>1, <1>2 DEF Filed
  <1>8. ASSUME NEW u \in DOMAIN g.transport PROVE TransportHeld(g, u, ft[u])
    <2>1. TransportHeld(h, u, et[u]) /\ g.transport[u] = h.transport[u] /\ u \in DOMAIN h.transport
      BY <1>2, <1>8 DEF Sound, Counted
    <2>2. u \in Nat BY <2>1, <1>1, HeapIs
    <2>3. /\ et[u] \in Nat /\ ft[u] \in Nat /\ One(Served(g, u)) \in Nat /\ One(Served(h, u)) \in Nat
      BY <2>2 DEF Counts, One
    <2>4. One(Served(g, u)) + ft[u] = One(Served(h, u)) + et[u] BY <2>1
    <2> DEFINE o == One(h.transport[u].exported \/ h.transport[u].calls > 0) + One(h.transport[u].client)
                    + One(h.transport[u].sco) + One(h.transport[u].thread = "destroying")
    <2>5. o \in Nat BY DEF One
    <2>6. h.transport[u].refs = o + One(Served(h, u)) + et[u] BY <2>1 DEF TransportHeld
    <2> HIDE DEF o
    <2>7. h.transport[u].refs = o + One(Served(g, u)) + ft[u] BY <2>3, <2>4, <2>5, <2>6
    <2> QED BY <2>1, <2>7 DEF TransportHeld, o
  <1>9. \A e : TransportsOf(g, e) = TransportsOf(h, e) BY <1>2 DEF TransportsOf
  <1>10. ASSUME NEW e \in DOMAIN g.device PROVE DeviceHeld(g, e, fd[e])
    <2>1. DeviceHeld(h, e, ed[e]) /\ g.device[e] = h.device[e] /\ e \in DOMAIN h.device
          /\ TransportsOf(g, e) = TransportsOf(h, e)
      BY <1>2, <1>9, <1>10 DEF Sound, Counted
    <2>2. e \in Nat BY <2>1, <1>1, HeapIs
    <2>3. /\ ed[e] \in Nat /\ fd[e] \in Nat /\ One(Looked(g, e)) \in Nat /\ One(Looked(h, e)) \in Nat
      BY <2>2 DEF Counts, One
    <2>4. One(Looked(g, e)) + fd[e] = One(Looked(h, e)) + ed[e] BY <2>1
    <2> DEFINE o == Cardinality(TransportsOf(h, e)) + One(h.device[e].battery)
    <2>5. o \in Nat
      <3>1. Cardinality(TransportsOf(h, e)) \in Nat BY <1>1, Finite
      <3> QED BY <3>1 DEF One
    <2>6. h.device[e].refs = o + One(Looked(h, e)) + ed[e] BY <2>1 DEF DeviceHeld
    <2> HIDE DEF o
    <2>7. h.device[e].refs = o + One(Looked(g, e)) + fd[e] BY <2>3, <2>4, <2>5, <2>6
    <2> QED BY <2>1, <2>7 DEF DeviceHeld, o
  <1>11. \A b : DevicesOf(g, b) = DevicesOf(h, b) BY <1>2 DEF DevicesOf
  <1>12. ASSUME NEW b \in DOMAIN g.adapter PROVE AdapterHeld(g, b, ea[b])
    <2>1. AdapterHeld(h, b, ea[b]) BY <1>2, <1>12 DEF Sound, Counted
    <2> QED BY <2>1, <1>2, <1>3, <1>11, <1>12 DEF AdapterHeld
  <1> QED BY <1>1, <1>2, <1>4, <1>5, <1>6, <1>7, <1>8, <1>10, <1>12 DEF Sound, Counted

\* A device leaves the table of its adapter.
LEMMA Untable ==
  ASSUME NEW h, NEW et \in Counts, NEW ed \in Counts, NEW ea \in Counts, Sound(h, et, ed, ea),
         NEW a \in DOMAIN h.adapter, NEW x \in Address,
         NEW g, g = [h EXCEPT !.adapter[a].devices[x] = None]
  PROVE  /\ Sound(g, et, ed, ea) /\ SameBut(h, g)
         /\ g.transport = h.transport /\ g.device = h.device
  <1> DEFINE p == [h.adapter[a] EXCEPT !.devices = [@ EXCEPT ![x] = None]]
  <1>1. h \in HeapRec /\ Dispatching(h) BY DEF Sound
  <1>2. /\ g = SetA(h, a, p)
        /\ p \in AdapterRec /\ p.refs = h.adapter[a].refs
        /\ p.dispatcher = h.adapter[a].dispatcher /\ p.held = h.adapter[a].held
        /\ \A y \in Address : p.devices[y] = IF y = x THEN None ELSE h.adapter[a].devices[y]
    BY <1>1, LeftTable
  <1> HIDE DEF p
  <1> DEFINE k == SetA(h, a, p)
  <1>3. /\ k \in HeapRec
        /\ DOMAIN k.adapter = DOMAIN h.adapter
        /\ \A b \in DOMAIN h.adapter : k.adapter[b] = IF b = a THEN p ELSE h.adapter[b]
        /\ k.transport = h.transport /\ k.device = h.device
        /\ k.listed = h.listed /\ k.store = h.store
        /\ k.file = h.file /\ k.stale = h.stale
    BY <1>1, <1>2, SetAIs
  <1>4. g = k BY <1>2
  <1> HIDE DEF k
  <1>5. AdapterShape(h, k, a, p) BY <1>3 DEF AdapterShape
  <1>6. ASSUME NEW b \in DOMAIN h.adapter
        PROVE  /\ k.adapter[b].held = h.adapter[b].held
               /\ (Looks(k, b) <=> Looks(h, b)) /\ (Serves(k, b) <=> Serves(h, b))
    BY <1>2, <1>3 DEF Looks, Serves
  <1>7. Dispatching(k)
    <2>1. Dispatching(h) BY DEF Sound
    <2>2. k.transport = h.transport /\ k.device = h.device /\ DOMAIN k.adapter = DOMAIN h.adapter
      BY ONLY <1>3
    <2> QED BY ONLY <2>1, <2>2, <1>6 DEF Dispatching
  <1>8. \A u \in DOMAIN h.transport : Served(k, u) <=> Served(h, u)
    <2>1. ASSUME NEW u \in DOMAIN h.transport
          PROVE  h.device[h.transport[u].device].adapter \in DOMAIN h.adapter
      BY DEF Sound, Related
    <2> QED BY <2>1, <1>3, <1>6 DEF Served
  <1>9. \A e \in DOMAIN h.device : Looked(k, e) <=> Looked(h, e)
    <2>1. ASSUME NEW e \in DOMAIN h.device
          PROVE  h.device[e].adapter \in DOMAIN h.adapter
      BY DEF Sound, Related
    <2> QED BY <2>1, <1>3, <1>6 DEF Looked
  <1>10. /\ \A t \in DOMAIN h.transport : One(Served(k, t)) + et[t] = One(Served(h, t)) + et[t]
         /\ \A d \in DOMAIN h.device : One(Looked(k, d)) + ed[d] = One(Looked(h, d)) + ed[d]
    BY <1>8, <1>9 DEF One
  <1>11. \A y \in Address : p.devices[y] \in {None, h.adapter[a].devices[y]} BY <1>2
  <1>12. Sound(k, et, ed, ea) BY <1>2, <1>3, <1>5, <1>7, <1>10, <1>11, AdapterTurns
  <1>13. SameLife(h, k) BY <1>3 DEF SameLife
  <1> QED BY <1>3, <1>4, <1>12, <1>13 DEF SameBut

\* Main goes to another function, and all links stay as they are.
LEMMA MainGoes ==
  ASSUME Inv, ~heap.stale, bluez' = bluez, SameLife(heap, heap'),
         main' \in Seq(FrameRec), MainShape(heap, main', bluez),
         main' # << >> => main'[1].do # "join",
         Sound(heap', ByMainT(main'), ByMainD(main'), ByMainA(main', bluez))
  PROVE  Inv'
  <1>1. Bluez BY InvIs
  <1>2. MainShape(heap', main', bluez) BY ShapeStays DEF SameLife
  <1>3. Joined' BY DEF Joined
  <1>4. Bluez' BY <1>1 DEF Bluez, SameLife
  <1>5. ~heap'.stale BY DEF Sound
  <1> QED BY <1>2, <1>3, <1>4, <1>5 DEF Inv

\* What main finds in the table of the adapter of BlueZ.
LEMMA InTable ==
  ASSUME NEW h, NEW et \in Counts, NEW ed \in Counts, NEW ea \in Counts, Sound(h, et, ed, ea),
         NEW a \in DOMAIN h.adapter, NEW x \in Address, h.adapter[a].devices[x] # None
  PROVE  LET d == h.adapter[a].devices[x]
         IN /\ d \in DOMAIN h.device /\ d \in Nat /\ h.device[d].refs > 0
            /\ h.device[d].adapter = a /\ h.device[d].addr = x
            /\ h.device[d].transport # None =>
                 LET t == h.device[d].transport
                 IN /\ t \in DOMAIN h.transport /\ t \in Nat /\ h.transport[t].refs > 0
                    /\ h.transport[t].device = d
  <1> DEFINE d == h.adapter[a].devices[x]
  <1>1. Found(h, a, x) /\ h \in HeapRec /\ Related(h) BY DEF Sound, Listed
  <1>2. /\ d \in DOMAIN h.device /\ h.device[d].refs > 0
        /\ h.device[d].adapter = a /\ h.device[d].addr = x
    BY <1>1 DEF Found
  <1> HIDE DEF d
  <1>3. d \in Nat BY <1>1, <1>2, HeapIs
  <1>4. h.device[d].transport # None =>
          /\ h.device[d].transport \in DOMAIN h.transport
          /\ h.transport[h.device[d].transport].refs > 0
          /\ h.transport[h.device[d].transport].device = d
    BY <1>1, <1>2 DEF Related
  <1>5. \A t \in DOMAIN h.transport : t \in Nat BY <1>1, HeapIs
  <1> QED BY <1>2, <1>3, <1>4, <1>5 DEF d

LEMMA BluezIsHeld ==
  ASSUME Inv, ~heap.stale, bluez # None, main = << >>
  PROVE  bluez \in DOMAIN heap.adapter /\ bluez \in Nat /\ heap.adapter[bluez].refs > 0
  <1>1. /\ Sound(heap, ByMainT(main), ByMainD(main), ByMainA(main, bluez)) /\ Bluez
        /\ ByMainT(main) \in Counts /\ ByMainD(main) \in Counts /\ ByMainA(main, bluez) \in Counts
    BY InvIs
  <1>2. bluez \in DOMAIN heap.adapter BY <1>1 DEF Bluez
  <1> DEFINE n == Cardinality(DevicesOf(heap, bluez))
             e == ByMainA(main, bluez)[bluez]
             i == One(InMain(main, {"leaveAdapter"}, bluez))
  <1>3. bluez \in Nat /\ heap.adapter[bluez].refs = n + e /\ n \in Nat /\ e \in Nat
    <2> DEFINE et == ByMainT(main)
               ed == ByMainD(main)
               ea == ByMainA(main, bluez)
    <2>1. Sound(heap, et, ed, ea) /\ et \in Counts /\ ed \in Counts /\ ea \in Counts BY <1>1
    <2> HIDE DEF et, ed, ea
    <2>2. /\ bluez \in Nat /\ heap.adapter[bluez].refs = Cardinality(DevicesOf(heap, bluez)) + ea[bluez]
          /\ Cardinality(DevicesOf(heap, bluez)) \in Nat /\ ea[bluez] \in Nat
      BY <1>2, <2>1, AdapterIsHeld
    <2> QED BY <2>2 DEF ea
  <1>4. e = One(bluez # None /\ bluez = bluez /\ ~(main # << >> /\ main[1].do = "batteries")) + i
    BY <1>3, ByMainIs
  <1>5. e = 1 + i /\ i \in Nat BY <1>4 DEF One
  <1> HIDE DEF n, e, i
  <1> QED BY <1>2, <1>3, <1>5

LEMMA DestroyAdapterKeeps ==
  ASSUME Inv, DestroyAdapter
  PROVE  Inv'
  <1> DEFINE a == main[1].id
             known == {x \in Address : heap.adapter[a].devices[x] # None}
             k == Tail(main)
             et == ByMainT(main)
             ed == ByMainD(main)
             ea == ByMainA(main, bluez)
  <1>1. /\ In("adapter") /\ bluez' = bluez /\ crossed' = crossed
        /\ \/ heap' = AdapterUnref(heap, a, Main) /\ main' = k
           \/ \E x \in known :
                /\ heap' = [heap EXCEPT !.device[heap.adapter[a].devices[x]].refs = @ + 1,
                                        !.adapter[a].devices[x] = None]
                /\ main' = <<Frame("device", heap.adapter[a].devices[x])>> \o main
    BY DEF DestroyAdapter, Return, Top
  <1>2. /\ ~heap.stale /\ main # << >> /\ main[1].do = "adapter" /\ a \in Nat
        /\ main \in Seq(FrameRec) /\ Shape(heap, main, bluez)
    <2>1. In("adapter") BY <1>1
    <2> HIDE DEF known
    <2> QED BY <2>1, MainIn DEF OfTransport
  <1>3. /\ Sound(heap, et, ed, ea) /\ Bluez
        /\ et \in Counts /\ ed \in Counts /\ ea \in Counts
    BY <1>2, InvIs
  <1>4. a = bluez /\ bluez # None BY <1>2, Below
  <1>5. a \in DOMAIN heap.adapter BY <1>3, <1>4 DEF Bluez
  <1>6. CASE heap' = AdapterUnref(heap, a, Main) /\ main' = k
    <2>1. /\ Shape(heap, k, bluez) /\ ByMainT(k) = et /\ ByMainD(k) = ed
          /\ ea[a] > 0
          /\ Moved(ea, ByMainA(k, bluez), a, ea[a] - 1)
      BY <1>2, PopAdapter
    <2>2. ByMainA(k, bluez) \in Counts BY ByMainIs
    <2>3. Sound(heap', et, ed, ByMainA(k, bluez)) /\ SameLife(heap, heap')
      BY <1>3, <1>5, <1>6, <2>1, <2>2, WhoIs, UnrefAdapter
    <2> QED BY <1>1, <1>2, <1>6, <2>1, <2>3, Returns
  <1>7. ASSUME NEW x \in known,
               heap' = [heap EXCEPT !.device[heap.adapter[a].devices[x]].refs = @ + 1,
                                    !.adapter[a].devices[x] = None],
               main' = <<Frame("device", heap.adapter[a].devices[x])>> \o main
        PROVE  Inv'
    <2> DEFINE d == heap.adapter[a].devices[x]
               h == [heap EXCEPT !.device[d].refs = @ + 1]
    <2>1. x \in Address /\ d # None OBVIOUS
    <2>2. d \in DOMAIN heap.device /\ d \in Nat /\ heap.device[d].refs > 0
      BY <1>3, <1>5, <2>1, InTable
    <2>3. heap' = [h EXCEPT !.adapter[a].devices[x] = None]
      BY <1>7
    <2>4. Pushes(main', Frame("device", d), main) BY <1>7 DEF Pushes
    <2> HIDE DEF known, d
    <2>5. /\ main' \in Seq(FrameRec) /\ Shape(heap, main', bluez) /\ main' # << >> /\ main'[1].do = "device"
          /\ ByMainT(main') = et /\ ByMainA(main', bluez) = ea
          /\ Moved(ed, ByMainD(main'), d, ed[d] + 1)
      BY <1>2, <2>2, <2>4, PushDevice
    <2>6. ByMainD(main') \in Counts BY ByMainIs
    <2>d. TakesD(h, heap, d) BY DEF TakesD
    <2> HIDE DEF et, ed, ea, h
    <2>7. /\ Sound(h, et, ByMainD(main'), ea) /\ SameBut(heap, h)
          /\ h.adapter = heap.adapter
      <3>1. LiveD(heap, d) /\ Gains(ed, ByMainD(main'), d) BY <2>2, <2>5 DEF LiveD, Gains
      <3> QED BY <1>3, <2>6, <2>d, <3>1, TakeDevice
    <2>8. a \in DOMAIN h.adapter BY <1>5, <2>7
    <2>9. Sound(heap', et, ByMainD(main'), ea) /\ SameBut(h, heap')
      <3> DEFINE fd == ByMainD(main')
                 g == heap'
      <3>1. Sound(h, et, fd, ea) /\ fd \in Counts /\ et \in Counts /\ ea \in Counts
            /\ g = [h EXCEPT !.adapter[a].devices[x] = None]
        BY <1>3, <2>3, <2>6, <2>7
      <3> HIDE DEF a, fd, g
      <3>2. Sound(g, et, fd, ea) /\ SameBut(h, g)
        BY <2>1, <2>8, <3>1, Untable
      <3> QED BY <3>2 DEF fd, g
    <2>10. SameLife(heap, heap') BY <2>7, <2>9, SameLifeTrans DEF SameBut
    <2>11. MainShape(heap, main', bluez) BY <2>5 DEF MainShape
    <2> QED BY <1>1, <1>2, <2>5, <2>9, <2>10, <2>11, MainGoes DEF et, ea
  <1> QED BY <1>1, <1>6, <1>7

LEMMA DestroyDeviceKeeps ==
  ASSUME Inv, DestroyDevice
  PROVE  Inv'
  <1> DEFINE d == main[1].id
             t == heap.device[d].transport
             k == Tail(main)
             et == ByMainT(main)
             ed == ByMainD(main)
             ea == ByMainA(main, bluez)
  <1>1. /\ In("device") /\ bluez' = bluez /\ crossed' = crossed
        /\ \/ heap' = DeviceUnref(heap, d, Main) /\ main' = k
           \/ /\ t # None
              /\ heap' = [heap EXCEPT !.transport[t].refs = @ + 1, !.device[d].transport = None]
              /\ main' = <<Frame("unregister", t)>> \o main
    BY DEF DestroyDevice, Return, Top
  <1>2. /\ ~heap.stale /\ main # << >> /\ main[1].do = "device" /\ d \in Nat
        /\ main \in Seq(FrameRec) /\ Shape(heap, main, bluez)
    <2>1. /\ ~heap.stale /\ main # << >> /\ main[1].do = "device" /\ d \in Nat
      BY <1>1, MainIn
    <2>2. main \in Seq(FrameRec) /\ MainShape(heap, main, bluez) BY <2>1 DEF Inv
    <2>3. ~OnTransport(heap, main) BY ONLY <2>1 DEF OnTransport, OfTransport
    <2> QED BY ONLY <2>1, <2>2, <2>3 DEF MainShape
  <1>3. /\ Sound(heap, et, ed, ea) /\ et \in Counts /\ ed \in Counts /\ ea \in Counts
        /\ heap \in HeapRec
    BY <1>2, InvIs
  <1>d. main[1].do \in OfDevice BY <1>2 DEF OfDevice
  <1>4. /\ Shape(heap, k, bluez) /\ d \in DOMAIN heap.device
        /\ ByMainT(k) = et /\ ByMainA(k, bluez) = ea /\ ed[d] > 0
        /\ Moved(ed, ByMainD(k), d, ed[d] - 1)
    BY <1>2, <1>d, PopDevice
  <1>6. CASE heap' = DeviceUnref(heap, d, Main) /\ main' = k
    <2>2. ByMainD(k) \in Counts BY ByMainIs
    <2>3. Sound(heap', et, ByMainD(k), ea) /\ SameLife(heap, heap')
      BY <1>3, <1>4, <1>6, <2>2, WhoIs, UnrefDevice
    <2> QED BY <1>1, <1>2, <1>4, <1>6, <2>3, Returns
  <1>7. CASE /\ t # None
             /\ heap' = [heap EXCEPT !.transport[t].refs = @ + 1, !.device[d].transport = None]
             /\ main' = <<Frame("unregister", t)>> \o main
    <2> DEFINE h == [heap EXCEPT !.transport[t].refs = @ + 1]
               q == [h.device[d] EXCEPT !.transport = None]
    <2>1. t \in DOMAIN heap.transport /\ heap.transport[t].refs > 0
      <3>1. Related(heap) BY <1>3 DEF Sound
      <3> QED BY <3>1, <1>4, <1>7 DEF Related
    <2>2. t \in Nat BY <1>3, <2>1, HeapIs
    <2>3. heap' = [h EXCEPT !.device[d].transport = None] BY <1>7
    <2>4. Pushes(main', Frame("unregister", t), main) BY <1>7 DEF Pushes
    <2> HIDE DEF t, d
    <2>5. Frame("unregister", t) \in FrameRec BY <2>2, FrameIs DEF Doing, OfTransport
    <2>6. main' \in Seq(FrameRec) /\ main' # << >> /\ main'[1] = Frame("unregister", t) /\ Tail(main') = main
      BY <1>2, <2>4, <2>5, Pushed
    <2>7. /\ MainShape(heap, main', bluez) /\ main'[1].do = "unregister"
          /\ ByMainD(main') = ed /\ ByMainA(main', bluez) = ea
          /\ Moved(et, ByMainT(main'), t, et[t] + 1)
      BY <1>2, <2>1, <2>2, <2>6, PushTransport
    <2>8. ByMainT(main') \in Counts BY ByMainIs
    <2>t. TakesT(h, heap, t) BY DEF TakesT
    <2> HIDE DEF et, ed, ea, h
    <2>9. /\ Sound(h, ByMainT(main'), ed, ea) /\ SameBut(heap, h) /\ h.device = heap.device
      BY <1>3, <2>1, <2>7, <2>8, <2>t, TakeTransport
    <2>10. h \in HeapRec /\ d \in DOMAIN h.device BY <1>4, <2>9 DEF SameBut
    <2>11. /\ h.device[d] \in DeviceRec /\ d \in Nat
           /\ h.device[d].refs = Cardinality(TransportsOf(h, d)) + One(h.device[d].battery)
                                 + One(Looked(h, d)) + ed[d]
           /\ ed[d] \in Nat
      BY <1>3, <2>8, <2>9, <2>10, DeviceIsHeld
    <2>12. heap' = SetD(h, d, q) BY <2>3, <2>10, <2>11 DEF SetD, HeapRec, DeviceRec
    <2>13. /\ q \in DeviceRec /\ q.refs = h.device[d].refs /\ q.adapter = h.device[d].adapter
           /\ q.addr = h.device[d].addr /\ q.transport = None /\ q.battery = h.device[d].battery
      BY <2>11 DEF DeviceRec, None
    <2> HIDE DEF q
    <2>14. /\ q.refs = Cardinality(TransportsOf(h, d)) + One(q.battery) + One(Looked(h, d)) + ed[d]
           /\ (q.refs > 0 <=> h.device[d].refs > 0) /\ q.transport \in {None, h.device[d].transport}
      BY <2>11, <2>13
    <2>15. Moved(ed, ed, d, ed[d]) BY DEF Moved
    <2>16. Sound(heap', ByMainT(main'), ed, ea)
      BY <1>3, <2>8, <2>9, <2>10, <2>11, <2>12, <2>13, <2>14, <2>15, EditDevice
    <2>17. SameLife(h, heap') BY <2>10, <2>12, <2>13, SetDIs DEF SameLife
    <2>18. SameLife(heap, heap') BY <2>9, <2>17, SameLifeTrans DEF SameBut
    <2> QED BY <1>1, <1>2, <2>6, <2>7, <2>16, <2>18, MainGoes DEF ed, ea
  <1> QED BY <1>1, <1>6, <1>7

LEMMA DropBatteriesKeeps ==
  ASSUME Inv, DropBatteries
  PROVE  Inv'
  <1> DEFINE charged == {d \in Devices : heap.device[d].battery}
             k == Tail(main)
             et == ByMainT(main)
             ed == ByMainD(main)
             ea == ByMainA(main, bluez)
  <1>0. In("batteries") BY DEF DropBatteries
  <1>1. /\ crossed' = crossed
        /\ \/ charged = {} /\ bluez' = None /\ main' = k /\ heap' = heap
           \/ /\ \E d \in charged : heap' = DeviceUnref([heap EXCEPT !.device[d].battery = FALSE], d, Main)
              /\ bluez' = bluez /\ main' = main
    BY DEF DropBatteries, Return
  <1>2. /\ ~heap.stale /\ main # << >> /\ main[1].do = "batteries"
        /\ main \in Seq(FrameRec) /\ Shape(heap, main, bluez)
    BY <1>0, MainIn DEF OfTransport
  <1>3. /\ Sound(heap, et, ed, ea) /\ et \in Counts /\ ed \in Counts /\ ea \in Counts
        /\ heap \in HeapRec
    BY <1>2, InvIs
  <1>4. ASSUME charged = {}, bluez' = None, main' = k, heap' = heap PROVE Inv'
    <2>1. k = << >> BY <1>2, Below
    <2>0. \A dos, id : ~InMain(<< >>, dos, id) BY DEF InMain
    <2> HIDE DEF charged
    <2>2. \A dos, id : InMain(main, dos, id) => main[1].do \in dos
      <3>1. \A dos, id : InMain(main, dos, id) => main[1].do \in dos \/ InMain(k, dos, id)
        BY <1>2, InTail
      <3> HIDE DEF k
      <3> QED BY <3>1, <2>0, <2>1
    <2>3. ByMainT(k) = et
      <3>1. \A id \in Nat : InMain(main, OfTransport, id) <=> InMain(<< >>, OfTransport, id)
        BY <1>2, <2>0, <2>2 DEF OfTransport
      <3> QED BY <2>1, <3>1, SameHeld
    <2>4. ByMainD(k) = ed
      <3>1. \A id \in Nat : InMain(main, OfDevice, id) <=> InMain(<< >>, OfDevice, id)
        BY <1>2, <2>0, <2>2 DEF OfDevice
      <3> QED BY <2>1, <3>1, SameHeld
    <2>5. ByMainA(k, None) = ea
      <3>1. \A i \in Nat : One(InMain(main, {"leaveAdapter"}, i)) = 0 /\ One(InMain(<< >>, {"leaveAdapter"}, i)) = 0
        BY <1>2, <2>0, <2>2 DEF One
      <3>2. \A i \in Nat : /\ One(bluez # None /\ bluez = i /\ ~(main # << >> /\ main[1].do = "batteries")) = 0
                           /\ One(None # None /\ None = i /\ ~(<< >> # << >> /\ << >>[1].do = "batteries")) = 0
        BY <1>2 DEF One
      <3>3. \A i \in Nat : ByMainA(main, bluez)[i] = 0 /\ ByMainA(<< >>, None)[i] = 0
        BY <3>1, <3>2, ByMainIs
      <3>4. ByMainA(main, bluez) \in Counts /\ ByMainA(<< >>, None) \in Counts BY ByMainIs
      <3> QED BY <2>1, <3>3, <3>4, SameCounts
    <2>6. Sound(heap', ByMainT(main'), ByMainD(main'), ByMainA(main', bluez'))
      BY <1>3, <1>4, <2>3, <2>4, <2>5
    <2>7. main' = << >> BY <1>4, <2>1
    <2>9. main' \in Seq(FrameRec) /\ MainShape(heap', main', bluez') /\ Joined'
      <3>0. << >> \in Seq(FrameRec) OBVIOUS
      <3>1. main' \in Seq(FrameRec) BY <2>7, <3>0
      <3>2. MainShape(heap', main', bluez') BY <2>7 DEF MainShape, Shape
      <3>3. Joined' BY <2>7 DEF Joined
      <3> QED BY <3>1, <3>2, <3>3
    <2>8. Bluez' BY <1>4 DEF Bluez, Devices, charged
    <2> QED BY <1>2, <1>4, <2>6, <2>9, <2>8 DEF Inv
  <1>5. ASSUME NEW d \in charged, heap' = DeviceUnref([heap EXCEPT !.device[d].battery = FALSE], d, Main),
               bluez' = bluez, main' = main
        PROVE  Inv'
    <2>1. d \in DOMAIN heap.device /\ heap.device[d].battery BY DEF Devices
    <2>2. heap' = BatteryGone(heap, d, Main) BY <1>5, <2>1 DEF BatteryGone
    <2> HIDE DEF charged, et, ed, ea
    <2>3. Sound(heap', et, ed, ea) /\ SameLife(heap, heap') BY <1>3, <2>1, <2>2, WhoIs, BatteryGoes
    <2> QED BY <1>1, <1>2, <1>5, <2>3, Stays DEF et, ed, ea
  <1> QED BY <1>1, <1>4, <1>5

LEMMA AdapterRemovedKeeps ==
  ASSUME Inv, AdapterRemoved
  PROVE  Inv'
  <1>1. /\ ~heap.stale /\ main = << >> /\ bluez # None /\ heap' = heap /\ bluez' = bluez /\ crossed' = crossed
        /\ main' = <<Frame("adapter", bluez), Frame("batteries", bluez)>>
    BY DEF AdapterRemoved, Idle, Runs
  <1>2. /\ Sound(heap, ByMainT(main), ByMainD(main), ByMainA(main, bluez)) /\ Bluez
    BY <1>1, InvIs
  <1>3. bluez \in Nat BY <1>1, BluezIsHeld
  <1>4. /\ main' \in Seq(FrameRec) /\ MainShape(heap, main', bluez) /\ main' # << >> /\ main'[1].do = "adapter"
        /\ ByMainT(main') = ByMainT(main) /\ ByMainD(main') = ByMainD(main)
        /\ ByMainA(main', bluez) = ByMainA(main, bluez)
    BY <1>1, <1>3, PushRemoval
  <1>5. SameLife(heap, heap') BY <1>1 DEF SameLife
  <1>6. Sound(heap', ByMainT(main'), ByMainD(main'), ByMainA(main', bluez)) BY <1>1, <1>2, <1>4
  <1> QED BY <1>1, <1>4, <1>5, <1>6, MainGoes

\* An edit of an adapter that changes nobody's reference.
LEMMA AdapterInPlace ==
  ASSUME Inv, ~heap.stale, NEW a \in DOMAIN heap.adapter, NEW r \in AdapterRec,
         main' = main, bluez' = bluez, crossed' = crossed, heap' = SetA(heap, a, r),
         r.devices = heap.adapter[a].devices, r.held = heap.adapter[a].held,
         \/ r.dispatcher = heap.adapter[a].dispatcher
         \/ {r.dispatcher, heap.adapter[a].dispatcher} \subseteq {"none", "poll", "ended"},
         r.refs = heap.adapter[a].refs
  PROVE  Inv'
  <1> DEFINE et == ByMainT(main)
             ed == ByMainD(main)
             ea == ByMainA(main, bluez)
  <1>1. /\ Sound(heap, et, ed, ea) /\ et \in Counts /\ ed \in Counts /\ ea \in Counts
        /\ heap \in HeapRec
    BY InvIs
  <1> HIDE DEF et, ed, ea
  <1>2. /\ heap.adapter[a] \in AdapterRec /\ a \in Nat
        /\ heap.adapter[a].refs = Cardinality(DevicesOf(heap, a)) + ea[a] /\ ea[a] \in Nat
    BY <1>1, AdapterIsHeld
  <1>3. r.refs > 0 <=> heap.adapter[a].refs > 0 BY <1>2 DEF AdapterRec
  <1>4. Moved(ea, ea, a, ea[a]) BY DEF Moved
  <1>5. r.refs = Cardinality(DevicesOf(heap, a)) + ea[a] BY <1>2
  <1>6. Sound(heap', et, ed, ea) BY <1>1, <1>2, <1>3, <1>4, <1>5, EditAdapter
  <1>7. SameLife(heap, heap') BY <1>1, SetAIs DEF SameLife
  <1> QED BY <1>6, <1>7, Stays DEF et, ed, ea

LEMMA DispatcherJoinedKeeps ==
  ASSUME Inv, NEW a \in Adapters, DispatcherJoined(a)
  PROVE  Inv'
  <1> DEFINE r == [heap.adapter[a] EXCEPT !.reaper = Freed]
  <1>1. /\ ~heap.stale /\ main' = main /\ bluez' = bluez /\ crossed' = crossed
        /\ heap' = [heap EXCEPT !.adapter[a].reaper = Freed] /\ a \in DOMAIN heap.adapter
    BY DEF DispatcherJoined, Adapters
  <1>2. heap \in HeapRec BY <1>1, InvIs
  <1>3. heap.adapter[a] \in AdapterRec BY <1>1, <1>2, HeapIs
  <1>4. heap' = SetA(heap, a, r) BY <1>1, <1>2, <1>3 DEF SetA, HeapRec, AdapterRec
  <1>5. /\ r \in AdapterRec /\ r.devices = heap.adapter[a].devices /\ r.held = heap.adapter[a].held
        /\ r.dispatcher = heap.adapter[a].dispatcher /\ r.refs = heap.adapter[a].refs
    BY <1>3, FreedIsWho DEF AdapterRec
  <1> HIDE DEF r
  <1> QED BY <1>1, <1>4, <1>5, AdapterInPlace

LEMMA DispatcherEndsKeeps ==
  ASSUME Inv, NEW a \in Adapters, DispatcherEnds(a)
  PROVE  Inv'
  <1> DEFINE r == [heap.adapter[a] EXCEPT !.dispatcher = "ended"]
  <1>1. /\ ~heap.stale /\ main' = main /\ bluez' = bluez /\ crossed' = crossed
        /\ heap' = [heap EXCEPT !.adapter[a].dispatcher = "ended"] /\ a \in DOMAIN heap.adapter
        /\ heap.adapter[a].dispatcher = "poll"
    BY DEF DispatcherEnds, DispatcherGoes, Runs, Adapters
  <1>2. heap \in HeapRec BY <1>1, InvIs
  <1>3. heap.adapter[a] \in AdapterRec BY <1>1, <1>2, HeapIs
  <1>4. heap' = SetA(heap, a, r) BY <1>1, <1>2, <1>3 DEF SetA, HeapRec, AdapterRec
  <1>5. /\ r \in AdapterRec /\ r.devices = heap.adapter[a].devices /\ r.held = heap.adapter[a].held
        /\ r.dispatcher = "ended" /\ r.refs = heap.adapter[a].refs
    BY <1>3 DEF AdapterRec
  <1> HIDE DEF r
  <1>6. {r.dispatcher, heap.adapter[a].dispatcher} \subseteq {"none", "poll", "ended"}
    BY <1>1, <1>5
  <1> QED BY <1>1, <1>4, <1>5, <1>6, AdapterInPlace

LEMMA RequestDisconnectionKeeps ==
  ASSUME Inv, NEW x \in Address, RequestDisconnection(x)
  PROVE  Inv'
  <1> DEFINE a == bluez
             d == heap.adapter[a].devices[x]
             t == heap.device[d].transport
             et == ByMainT(main)
             ed == ByMainD(main)
             ea == ByMainA(main, bluez)
             ft == ByMainT(main')
             fd == ByMainD(main')
             fa == ByMainA(main', bluez)
             h == [heap EXCEPT !.adapter[a].refs = @ + 1]
             i == [h EXCEPT !.device[d].refs = @ + 1]
             j == [i EXCEPT !.transport[t].refs = @ + 1]
             r == [j.transport[t] EXCEPT !.hup = TRUE]
  <1>1. /\ ~heap.stale /\ main = << >> /\ bluez # None /\ bluez' = bluez /\ crossed' = crossed
        /\ d # None /\ t # None
        /\ heap' = [heap EXCEPT !.adapter[a].refs = @ + 1, !.device[d].refs = @ + 1,
                                !.transport[t].refs = @ + 1, !.transport[t].hup = TRUE]
        /\ main' = <<Frame("unregister", t), Frame("leaveAdapter", a), Frame("leaveDevice", d)>>
    BY DEF RequestDisconnection, Idle, Runs
  <1>2. heap' = [j EXCEPT !.transport[t].hup = TRUE] BY <1>1, ZenonT(40)
  <1>3. /\ Sound(heap, et, ed, ea) /\ et \in Counts /\ ed \in Counts /\ ea \in Counts
    BY <1>1, InvIs
  <1>4. a \in DOMAIN heap.adapter /\ a \in Nat /\ heap.adapter[a].refs > 0 BY <1>1, BluezIsHeld
  <1> HIDE DEF a, et, ed, ea
  <1>5. /\ d \in DOMAIN heap.device /\ d \in Nat /\ heap.device[d].refs > 0
        /\ t \in DOMAIN heap.transport /\ t \in Nat /\ heap.transport[t].refs > 0
    BY <1>1, <1>3, <1>4, InTable
  <1> HIDE DEF d, t
  <1>6. /\ main' \in Seq(FrameRec) /\ MainShape(heap, main', bluez) /\ main' # << >> /\ main'[1].do = "unregister"
        /\ Moved(et, ft, t, et[t] + 1) /\ Moved(ed, fd, d, ed[d] + 1) /\ Moved(ea, fa, a, ea[a] + 1)
    BY <1>1, <1>4, <1>5, PushDisconnection DEF et, ed, ea
  <1>7. ft \in Counts /\ fd \in Counts /\ fa \in Counts BY ByMainIs
  <1> HIDE DEF ft, fd, fa
  <1>h. TakesA(h, heap, a) BY DEF TakesA
  <1>i. TakesD(i, h, d) BY DEF TakesD
  <1>j. TakesT(j, i, t) BY DEF TakesT
  <1> HIDE DEF h, i, j
  <1>8. /\ Sound(h, et, ed, fa) /\ SameBut(heap, h) /\ h.device = heap.device /\ h.transport = heap.transport
    BY <1>3, <1>4, <1>6, <1>7, <1>h, TakeAdapter
  <1>9. d \in DOMAIN h.device /\ h.device[d].refs > 0 BY <1>5, <1>8
  <1>10. /\ Sound(i, et, fd, fa) /\ SameBut(h, i) /\ i.transport = h.transport
    <2>1. et \in Counts /\ ed \in Counts /\ fa \in Counts /\ fd \in Counts BY <1>3, <1>7
    <2>2. Moved(ed, fd, d, ed[d] + 1) BY <1>6
    <2>3. Sound(h, et, ed, fa) BY <1>8
    <2>4. LiveD(h, d) /\ Gains(ed, fd, d) BY <1>9, <2>2 DEF LiveD, Gains
    <2> QED BY ONLY <2>1, <2>3, <2>4, <1>i, TakeDevice
  <1>11. t \in DOMAIN i.transport /\ i.transport[t].refs > 0 BY <1>5, <1>8, <1>10
  <1>12. Sound(j, ft, fd, fa) /\ SameBut(i, j)
    BY <1>3, <1>6, <1>7, <1>10, <1>11, <1>j, TakeTransport
  <1>13. t \in DOMAIN j.transport /\ j \in HeapRec BY <1>11, <1>12 DEF SameBut, SameLife
  <1>14. j.transport[t] \in TransportRec /\ ThreadOk(j.transport[t])
    BY <1>7, <1>12, <1>13, TransportIsHeld
  <1>15. heap' = SetT(j, t, r) BY <1>2, <1>13, <1>14 DEF SetT, HeapRec, TransportRec
  <1>16. /\ r \in TransportRec /\ r.device = j.transport[t].device /\ r.refs = j.transport[t].refs
         /\ r.freer = j.transport[t].freer
         /\ r.quirk = j.transport[t].quirk /\ r.thread = j.transport[t].thread
         /\ r.freed = j.transport[t].freed /\ r.exported = j.transport[t].exported
    BY <1>14 DEF TransportRec
  <1>17. ThreadOk(r) /\ Own(r) = Own(j.transport[t])
    BY <1>14 DEF TransportRec, ThreadOk, Own
  <1> HIDE DEF r
  <1>18. /\ r.refs > 0 <=> j.transport[t].refs > 0
         /\ r.freer # NoOne <=> j.transport[t].freer # NoOne
         /\ r.refs + Own(j.transport[t]) = j.transport[t].refs + Own(r)
    BY <1>16, <1>17
  <1>19. Sound(heap', ft, fd, fa)
    BY <1>7, <1>12, <1>13, <1>15, <1>16, <1>17, <1>18, EditInPlace
  <1>20. SameLife(j, heap') BY <1>13, <1>15, <1>16, SameLifeOfT
  <1>21. SameLife(heap, heap')
    <2>1. SameLife(heap, i) BY <1>8, <1>10, SameLifeTrans DEF SameBut
    <2>2. SameLife(i, heap') BY <1>12, <1>20, SameLifeTrans DEF SameBut
    <2> QED BY <2>1, <2>2, SameLifeTrans
  <1> QED BY <1>1, <1>6, <1>19, <1>21, MainGoes DEF ft, fd, fa

FreerShape(h, g, t, r, d) ==
  /\ d = h.transport[t].device /\ h.transport[t].freer # NoOne
  /\ r = [h.transport[t] EXCEPT !.freer = NoOne]
  /\ g.store = [h.store EXCEPT ![h.device[h.transport[t].device].addr] = h.transport[t].volume]
  /\ DOMAIN g.transport = DOMAIN h.transport
  /\ \A u \in DOMAIN h.transport : g.transport[u] = IF u = t THEN r ELSE h.transport[u]
  /\ g.device = h.device /\ g.adapter = h.adapter /\ g.listed = h.listed /\ g.stale = h.stale

\* The volume of a transport that is gone is stored, and its device given back.
LEMMA FreerGoes ==
  ASSUME NEW h, NEW et \in Counts, NEW ed \in Counts, NEW ea \in Counts, Sound(h, et, ed, ea),
         NEW t \in DOMAIN h.transport, NEW fs \in Counts, NEW d, Moved(ed, fs, d, ed[d] + 1),
         NEW r \in TransportRec, NEW g \in HeapRec, FreerShape(h, g, t, r, d)
  PROVE  /\ Sound(g, et, fs, ea) /\ SameLife(h, g) /\ d \in DOMAIN g.device
  <1>c. d = h.transport[t].device /\ h.transport[t].freer # NoOne BY DEF FreerShape
  <1>1. /\ h \in HeapRec /\ ~h.stale /\ Related(h) /\ Listed(h) /\ Dispatching(h) /\ Filed(h)
    BY DEF Sound
  <1>2. /\ h.transport[t] \in TransportRec /\ ThreadOk(h.transport[t]) /\ d \in DOMAIN h.device
        /\ t \in Nat
    BY <1>c, TransportIsHeld
  <1>b. /\ r = [h.transport[t] EXCEPT !.freer = NoOne]
        /\ g.store = [h.store EXCEPT ![h.device[d].addr] = h.transport[t].volume]
    BY DEF FreerShape
  <1>a. /\ DOMAIN g.transport = DOMAIN h.transport
        /\ \A u \in DOMAIN h.transport : g.transport[u] = IF u = t THEN r ELSE h.transport[u]
        /\ g.device = h.device /\ g.adapter = h.adapter /\ g.listed = h.listed /\ g.stale = h.stale
    BY DEF FreerShape
  <1>3. /\ r.device = d /\ r.refs = h.transport[t].refs /\ r.freer = NoOne
        /\ r.quirk = h.transport[t].quirk /\ r.thread = h.transport[t].thread
        /\ r.freed = h.transport[t].freed /\ r.exported = h.transport[t].exported
        /\ r.calls = h.transport[t].calls /\ r.client = h.transport[t].client
        /\ r.sco = h.transport[t].sco /\ r.rfcomm = h.transport[t].rfcomm
    BY <1>b, <1>c, <1>2 DEF TransportRec
  <1>4. h.transport[t].refs = 0 /\ r.refs = 0 BY <1>a, <1>c, <1>2, <1>3 DEF ThreadOk
  <1>5. Kept(h.transport[t]) /\ ~Kept(r) BY <1>a, <1>c, <1>3, <1>4 DEF Kept
  <1>6. h.device[d].refs > 0 BY <1>a, <1>c, <1>5, DeviceLives
  <1>7. Related(g)
    <2>1. \A u \in DOMAIN h.transport : g.transport[u].device = h.transport[u].device
                                        /\ g.transport[u].refs = h.transport[u].refs
      BY <1>a, <1>c, <1>3
    <2>2. /\ DOMAIN g.transport = DOMAIN h.transport /\ g.device = h.device
          /\ g.adapter = h.adapter
      BY <1>a
    <2> QED BY ONLY <2>1, <2>2, <1>1 DEF Related
  <1>8. Listed(g)
    <2>1. ASSUME NEW b \in DOMAIN h.adapter, NEW x \in Address PROVE Found(g, b, x)
      <3>1. Found(h, b, x) BY <1>a, <1>c, <1>1 DEF Listed
      <3> QED BY <1>a, <1>c, <3>1 DEF Found
    <2> QED BY <1>a, <1>c, <2>1, <1>1 DEF Listed
  <1>9. \A b : (Looks(g, b) <=> Looks(h, b)) /\ (Serves(g, b) <=> Serves(h, b))
    BY <1>a DEF Looks, Serves
  <1>10. Dispatching(g)
    <2>1. \A u \in DOMAIN h.transport : g.transport[u].device = h.transport[u].device
      BY <1>a, <1>c, <1>3
    <2>2. ASSUME NEW b \in DOMAIN h.adapter, Serves(h, b)
          PROVE  /\ h.adapter[b].held[2] \in DOMAIN h.transport
                 /\ h.transport[h.adapter[b].held[2]].device = h.adapter[b].held[1]
      BY <1>a, <1>c, <1>1, <2>2 DEF Dispatching
    <2>3. ASSUME NEW b \in DOMAIN h.adapter, Looks(h, b)
          PROVE  /\ h.adapter[b].held # << >>
                 /\ h.adapter[b].held[1] \in DOMAIN h.device
                 /\ h.device[h.adapter[b].held[1]].adapter = b
      BY <1>a, <1>c, <1>1, <2>3 DEF Dispatching
    <2>4. ASSUME NEW b \in DOMAIN h.adapter, Serves(g, b)
          PROVE  /\ h.adapter[b].held[2] \in DOMAIN h.transport
                 /\ g.transport[h.adapter[b].held[2]].device = h.adapter[b].held[1]
      BY <1>a, <1>c, <1>9, <2>1, <2>2, <2>4
    <2>5. DOMAIN g.adapter = DOMAIN h.adapter /\ DOMAIN g.device = DOMAIN h.device BY <1>a
    <2> QED BY <1>a, <1>c, <2>3, <2>4, <2>5, <1>9 DEF Dispatching
  <1>11. Threads(g)
    <2>1. ASSUME NEW u \in DOMAIN h.transport PROVE ThreadOk(g.transport[u])
      <3>1. ThreadOk(h.transport[u]) BY TransportIsHeld
      <3>2. CASE u = t BY <1>a, <1>c, <3>2, <1>2, <1>3 DEF ThreadOk
      <3>3. CASE u # t BY <1>a, <1>c, <3>1, <3>3
      <3> QED BY <1>a, <1>c, <3>2, <3>3
    <2> QED BY <1>a, <1>c, <2>1 DEF Threads, ThreadOk
  <1>12. Filed(g)
    <2>1. ASSUME NEW x \in Address, g.store[x] # NoEntry
          PROVE  \E e \in DOMAIN h.device : h.device[e].addr = x /\ h.device[e].refs > 0
      <3>1. CASE x = h.device[d].addr BY <1>a, <1>c, <1>b, <3>1, <1>2, <1>6
      <3>2. CASE x # h.device[d].addr
        <4>1. g.store[x] = h.store[x] BY <1>b, <1>c, <3>2, <1>1 DEF HeapRec
        <4> QED BY <1>a, <1>c, <4>1, <2>1, <1>1 DEF Filed
      <3> QED BY <1>a, <1>c, <3>1, <3>2
    <2> QED BY <1>a, <1>c, <2>1 DEF Filed
  <1>13. \A u \in DOMAIN h.transport : Served(g, u) <=> Served(h, u)
    <2>1. \A u \in DOMAIN h.transport : g.transport[u].device = h.transport[u].device
      BY <1>a, <1>c, <1>3
    <2> QED BY <1>a, <1>c, <2>1, <1>9 DEF Served
  <1>14. ASSUME NEW u \in DOMAIN g.transport PROVE TransportHeld(g, u, et[u])
    <2>1. TransportHeld(h, u, et[u]) BY <1>a, <1>c, <1>14 DEF Sound, Counted
    <2>2. CASE u = t
      <3>1. g.transport[u] = r BY <1>a, <1>c, <2>2
      <3> QED BY <1>a, <1>c, <3>1, <2>1, <2>2, <1>3, <1>13 DEF TransportHeld, One
    <2>3. CASE u # t
      <3>1. g.transport[u] = h.transport[u] BY <1>a, <1>c, <2>3
      <3> QED BY <1>a, <1>c, <3>1, <2>1, <1>13 DEF TransportHeld, One
    <2> QED BY <1>a, <1>c, <2>2, <2>3
  <1>15. \A e : TransportsOf(g, e) = TransportsOf(h, e) \ {t}
    <2>1. \A u \in DOMAIN h.transport : Kept(g.transport[u]) <=> Kept(h.transport[u]) /\ u # t
      BY <1>a, <1>c, <1>5
    <2>2. \A u \in DOMAIN h.transport : g.transport[u].device = h.transport[u].device
      BY <1>a, <1>c, <1>3
    <2> QED BY <1>a, <1>c, <2>1, <2>2 DEF TransportsOf
  <1>16. \A e \in DOMAIN h.device : Looked(g, e) <=> Looked(h, e)
    BY <1>a, <1>c, <1>9 DEF Looked
  <1>17. ASSUME NEW e \in DOMAIN g.device PROVE DeviceHeld(g, e, fs[e])
    <2>1. DeviceHeld(h, e, ed[e]) /\ e \in Nat
      <3>1. e \in Nat BY <1>a, <1>c, <1>1, HeapIs
      <3> QED BY <1>a, <1>c, <3>1, <1>17 DEF Sound, Counted
    <2>2. CASE e = d
      <3> DEFINE c == Cardinality(TransportsOf(h, e))
                 k == Cardinality(TransportsOf(g, e))
      <3>1. t \in TransportsOf(h, e) BY <1>a, <1>c, <2>2, <1>5 DEF TransportsOf
      <3>2. IsFiniteSet(TransportsOf(h, e)) BY <1>a, <1>c, <1>1, Finite
      <3>3. k = c - 1 /\ c \in Nat \ {0} BY <1>a, <1>c, <3>1, <3>2, <1>15, LoseOne
      <3>4. fs[e] = ed[e] + 1 /\ ed[e] \in Nat BY <1>a, <1>c, <2>1, <2>2 DEF Moved, Counts
      <3>5. h.device[e].refs = c + One(h.device[e].battery) + One(Looked(h, e)) + ed[e]
        BY <1>a, <1>c, <2>1 DEF DeviceHeld
      <3>6. One(Looked(g, e)) = One(Looked(h, e)) /\ One(Looked(h, e)) \in Nat
            /\ One(h.device[e].battery) \in Nat
        BY <1>a, <1>c, <1>16, <1>17 DEF One
      <3> HIDE DEF c, k
      <3>7. h.device[e].refs = k + One(h.device[e].battery) + One(Looked(g, e)) + fs[e]
        BY <1>a, <1>c, <3>3, <3>4, <3>5, <3>6
      <3> QED BY <1>a, <1>c, <3>7 DEF k, DeviceHeld
    <2>3. CASE e # d
      <3>1. TransportsOf(g, e) = TransportsOf(h, e)
        <4>1. t \notin TransportsOf(h, e) BY <1>a, <1>c, <2>3 DEF TransportsOf
        <4>2. ASSUME NEW S, t \notin S PROVE S \ {t} = S BY <1>a, <1>c, <4>2
        <4> QED BY <1>a, <1>c, <4>1, <4>2, <1>15
      <3>2. fs[e] = ed[e] BY <1>a, <1>c, <2>1, <2>3 DEF Moved
      <3> QED BY <1>a, <1>c, <3>1, <3>2, <2>1, <1>16, <1>17 DEF DeviceHeld, One
    <2> QED BY <1>a, <1>c, <2>2, <2>3
  <1>18. \A b : DevicesOf(g, b) = DevicesOf(h, b) BY <1>a DEF DevicesOf
  <1>19. ASSUME NEW b \in DOMAIN g.adapter PROVE AdapterHeld(g, b, ea[b])
    <2>1. AdapterHeld(h, b, ea[b]) BY <1>a, <1>c, <1>19 DEF Sound, Counted
    <2> QED BY <1>a, <1>c, <2>1, <1>18 DEF AdapterHeld
  <1>20. SameLife(h, g)
    <2>1. \A u \in DOMAIN h.transport :
            /\ g.transport[u].quirk = h.transport[u].quirk /\ g.transport[u].thread = h.transport[u].thread
            /\ g.transport[u].freed = h.transport[u].freed /\ g.transport[u].device = h.transport[u].device
            /\ g.transport[u].exported = h.transport[u].exported
      BY <1>a, <1>c, <1>3
    <2> QED BY <1>a, <1>c, <2>1 DEF SameLife
  <1> QED BY <1>a, <1>c, <1>1, <1>2, <1>7, <1>8, <1>10, <1>11, <1>12, <1>14, <1>17, <1>19, <1>20 DEF Sound, Counted

LEMMA TransportFreedKeeps ==
  ASSUME Inv, NEW t \in Transports, TransportFreed(t)
  PROVE  Inv'
  <1> DEFINE et == ByMainT(main)
             ed == ByMainD(main)
             ea == ByMainA(main, bluez)
             d == heap.transport[t].device
             by == heap.transport[t].freer
             r == [heap.transport[t] EXCEPT !.freer = NoOne]
             h == SetT(heap, t, r)
             g == Stored([heap EXCEPT !.transport[t].freer = NoOne], t)
             fs == Plus(ed, d)
  <1>1. /\ ~heap.stale /\ main' = main /\ bluez' = bluez /\ crossed' = crossed /\ by # NoOne
        /\ heap' = DeviceUnref(g, d, by)
    BY DEF TransportFreed
  <1>2. /\ heap \in HeapRec /\ t \in DOMAIN heap.transport /\ heap.transport[t] \in TransportRec
        /\ d \in DOMAIN heap.device
    BY <1>1, TransportIs
  <1>3. /\ Sound(heap, et, ed, ea) /\ et \in Counts /\ ed \in Counts /\ ea \in Counts
    BY <1>1, InvIs
  <1>4. d \in Nat /\ heap.device[d] \in DeviceRec BY <1>2, HeapIs
  <1>n. NoOne \in Who BY DEF NoOne, Who
  <1>5. /\ r \in TransportRec /\ r.device = d /\ r.volume = heap.transport[t].volume /\ r.volume \in Nat
        /\ by \in Who
    BY <1>2, <1>n DEF TransportRec
  <1>6. [heap EXCEPT !.transport[t].freer = NoOne] = h BY <1>2 DEF SetT, HeapRec, TransportRec
  <1>r. r = [heap.transport[t] EXCEPT !.freer = NoOne] OBVIOUS
  <1> HIDE DEF et, ed, ea, r
  <1>7. /\ h \in HeapRec /\ DOMAIN h.transport = DOMAIN heap.transport
        /\ \A u \in DOMAIN heap.transport : h.transport[u] = IF u = t THEN r ELSE heap.transport[u]
        /\ h.device = heap.device /\ h.adapter = heap.adapter /\ h.listed = heap.listed
        /\ h.store = heap.store /\ h.file = heap.file /\ h.stale = heap.stale
    BY <1>2, <1>5, SetTIs
  <1> HIDE DEF h
  <1>8. h.transport[t] = r BY <1>2, <1>7
  <1> DEFINE s == [heap.store EXCEPT ![heap.device[d].addr] = heap.transport[t].volume]
  <1>9. g = [h EXCEPT !.store = s]
    <2>1. g = [h EXCEPT !.store[h.device[h.transport[t].device].addr] = h.transport[t].volume]
      BY <1>6 DEF Stored
    <2>2. /\ h.device[h.transport[t].device].addr = heap.device[d].addr
          /\ h.transport[t].volume = heap.transport[t].volume
      BY <1>5, <1>7, <1>8
    <2>3. g = [h EXCEPT !.store[heap.device[d].addr] = heap.transport[t].volume] BY <2>1, <2>2
    <2> HIDE DEF g
    <2> QED BY <2>3, <1>7 DEF HeapRec
  <1>10. s \in [Address -> Nat]
    <2>1. heap.store \in [Address -> Nat] BY <1>2 DEF HeapRec
    <2>2. heap.device[d].addr \in Address BY <1>4 DEF DeviceRec
    <2>3. heap.transport[t].volume \in Nat BY <1>5
    <2> QED BY <2>1, <2>2, <2>3
  <1> HIDE DEF g, s, d, by
  <1>11. /\ g \in HeapRec /\ g.transport = h.transport /\ g.device = h.device /\ g.adapter = h.adapter
         /\ g.listed = h.listed /\ g.store = s /\ g.stale = h.stale
    BY <1>7, <1>9, <1>10 DEF HeapRec
  <1>12. fs \in Counts /\ fs[d] > 0 /\ Moved(ed, fs, d, ed[d] + 1) /\ Moved(fs, ed, d, fs[d] - 1)
    BY <1>3, <1>4, PlusIs
  <1> HIDE DEF fs
  <1>13. Sound(g, et, fs, ea) /\ SameLife(heap, g) /\ d \in DOMAIN g.device
    <2>1. heap.transport[t].freer # NoOne BY <1>1 DEF by
    <2>2. d = heap.transport[t].device BY DEF d
    <2>3. g.store = [heap.store EXCEPT ![heap.device[d].addr] = heap.transport[t].volume]
      BY <1>11 DEF s
    <2>4. /\ DOMAIN g.transport = DOMAIN heap.transport
          /\ \A u \in DOMAIN heap.transport : g.transport[u] = IF u = t THEN r ELSE heap.transport[u]
          /\ g.device = heap.device /\ g.adapter = heap.adapter /\ g.listed = heap.listed
          /\ g.stale = heap.stale
      BY <1>7, <1>11
    <2>5. et \in Counts /\ ed \in Counts /\ ea \in Counts /\ fs \in Counts /\ Moved(ed, fs, d, ed[d] + 1)
          /\ Sound(heap, et, ed, ea) /\ r \in TransportRec /\ g \in HeapRec
      BY <1>3, <1>5, <1>11, <1>12
    <2>6. FreerShape(heap, g, t, r, d) BY <1>r, <2>1, <2>2, <2>3, <2>4 DEF FreerShape
    <2>7. t \in DOMAIN heap.transport BY <1>2
    <2> QED BY <2>7, <2>5, <2>6, FreerGoes
  <1>14. Sound(heap', et, ed, ea) /\ SameLife(g, heap')
    BY <1>1, <1>3, <1>5, <1>12, <1>13, UnrefDevice
  <1>15. SameLife(heap, heap') BY <1>13, <1>14, SameLifeTrans
  <1> QED BY <1>1, <1>14, <1>15, Stays DEF et, ed, ea

AddsA(g, h, a) ==
  /\ h.listed = None /\ a = Len(h.adapter) + 1
  /\ g = [h EXCEPT !.listed = a, !.adapter = Append(@, FreshAdapter)]

\* A new adapter, which its caller holds.
LEMMA NewAdapter ==
  ASSUME NEW h, NEW et \in Counts, NEW ed \in Counts, NEW ea \in Counts, Sound(h, et, ed, ea),
         NEW a, NEW fs \in Counts, Moved(ea, fs, a, 1), NEW g, AddsA(g, h, a)
  PROVE  Sound(g, et, ed, fs) /\ a \in DOMAIN g.adapter
  <1>0. h.listed = None /\ a = Len(h.adapter) + 1 BY DEF AddsA
  <1>g. g = [h EXCEPT !.listed = a, !.adapter = Append(@, FreshAdapter)] BY DEF AddsA
  <1>1. /\ h \in HeapRec /\ ~h.stale /\ Related(h) /\ Listed(h) /\ Dispatching(h) /\ Threads(h) /\ Filed(h)
    BY DEF Sound
  <1>2. Len(h.adapter) \in Nat /\ a \in Nat /\ a # None /\ DOMAIN h.adapter = 1 .. Len(h.adapter) /\ a \notin DOMAIN h.adapter
        /\ h.adapter \in Seq(AdapterRec)
    BY <1>0, <1>1, HeapIs DEF None, HeapRec
  <1>3. FreshAdapter \in AdapterRec
    BY DEF FreshAdapter, AdapterRec, None, Who, NoOne
  <1> DEFINE f == FreshAdapter
             s == Append(h.adapter, f)
  <1>f. /\ f.refs = 1 /\ (\A x \in Address : f.devices[x] = None) /\ f.dispatcher = "none"
    BY DEF FreshAdapter
  <1> HIDE DEF f
  <1>4. /\ s \in Seq(AdapterRec) /\ DOMAIN s = DOMAIN h.adapter \cup {a}
        /\ s[a] = f /\ \A b \in DOMAIN h.adapter : s[b] = h.adapter[b]
    BY <1>0, <1>2, <1>3 DEF f
  <1> HIDE DEF s
  <1>5. g = [h EXCEPT !.listed = a, !.adapter = s] BY <1>g DEF s, f
  <1>6. /\ g \in HeapRec /\ g.adapter = s /\ g.listed = a /\ g.transport = h.transport
        /\ g.device = h.device /\ g.store = h.store /\ g.file = h.file /\ g.stale = h.stale
    BY <1>1, <1>2, <1>4, <1>5 DEF HeapRec
  <1>7. \A b \in DOMAIN h.adapter : b \in Nat /\ b # a BY <1>2
  <1>8. \A d \in DOMAIN h.device : h.device[d].adapter \in DOMAIN h.adapter BY <1>1 DEF Related
  <1>9. \A u \in DOMAIN h.transport : h.transport[u].device \in DOMAIN h.device BY <1>1 DEF Related
  <1>10. Related(g) BY <1>1, <1>4, <1>6 DEF Related
  <1>11. Listed(g)
    <2>1. ASSUME NEW b \in DOMAIN g.adapter, NEW x \in Address PROVE Found(g, b, x)
      <3>1. CASE b = a BY <3>1, <1>4, <1>6, <1>f DEF Found
      <3>2. CASE b # a
        <4>1. b \in DOMAIN h.adapter /\ g.adapter[b] = h.adapter[b] BY <2>1, <3>2, <1>4, <1>6
        <4>2. Found(h, b, x) BY <4>1, <1>1 DEF Listed
        <4> QED BY <4>1, <4>2, <1>6 DEF Found
      <3> QED BY <3>1, <3>2
    <2>2. ASSUME NEW b \in DOMAIN g.adapter PROVE g.adapter[b].refs > 0 <=> g.listed = b
      <3>1. CASE b = a BY <3>1, <1>4, <1>6, <1>f
      <3>2. CASE b # a
        <4>1. b \in DOMAIN h.adapter /\ g.adapter[b] = h.adapter[b] BY <2>2, <3>2, <1>4, <1>6
        <4>2. h.listed # b BY <4>1, <1>0, <1>2 DEF None
        <4>3. ~(h.adapter[b].refs > 0) BY <4>1, <4>2, <1>1 DEF Listed
        <4> QED BY <3>2, <4>1, <4>3, <1>6
      <3> QED BY <3>1, <3>2
    <2>3. g.listed \in DOMAIN g.adapter BY <1>4, <1>6
    <2> QED BY <2>1, <2>2, <2>3 DEF Listed
  <1>12. \A b \in DOMAIN h.adapter :
           /\ g.adapter[b] = h.adapter[b]
           /\ (Looks(g, b) <=> Looks(h, b)) /\ (Serves(g, b) <=> Serves(h, b))
    BY <1>4, <1>6 DEF Looks, Serves
  <1>13. Dispatching(g)
    <2>1. ~Looks(g, a) /\ ~Serves(g, a) BY <1>4, <1>6, <1>f DEF Looks, Serves
    <2>2. DOMAIN g.adapter = DOMAIN h.adapter \cup {a} BY <1>4, <1>6
    <2> QED BY <2>1, <2>2, <1>1, <1>6, <1>12, ZenonT(40) DEF Dispatching
  <1>14. Threads(g) BY <1>1, <1>6 DEF Threads
  <1>15. Filed(g) BY <1>1, <1>6 DEF Filed
  <1>16. \A u \in DOMAIN h.transport : Served(g, u) <=> Served(h, u) BY <1>6, <1>8, <1>9, <1>12 DEF Served
  <1>17. \A d \in DOMAIN h.device : Looked(g, d) <=> Looked(h, d) BY <1>6, <1>8, <1>12 DEF Looked
  <1>18. ASSUME NEW u \in DOMAIN g.transport PROVE TransportHeld(g, u, et[u])
    <2>1. TransportHeld(h, u, et[u]) BY <1>6, <1>18 DEF Sound, Counted
    <2> QED BY <2>1, <1>6, <1>16, <1>18 DEF TransportHeld, One
  <1>19. ASSUME NEW e \in DOMAIN g.device PROVE DeviceHeld(g, e, ed[e])
    <2>1. DeviceHeld(h, e, ed[e]) BY <1>6, <1>19 DEF Sound, Counted
    <2>2. TransportsOf(g, e) = TransportsOf(h, e) BY <1>6 DEF TransportsOf
    <2> QED BY <2>1, <2>2, <1>6, <1>17, <1>19 DEF DeviceHeld, One
  <1>20. \A b : DevicesOf(g, b) = DevicesOf(h, b) BY <1>6 DEF DevicesOf
  <1>21. ASSUME NEW b \in DOMAIN g.adapter PROVE AdapterHeld(g, b, fs[b])
    <2>1. CASE b = a
      <3>0. \A d \in DOMAIN h.device : h.device[d].adapter # a BY <1>2, <1>8
      <3>1. DevicesOf(g, b) = {} BY <2>1, <3>0, <1>20 DEF DevicesOf
      <3>2. Cardinality({}) = 0 BY FS_EmptySet
      <3>3. fs[b] = 1 BY <2>1, <1>2 DEF Moved
      <3>4. Cardinality(DevicesOf(g, b)) = 0 BY <3>1, <3>2
      <3>5. g.adapter[b].refs = 1 BY <2>1, <1>4, <1>6, <1>f
      <3> QED BY <3>3, <3>4, <3>5 DEF AdapterHeld
    <2>2. CASE b # a
      <3>1. b \in DOMAIN h.adapter /\ b \in Nat /\ g.adapter[b] = h.adapter[b]
        BY <1>21, <2>2, <1>4, <1>6, <1>7
      <3>2. AdapterHeld(h, b, ea[b]) BY <3>1 DEF Sound, Counted
      <3>3. fs[b] = ea[b] BY <2>2, <3>1 DEF Moved
      <3> QED BY <3>1, <3>2, <3>3, <1>20 DEF AdapterHeld
    <2> QED BY <2>1, <2>2
  <1>22. a \in DOMAIN g.adapter BY <1>4, <1>6
  <1> QED BY <1>1, <1>6, <1>10, <1>11, <1>13, <1>14, <1>15, <1>18, <1>19, <1>21, <1>22 DEF Sound, Counted

LEMMA IdleKeeps ==
  ASSUME main' = << >>, bluez' # None, bluez' \in DOMAIN heap'.adapter,
         Sound(heap', ByMainT(<< >>), ByMainD(<< >>), ByMainA(<< >>, bluez'))
  PROVE  Inv'
  <1>0. << >> \in Seq(FrameRec) OBVIOUS
  <1>1. main' \in Seq(FrameRec) BY <1>0
  <1>2. MainShape(heap', main', bluez') BY DEF MainShape, Shape
  <1>3. Joined' BY DEF Joined
  <1>4. Bluez' BY DEF Bluez
  <1>5. ~heap'.stale BY DEF Sound
  <1> QED BY <1>1, <1>2, <1>3, <1>4, <1>5 DEF Inv

LEMMA AdapterAddedKeeps ==
  ASSUME Inv, AdapterAdded
  PROVE  Inv'
  <1> DEFINE et == ByMainT(<< >>)
             ed == ByMainD(<< >>)
             ea == ByMainA(<< >>, None)
             b == bluez'
             fa == ByMainA(<< >>, b)
  <1>1. /\ ~heap.stale /\ main = << >> /\ main' = << >> /\ bluez = None
        /\ \/ heap.listed # None /\ b = heap.listed
              /\ heap' = [heap EXCEPT !.adapter[heap.listed].refs = @ + 1]
           \/ heap.listed = None /\ b = Len(heap.adapter) + 1
              /\ heap' = [heap EXCEPT !.listed = Len(heap.adapter) + 1, !.adapter = Append(@, FreshAdapter)]
    BY DEF AdapterAdded, Idle, Runs
  <1>2. /\ Sound(heap, et, ed, ea) /\ heap \in HeapRec
    BY <1>1, InvIs
  <1>3. et \in Counts /\ ed \in Counts /\ ea \in Counts /\ fa \in Counts BY ByMainIs
  <1>4. \A i \in Nat : ea[i] = 0 /\ (b # None => fa[i] = IF i = b THEN 1 ELSE 0)
    <2>1. \A dos, id : ~InMain(<< >>, dos, id) BY DEF InMain
    <2>2. \A i \in Nat : One(InMain(<< >>, {"leaveAdapter"}, i)) = 0 BY <2>1 DEF One
    <2>3. \A i \in Nat : One(None # None /\ None = i /\ ~(<< >> # << >> /\ << >>[1].do = "batteries")) = 0
      BY DEF One
    <2>4. \A i \in Nat : b # None =>
            One(b # None /\ b = i /\ ~(<< >> # << >> /\ << >>[1].do = "batteries")) = IF i = b THEN 1 ELSE 0
      BY DEF One
    <2>5. \A i \in Nat : ea[i] = 0 BY <2>2, <2>3, ByMainIs
    <2>6. ASSUME NEW i \in Nat, b # None PROVE fa[i] = IF i = b THEN 1 ELSE 0
      <3>1. fa[i] = One(b # None /\ b = i /\ ~(<< >> # << >> /\ << >>[1].do = "batteries"))
                      + One(InMain(<< >>, {"leaveAdapter"}, i))
        BY ByMainIs
      <3> QED BY <3>1, <2>2, <2>4, <2>6
    <2> QED BY <2>5, <2>6
  <1>5. CASE /\ heap.listed # None /\ b = heap.listed
             /\ heap' = [heap EXCEPT !.adapter[heap.listed].refs = @ + 1]
    <2>1. b \in DOMAIN heap.adapter /\ heap.adapter[b].refs > 0 /\ b # None
      BY <1>2, <1>5 DEF Sound, Listed
    <2>2. b \in Nat BY <1>2, <2>1, HeapIs
    <2>3. TakesA(heap', heap, b) BY <1>5 DEF TakesA
    <2>4. Moved(ea, fa, b, ea[b] + 1) BY <1>4, <2>1, <2>2 DEF Moved
    <2> HIDE DEF et, ed, ea, fa, b
    <2>5. Sound(heap', et, ed, fa) /\ SameBut(heap, heap')
      BY <1>2, <1>3, <2>1, <2>3, <2>4, TakeAdapter
    <2>6. b \in DOMAIN heap'.adapter BY <2>1, <2>5 DEF SameBut, SameLife
    <2> QED BY <1>1, <2>1, <2>5, <2>6, IdleKeeps DEF et, ed, fa, b
  <1>6. CASE /\ heap.listed = None /\ b = Len(heap.adapter) + 1
             /\ heap' = [heap EXCEPT !.listed = Len(heap.adapter) + 1, !.adapter = Append(@, FreshAdapter)]
    <2>1. b \in Nat /\ b # None
      <3>1. Len(heap.adapter) \in Nat BY <1>2, HeapIs
      <3> QED BY <3>1, <1>6 DEF None
    <2>2. heap' = [heap EXCEPT !.listed = b, !.adapter = Append(@, FreshAdapter)] BY <1>6
    <2>3. Moved(ea, fa, b, 1) BY <1>4, <2>1 DEF Moved
    <2>4. AddsA(heap', heap, b) BY <1>6, <2>2 DEF AddsA
    <2> HIDE DEF et, ed, ea, fa, b
    <2>5. Sound(heap', et, ed, fa) /\ b \in DOMAIN heap'.adapter
      BY <1>2, <1>3, <2>3, <2>4, NewAdapter
    <2> QED BY <1>1, <2>1, <2>5, IdleKeeps DEF et, ed, fa, b
  <1> QED BY <1>1, <1>5, <1>6

AddsD(g, h, x, a, d) ==
  /\ h.listed = a /\ a \in DOMAIN h.adapter /\ h.adapter[a].devices[x] = None
  /\ d = Len(h.device) + 1 /\ g = NewDevice(h, x)

FreshDevice(x, a) == [addr |-> x, adapter |-> a, refs |-> 1, transport |-> None, battery |-> FALSE]

LEMMA NewDeviceIs ==
  ASSUME NEW h \in HeapRec, NEW x \in Address, NEW a, NEW d, NEW g, AddsD(g, h, x, a, d)
  PROVE  /\ g \in HeapRec /\ d \in Nat /\ d # None /\ d \notin DOMAIN h.device
         /\ DOMAIN g.device = DOMAIN h.device \cup {d}
         /\ g.device[d] = FreshDevice(x, a)
         /\ \A e \in DOMAIN h.device : g.device[e] = h.device[e]
         /\ DOMAIN g.adapter = DOMAIN h.adapter
         /\ \A b \in DOMAIN h.adapter :
              /\ g.adapter[b].refs = IF b = a THEN h.adapter[b].refs + 1 ELSE h.adapter[b].refs
              /\ g.adapter[b].dispatcher = h.adapter[b].dispatcher /\ g.adapter[b].held = h.adapter[b].held
              /\ \A y \in Address : g.adapter[b].devices[y] =
                   IF b = a /\ y = x THEN d ELSE h.adapter[b].devices[y]
         /\ \A y \in Address : y # x => g.store[y] = h.store[y]
         /\ g.transport = h.transport /\ g.listed = h.listed /\ g.file = h.file /\ g.stale = h.stale
  <1> DEFINE s == Append(h.device, FreshDevice(x, a))
             p == [h.adapter[a] EXCEPT !.refs = h.adapter[a].refs + 1, !.devices = [@ EXCEPT ![x] = d]]
             v == Loaded(h, x)
             w == [h.store EXCEPT ![x] = v]
  <1>1. /\ h.listed = a /\ a \in DOMAIN h.adapter
        /\ d = Len(h.device) + 1 /\ g = NewDevice(h, x)
    BY DEF AddsD
  <1>2. /\ a \in Nat /\ h.adapter[a] \in AdapterRec /\ Len(h.device) \in Nat /\ d \in Nat /\ d # None
        /\ DOMAIN h.device = 1 .. Len(h.device) /\ d \notin DOMAIN h.device /\ h.device \in Seq(DeviceRec)
    BY <1>1, HeapIs DEF None, HeapRec
  <1>3. FreshDevice(x, a) \in DeviceRec BY <1>2 DEF FreshDevice, DeviceRec, None
  <1>4. /\ s \in Seq(DeviceRec) /\ DOMAIN s = DOMAIN h.device \cup {d}
        /\ s[d] = FreshDevice(x, a) /\ \A e \in DOMAIN h.device : s[e] = h.device[e]
    BY <1>1, <1>2, <1>3
  <1>5. h.adapter[a].refs \in Nat /\ h.adapter[a].refs + 1 \in Nat
    <2>1. h.adapter[a] \in AdapterRec BY ONLY <1>2
    <2>2. h.adapter[a].refs \in Nat BY ONLY <2>1 DEF AdapterRec
    <2> QED BY ONLY <2>2
  <1>6. /\ p \in AdapterRec /\ p.refs = h.adapter[a].refs + 1
        /\ p.dispatcher = h.adapter[a].dispatcher /\ p.held = h.adapter[a].held
        /\ \A y \in Address : p.devices[y] = IF y = x THEN d ELSE h.adapter[a].devices[y]
    BY <1>2, <1>5 DEF AdapterRec
  <1>7. v \in Nat
    BY HeapIs DEF Loaded, Empty
  <1>8. w \in [Address -> Nat] /\ \A y \in Address : y # x => w[y] = h.store[y]
    <2> HIDE DEF v
    <2>1. h.store \in [Address -> Nat] BY DEF HeapRec
    <2> QED BY <2>1, <1>7
  <1> DEFINE i == [h EXCEPT !.device = s]
             k == SetA(i, a, p)
  <1>9. g = [k EXCEPT !.store = w]
    <2>1. g = [[i EXCEPT !.adapter[a].refs = @ + 1, !.adapter[a].devices[x] = d] EXCEPT !.store[x] = v]
      BY <1>1 DEF NewDevice, FreshDevice
    <2>2. i \in HeapRec /\ i.adapter = h.adapter /\ i.store = h.store
      <3> HIDE DEF s
      <3> QED BY <1>4 DEF HeapRec
    <2>p. p = [i.adapter[a] EXCEPT !.refs = i.adapter[a].refs + 1, !.devices = [@ EXCEPT ![x] = d]]
      BY <2>2
    <2>3. a \in DOMAIN i.adapter /\ i.adapter[a] \in AdapterRec BY <1>1, <1>2, <2>2
    <2> HIDE DEF i, s, v
    <2>4. [i EXCEPT !.adapter[a].refs = @ + 1, !.adapter[a].devices[x] = d]
           = SetA(i, a, [i.adapter[a] EXCEPT !.refs = i.adapter[a].refs + 1, !.devices = [@ EXCEPT ![x] = d]])
      BY <2>2, <2>3 DEF SetA, HeapRec, AdapterRec
    <2>5. g = [k EXCEPT !.store[x] = v] BY <2>1, <2>4, <2>p
    <2>6. k \in HeapRec /\ k.store = h.store BY <1>1, <1>6, <2>2, <2>3, SetAIs
    <2> HIDE DEF k, p
    <2> QED BY <2>5, <2>6 DEF HeapRec
  <1> HIDE DEF s, p, v, w
  <1>i. /\ i \in HeapRec /\ i.adapter = h.adapter /\ i.store = h.store /\ i.device = s
        /\ i.transport = h.transport /\ i.listed = h.listed /\ i.file = h.file /\ i.stale = h.stale
    BY <1>4 DEF HeapRec
  <1> HIDE DEF i
  <1>10. /\ k \in HeapRec /\ DOMAIN k.adapter = DOMAIN h.adapter
         /\ \A b \in DOMAIN h.adapter : k.adapter[b] = IF b = a THEN p ELSE h.adapter[b]
         /\ k.transport = h.transport /\ k.device = s
         /\ k.listed = h.listed /\ k.store = h.store
         /\ k.file = h.file /\ k.stale = h.stale
    <2>1. a \in DOMAIN i.adapter BY <1>1, <1>i
    <2>2. /\ k \in HeapRec /\ DOMAIN k.adapter = DOMAIN i.adapter
          /\ \A b \in DOMAIN i.adapter : k.adapter[b] = IF b = a THEN p ELSE i.adapter[b]
          /\ k.transport = i.transport /\ k.device = i.device
          /\ k.listed = i.listed /\ k.store = i.store
          /\ k.file = i.file /\ k.stale = i.stale
      BY <1>6, <1>i, <2>1, SetAIs
    <2> HIDE DEF k
    <2> QED BY <2>2, <1>i
  <1> HIDE DEF k
  <1>11. /\ g \in HeapRec /\ g.adapter = k.adapter /\ g.device = s /\ g.store = w
         /\ g.transport = k.transport /\ g.listed = k.listed /\ g.file = k.file /\ g.stale = k.stale
    BY <1>4, <1>8, <1>9, <1>10 DEF HeapRec
  <1>12. ASSUME NEW b \in DOMAIN h.adapter
         PROVE  /\ g.adapter[b].refs = IF b = a THEN h.adapter[b].refs + 1 ELSE h.adapter[b].refs
                /\ g.adapter[b].dispatcher = h.adapter[b].dispatcher /\ g.adapter[b].held = h.adapter[b].held
                /\ \A y \in Address : g.adapter[b].devices[y] =
                     IF b = a /\ y = x THEN d ELSE h.adapter[b].devices[y]
    <2>1. g.adapter[b] = IF b = a THEN p ELSE h.adapter[b] BY <1>10, <1>11
    <2>2. CASE b = a BY <2>1, <2>2, <1>6
    <2>3. CASE b # a BY <2>1, <2>3
    <2> QED BY <2>2, <2>3
  <1> QED BY <1>2, <1>4, <1>8, <1>10, <1>11, <1>12

\* A new device, in the table of the listed adapter and held by its caller.
LEMMA NewDeviceSound ==
  ASSUME NEW h, NEW et \in Counts, NEW ed \in Counts, NEW ea \in Counts, Sound(h, et, ed, ea),
         NEW x \in Address, NEW a, NEW d, NEW g, AddsD(g, h, x, a, d), NEW fs \in Counts, Moved(ed, fs, d, 1)
  PROVE  /\ Sound(g, et, fs, ea) /\ d \in DOMAIN g.device /\ g.device[d].transport = None
         /\ g.adapter[a].devices[x] = d /\ DOMAIN g.adapter = DOMAIN h.adapter
         /\ g.transport = h.transport
  <1>1. /\ h \in HeapRec /\ ~h.stale /\ Related(h) /\ Listed(h) /\ Dispatching(h) /\ Threads(h) /\ Filed(h)
    BY DEF Sound
  <1>2. h.listed = a /\ a \in DOMAIN h.adapter BY DEF AddsD
  <1>3. /\ g \in HeapRec /\ d \in Nat /\ d # None /\ d \notin DOMAIN h.device
        /\ DOMAIN g.device = DOMAIN h.device \cup {d}
        /\ g.device[d] = FreshDevice(x, a)
        /\ \A e \in DOMAIN h.device : g.device[e] = h.device[e]
        /\ DOMAIN g.adapter = DOMAIN h.adapter
    BY <1>1, NewDeviceIs
  <1>4. \A b \in DOMAIN h.adapter :
          /\ g.adapter[b].refs = IF b = a THEN h.adapter[b].refs + 1 ELSE h.adapter[b].refs
          /\ g.adapter[b].dispatcher = h.adapter[b].dispatcher /\ g.adapter[b].held = h.adapter[b].held
          /\ \A y \in Address : g.adapter[b].devices[y] =
                   IF b = a /\ y = x THEN d ELSE h.adapter[b].devices[y]
    BY <1>1, NewDeviceIs
  <1>5. /\ \A y \in Address : y # x => g.store[y] = h.store[y]
        /\ g.transport = h.transport /\ g.listed = h.listed /\ g.file = h.file /\ g.stale = h.stale
    BY <1>1, NewDeviceIs
  <1>6. /\ g.device[d].addr = x /\ g.device[d].adapter = a /\ g.device[d].refs = 1
        /\ g.device[d].transport = None /\ g.device[d].battery = FALSE
    BY <1>3 DEF FreshDevice
  <1>7. \A u \in DOMAIN h.transport : h.transport[u].device \in DOMAIN h.device BY <1>1 DEF Related
  <1>8. \A e \in DOMAIN h.device : h.device[e].adapter \in DOMAIN h.adapter /\ e # d
    BY <1>1, <1>3 DEF Related
  <1>9. \A b \in DOMAIN h.adapter : /\ (Looks(g, b) <=> Looks(h, b)) /\ (Serves(g, b) <=> Serves(h, b))
                                     /\ g.adapter[b].held = h.adapter[b].held
    BY <1>4 DEF Looks, Serves
  <1>10. Related(g)
    <2>1. ASSUME NEW e \in DOMAIN g.device
          PROVE  /\ g.device[e].adapter \in DOMAIN g.adapter
                 /\ g.device[e].transport # None =>
                      /\ g.device[e].transport \in DOMAIN g.transport
                      /\ g.transport[g.device[e].transport].device = e
                      /\ g.transport[g.device[e].transport].refs > 0
      <3>1. CASE e = d BY <3>1, <1>2, <1>3, <1>6
      <3>2. CASE e # d
        <4>1. e \in DOMAIN h.device /\ g.device[e] = h.device[e] BY <2>1, <3>2, <1>3
        <4> QED BY <4>1, <1>1, <1>3, <1>5 DEF Related
      <3> QED BY <3>1, <3>2
    <2>2. \A u \in DOMAIN g.transport : g.transport[u].device \in DOMAIN g.device
      BY <1>3, <1>5, <1>7
    <2> QED BY <2>1, <2>2 DEF Related
  <1>11. Listed(g)
    <2>1. ASSUME NEW b \in DOMAIN g.adapter, NEW y \in Address PROVE Found(g, b, y)
      <3>1. b \in DOMAIN h.adapter BY <2>1, <1>3
      <3>2. CASE b = a /\ y = x BY <3>1, <3>2, <1>3, <1>4, <1>6 DEF Found
      <3>3. CASE ~(b = a /\ y = x)
        <4>1. Found(h, b, y) BY <3>1, <1>1 DEF Listed
        <4>2. g.adapter[b].devices[y] = h.adapter[b].devices[y] BY <3>1, <3>3, <1>4
        <4> QED BY <4>1, <4>2, <1>3 DEF Found
      <3> QED BY <3>2, <3>3
    <2>2. ASSUME NEW b \in DOMAIN g.adapter PROVE g.adapter[b].refs > 0 <=> g.listed = b
      <3>1. b \in DOMAIN h.adapter /\ h.adapter[b].refs \in Nat
        <4>1. b \in DOMAIN h.adapter BY <2>2, <1>3
        <4>2. h.adapter[b] \in AdapterRec BY <4>1, <1>1, HeapIs
        <4> QED BY <4>1, <4>2 DEF AdapterRec
      <3>2. h.adapter[b].refs > 0 <=> h.listed = b BY <3>1, <1>1 DEF Listed
      <3> QED BY <3>1, <3>2, <1>2, <1>4, <1>5
    <2>3. g.listed \in DOMAIN g.adapter BY <1>2, <1>3, <1>5
    <2> QED BY <2>1, <2>2, <2>3 DEF Listed
  <1>12. Dispatching(g)
    <2>1. ASSUME NEW b \in DOMAIN h.adapter, Serves(h, b)
          PROVE  /\ h.adapter[b].held[2] \in DOMAIN h.transport
                 /\ h.transport[h.adapter[b].held[2]].device = h.adapter[b].held[1]
      BY <1>1, <2>1 DEF Dispatching
    <2>2. ASSUME NEW b \in DOMAIN h.adapter, Looks(h, b)
          PROVE  /\ h.adapter[b].held # << >>
                 /\ h.adapter[b].held[1] \in DOMAIN g.device
                 /\ g.device[h.adapter[b].held[1]].adapter = b
      BY <1>1, <1>3, <2>2 DEF Dispatching
    <2>3. ASSUME NEW b \in DOMAIN g.adapter
          PROVE  /\ Looks(g, b) => /\ g.adapter[b].held # << >>
                                   /\ g.adapter[b].held[1] \in DOMAIN g.device
                                   /\ g.device[g.adapter[b].held[1]].adapter = b
                 /\ Serves(g, b) => /\ g.adapter[b].held[2] \in DOMAIN g.transport
                                    /\ g.transport[g.adapter[b].held[2]].device = g.adapter[b].held[1]
      <3>1. b \in DOMAIN h.adapter BY ONLY <2>3, <1>3
      <3>2. /\ Looks(g, b) <=> Looks(h, b)
            /\ Serves(g, b) <=> Serves(h, b)
            /\ g.adapter[b].held = h.adapter[b].held
        BY ONLY <3>1, <1>9
      <3>3. g.transport = h.transport BY ONLY <1>5
      <3> QED BY ONLY <3>1, <3>2, <3>3, <2>1, <2>2
    <2> QED BY ONLY <2>3 DEF Dispatching
  <1>13. Threads(g) BY <1>1, <1>5 DEF Threads
  <1>14. Filed(g)
    <2>1. ASSUME NEW y \in Address, g.store[y] # NoEntry
          PROVE  \E e \in DOMAIN g.device : g.device[e].addr = y /\ g.device[e].refs > 0
      <3>1. CASE y = x BY <3>1, <1>3, <1>6
      <3>2. CASE y # x
        <4>1. \E e \in DOMAIN h.device : h.device[e].addr = y /\ h.device[e].refs > 0
          BY <2>1, <3>2, <1>1, <1>5 DEF Filed
        <4> QED BY <4>1, <1>3
      <3> QED BY <3>1, <3>2
    <2> QED BY <2>1 DEF Filed
  <1>15. \A u \in DOMAIN h.transport : Served(g, u) <=> Served(h, u)
    <2>1. ASSUME NEW u \in DOMAIN h.transport PROVE Served(g, u) <=> Served(h, u)
      <3> DEFINE e == h.transport[u].device
                 b == h.device[e].adapter
      <3>1. e \in DOMAIN h.device BY <1>7
      <3>2. b \in DOMAIN h.adapter BY <3>1, <1>8
      <3>3. g.device[g.transport[u].device].adapter = b BY <3>1, <1>3, <1>5
      <3>4. (Serves(g, b) <=> Serves(h, b)) /\ g.adapter[b].held = h.adapter[b].held BY <3>2, <1>9
      <3> QED BY <3>3, <3>4 DEF Served
    <2> QED BY <2>1
  <1>16. \A e \in DOMAIN h.device : Looked(g, e) <=> Looked(h, e) BY <1>3, <1>8, <1>9 DEF Looked
  <1>17. ~Looked(g, d)
    <2>1. Looked(g, d) <=> Looks(g, a) /\ g.adapter[a].held[1] = d BY <1>6 DEF Looked
    <2>2. Looks(h, a) => h.adapter[a].held[1] \in DOMAIN h.device BY <1>1, <1>2 DEF Dispatching
    <2> QED BY <2>1, <2>2, <1>2, <1>3, <1>9
  <1>18. ASSUME NEW u \in DOMAIN g.transport PROVE TransportHeld(g, u, et[u])
    <2>1. TransportHeld(h, u, et[u]) BY <1>5, <1>18 DEF Sound, Counted
    <2> QED BY <2>1, <1>5, <1>15, <1>18 DEF TransportHeld, One
  <1>19. \A e : TransportsOf(g, e) = TransportsOf(h, e) BY <1>5 DEF TransportsOf
  <1>c. Cardinality({}) = 0 BY FS_EmptySet
  <1>20. ASSUME NEW e \in DOMAIN g.device PROVE DeviceHeld(g, e, fs[e])
    <2>1. CASE e = d
      <3>1. TransportsOf(g, e) = {}
        <4>1. \A u \in DOMAIN h.transport : h.transport[u].device # e
          BY ONLY <2>1, <1>3, <1>7
        <4>2. TransportsOf(h, e) = {} BY ONLY <4>1 DEF TransportsOf
        <4> QED BY ONLY <4>2, <1>19
      <3>2. Cardinality(TransportsOf(g, e)) = 0 BY <3>1, <1>c
      <3>3. fs[e] = 1 BY <2>1, <1>3 DEF Moved
      <3>4. One(Looked(g, e)) = 0 /\ One(g.device[e].battery) = 0 BY <2>1, <1>6, <1>17 DEF One
      <3>5. g.device[e].refs = 1 BY <2>1, <1>6
      <3> QED BY <3>2, <3>3, <3>4, <3>5 DEF DeviceHeld
    <2>2. CASE e # d
      <3>1. e \in DOMAIN h.device /\ g.device[e] = h.device[e] BY <1>20, <2>2, <1>3
      <3>2. e \in Nat BY <3>1, <1>1, HeapIs
      <3>3. fs[e] = ed[e] BY <2>2, <3>2 DEF Moved
      <3>4. DeviceHeld(h, e, ed[e]) BY <3>1 DEF Sound, Counted
      <3>5. One(Looked(g, e)) = One(Looked(h, e)) BY <3>1, <1>16 DEF One
      <3> QED BY <3>1, <3>3, <3>4, <3>5, <1>19 DEF DeviceHeld
    <2> QED BY <2>1, <2>2
  <1>21. ASSUME NEW b \in DOMAIN g.adapter PROVE AdapterHeld(g, b, ea[b])
    <2>1. b \in DOMAIN h.adapter /\ AdapterHeld(h, b, ea[b]) BY <1>3, <1>21 DEF Sound, Counted
    <2>2. CASE b = a
      <3>0. \A e \in DOMAIN g.device :
              g.device[e].adapter = b /\ g.device[e].refs > 0 <=>
                e = d \/ (e \in DOMAIN h.device /\ h.device[e].adapter = b /\ h.device[e].refs > 0)
        BY <2>2, <1>3, <1>6
      <3>1. DevicesOf(g, b) = DevicesOf(h, b) \cup {d} BY <3>0, <1>3 DEF DevicesOf
      <3>2. d \notin DevicesOf(h, b) /\ IsFiniteSet(DevicesOf(h, b))
        <4>1. d \notin DevicesOf(h, b) BY <1>3 DEF DevicesOf
        <4> QED BY <4>1, <1>1, Finite
      <3> DEFINE c == Cardinality(DevicesOf(h, b))
                 k == Cardinality(DevicesOf(g, b))
      <3>3. k = c + 1 BY <3>1, <3>2, GainOne
      <3>4. c \in Nat /\ ea[b] \in Nat
        <4>1. b \in Nat BY <2>1, <1>1, HeapIs
        <4> QED BY <4>1, <1>1, Finite DEF Counts
      <3>5. h.adapter[b].refs = c + ea[b] BY <2>1 DEF AdapterHeld
      <3>6. g.adapter[b].refs = h.adapter[b].refs + 1 BY <2>1, <2>2, <1>4
      <3> HIDE DEF c, k
      <3>7. g.adapter[b].refs = k + ea[b] BY <3>3, <3>4, <3>5, <3>6
      <3> QED BY <3>7 DEF k, AdapterHeld
    <2>3. CASE b # a
      <3>1. DevicesOf(g, b) = DevicesOf(h, b) BY <2>3, <1>3, <1>6 DEF DevicesOf
      <3> QED BY <3>1, <2>1, <2>3, <1>4 DEF AdapterHeld
    <2> QED BY <2>2, <2>3
  <1>22. g.adapter[a].devices[x] = d BY <1>2, <1>4
  <1> QED BY <1>1, <1>3, <1>5, <1>6, <1>10, <1>11, <1>12, <1>13, <1>14, <1>18, <1>20, <1>21, <1>22
      DEF Sound, Counted

AddsT(g, h, d, t) ==
  /\ d \in DOMAIN h.device /\ h.device[d].refs > 0
  /\ t = Len(h.transport) + 1 /\ g = NewTransport(h, d)

NewLink(d, level) == WithRfcomm(FreshTransport(d, level))

LEMMA NewLinkIs ==
  ASSUME NEW d \in Nat, NEW level \in Nat
  PROVE  LET r == NewLink(d, level)
         IN /\ r \in TransportRec /\ r.device = d /\ r.refs = 3 /\ r.exported /\ r.calls = 0 /\ ~r.client
            /\ r.sco /\ r.thread = "run" /\ r.freer = NoOne /\ ThreadOk(r)
  <1> DEFINE f == FreshTransport(d, level)
             r == NewLink(d, level)
  <1>0. NoOne \in Who BY DEF NoOne, Who
  <1>1. /\ f \in TransportRec /\ f.device = d /\ f.refs = 2 /\ f.exported = TRUE /\ f.calls = 0 /\ f.client = FALSE
        /\ f.freed = FALSE /\ f.freer = NoOne
    BY <1>0 DEF FreshTransport, TransportRec, Labels
  <1>2. r = [f EXCEPT !.rfcomm = TRUE, !.thread = "run", !.quirk = TRUE, !.sco = TRUE, !.refs = f.refs + 1]
    BY DEF NewLink, WithRfcomm
  <1> HIDE DEF f, r
  <1>3. r = [f EXCEPT !.rfcomm = TRUE, !.thread = "run", !.quirk = TRUE, !.sco = TRUE, !.refs = 3] BY <1>1, <1>2
  <1>6. "run" \in Labels BY DEF Labels
  <1>4. /\ r \in TransportRec /\ r.device = d /\ r.refs = 3 /\ r.exported = TRUE /\ r.calls = 0 /\ r.client = FALSE
        /\ r.sco = TRUE /\ r.thread = "run" /\ r.freer = NoOne /\ r.rfcomm = TRUE /\ r.quirk = TRUE
        /\ r.freed = FALSE
    <2>1. r \in TransportRec BY <1>1, <1>3, <1>6 DEF TransportRec
    <2>2. /\ r.device = d /\ r.refs = 3 /\ r.exported = TRUE /\ r.calls = 0 /\ r.client = FALSE
          /\ r.freer = NoOne /\ r.freed = FALSE
      BY <1>1, <1>3 DEF TransportRec
    <2>3. r.sco = TRUE /\ r.thread = "run" /\ r.rfcomm = TRUE /\ r.quirk = TRUE
      BY <1>1, <1>3 DEF TransportRec
    <2> QED BY <2>1, <2>2, <2>3
  <1>5. ThreadOk(r) BY <1>4 DEF ThreadOk
  <1> QED BY <1>4, <1>5 DEF r

LEMMA NewTransportIs ==
  ASSUME NEW h \in HeapRec, NEW d, NEW t, NEW g, AddsT(g, h, d, t)
  PROVE  /\ g \in HeapRec /\ t \in Nat /\ t # None /\ t \notin DOMAIN h.transport
         /\ DOMAIN g.transport = DOMAIN h.transport \cup {t}
         /\ \A u \in DOMAIN h.transport : g.transport[u] = h.transport[u]
         /\ \E level \in Nat : g.transport[t] = NewLink(d, level)
         /\ DOMAIN g.device = DOMAIN h.device
         /\ \A e \in DOMAIN h.device :
              /\ g.device[e].refs = IF e = d THEN h.device[e].refs + 1 ELSE h.device[e].refs
              /\ g.device[e].transport = IF e = d THEN t ELSE h.device[e].transport
              /\ g.device[e].addr = h.device[e].addr /\ g.device[e].adapter = h.device[e].adapter
              /\ g.device[e].battery = h.device[e].battery
         /\ g.adapter = h.adapter /\ g.listed = h.listed /\ g.store = h.store /\ g.file = h.file
         /\ g.stale = h.stale
  <1> DEFINE level == Synced(h, h.device[d].addr)
             r == NewLink(d, level)
             s == Append(h.transport, r)
             q == [h.device[d] EXCEPT !.refs = h.device[d].refs + 1, !.transport = t]
             i == [h EXCEPT !.transport = s]
  <1>1. /\ d \in DOMAIN h.device /\ t = Len(h.transport) + 1 /\ g = NewTransport(h, d) BY DEF AddsT
  <1>2. /\ d \in Nat /\ h.device[d] \in DeviceRec /\ Len(h.transport) \in Nat /\ t \in Nat /\ t # None
        /\ DOMAIN h.transport = 1 .. Len(h.transport) /\ t \notin DOMAIN h.transport
        /\ h.transport \in Seq(TransportRec)
    BY <1>1, HeapIs DEF None, HeapRec
  <1>3. level \in Nat
    <2>1. \A x \in Levels : x \in Nat BY DEF Levels, Default
    <2> QED BY <2>1 DEF Synced, Default
  <1> HIDE DEF level
  <1>4. r \in TransportRec BY <1>2, <1>3, NewLinkIs
  <1> HIDE DEF r
  <1>5. /\ s \in Seq(TransportRec) /\ DOMAIN s = DOMAIN h.transport \cup {t}
        /\ s[t] = r /\ \A u \in DOMAIN h.transport : s[u] = h.transport[u]
    BY <1>1, <1>2, <1>4
  <1>6. h.device[d].refs \in Nat /\ h.device[d].refs + 1 \in Nat BY <1>2 DEF DeviceRec
  <1>7. /\ q \in DeviceRec /\ q.refs = h.device[d].refs + 1 /\ q.transport = t
        /\ q.addr = h.device[d].addr /\ q.adapter = h.device[d].adapter /\ q.battery = h.device[d].battery
    BY <1>2, <1>6 DEF DeviceRec
  <1>8. g = [i EXCEPT !.device[d].refs = @ + 1, !.device[d].transport = t]
    BY <1>1 DEF NewTransport, NewLink, r, level
  <1>q. q = [h.device[d] EXCEPT !.refs = h.device[d].refs + 1, !.transport = t] OBVIOUS
  <1> HIDE DEF s, q
  <1>9. /\ i \in HeapRec /\ i.device = h.device /\ i.transport = s /\ i.adapter = h.adapter
        /\ i.listed = h.listed /\ i.store = h.store /\ i.file = h.file /\ i.stale = h.stale
    BY <1>5 DEF HeapRec
  <1> HIDE DEF i
  <1>10. g = SetD(i, d, q)
    <2>1. g = SetD(i, d, [i.device[d] EXCEPT !.refs = i.device[d].refs + 1, !.transport = t])
      BY <1>1, <1>2, <1>8, <1>9 DEF SetD, HeapRec, DeviceRec
    <2> QED BY <2>1, <1>9, <1>q
  <1>11. d \in DOMAIN i.device BY <1>1, <1>9
  <1> DEFINE k == SetD(i, d, q)
  <1>12. /\ k \in HeapRec /\ DOMAIN k.device = DOMAIN i.device
         /\ \A e \in DOMAIN i.device : k.device[e] = IF e = d THEN q ELSE i.device[e]
         /\ k.transport = i.transport /\ k.adapter = i.adapter
         /\ k.listed = i.listed /\ k.store = i.store
         /\ k.file = i.file /\ k.stale = i.stale
    BY <1>7, <1>9, <1>11, SetDIs
  <1> HIDE DEF k
  <1>13. g = k BY <1>10 DEF k
  <1>14. ASSUME NEW e \in DOMAIN h.device
         PROVE  /\ g.device[e].refs = IF e = d THEN h.device[e].refs + 1 ELSE h.device[e].refs
                /\ g.device[e].transport = IF e = d THEN t ELSE h.device[e].transport
                /\ g.device[e].addr = h.device[e].addr /\ g.device[e].adapter = h.device[e].adapter
                /\ g.device[e].battery = h.device[e].battery
    <2>1. g.device[e] = IF e = d THEN q ELSE h.device[e] BY <1>9, <1>12, <1>13
    <2>2. CASE e = d BY <2>1, <2>2, <1>7
    <2>3. CASE e # d BY <2>1, <2>3
    <2> QED BY <2>2, <2>3
  <1>15. /\ g \in HeapRec /\ g.transport = s /\ DOMAIN g.device = DOMAIN h.device
         /\ g.adapter = h.adapter /\ g.listed = h.listed /\ g.store = h.store /\ g.file = h.file
         /\ g.stale = h.stale
    BY <1>9, <1>12, <1>13
  <1>16. \E l \in Nat : g.transport[t] = NewLink(d, l) BY <1>3, <1>5, <1>15 DEF r
  <1> QED BY <1>2, <1>5, <1>14, <1>15, <1>16

\* A new transport with its link, held by its caller.
LEMMA NewTransportSound ==
  ASSUME NEW h, NEW et \in Counts, NEW ed \in Counts, NEW ea \in Counts, Sound(h, et, ed, ea),
         NEW d, NEW t, NEW g, AddsT(g, h, d, t), NEW fs \in Counts, Moved(et, fs, t, 1)
  PROVE  /\ Sound(g, fs, ed, ea) /\ t \in DOMAIN g.transport /\ d \in DOMAIN g.device
         /\ g.adapter = h.adapter
  <1>1. /\ h \in HeapRec /\ ~h.stale /\ Related(h) /\ Listed(h) /\ Dispatching(h) /\ Threads(h) /\ Filed(h)
    BY DEF Sound
  <1>2. d \in DOMAIN h.device /\ h.device[d].refs > 0 BY DEF AddsT
  <1>3. /\ g \in HeapRec /\ t \in Nat /\ t # None /\ t \notin DOMAIN h.transport
        /\ DOMAIN g.transport = DOMAIN h.transport \cup {t}
        /\ \A u \in DOMAIN h.transport : g.transport[u] = h.transport[u]
    BY <1>1, NewTransportIs
  <1>4. /\ DOMAIN g.device = DOMAIN h.device
        /\ \A e \in DOMAIN h.device :
             /\ g.device[e].refs = IF e = d THEN h.device[e].refs + 1 ELSE h.device[e].refs
             /\ g.device[e].transport = IF e = d THEN t ELSE h.device[e].transport
             /\ g.device[e].addr = h.device[e].addr /\ g.device[e].adapter = h.device[e].adapter
             /\ g.device[e].battery = h.device[e].battery
    BY <1>1, NewTransportIs
  <1>5. /\ g.adapter = h.adapter /\ g.listed = h.listed /\ g.store = h.store /\ g.stale = h.stale
    BY <1>1, NewTransportIs
  <1> DEFINE r == g.transport[t]
  <1>6. /\ r \in TransportRec /\ r.device = d /\ r.refs = 3 /\ r.exported /\ r.calls = 0 /\ ~r.client
        /\ r.sco /\ r.thread = "run" /\ r.freer = NoOne /\ ThreadOk(r)
    <2>1. PICK l \in Nat : g.transport[t] = NewLink(d, l) BY <1>1, NewTransportIs
    <2>2. d \in Nat BY <1>1, <1>2, HeapIs
    <2> QED BY <2>1, <2>2, NewLinkIs
  <1> HIDE DEF r
  <1>7. \A u \in DOMAIN h.transport : h.transport[u].device \in DOMAIN h.device /\ u # t
    BY <1>1, <1>3 DEF Related
  <1>8. \A e \in DOMAIN h.device : /\ h.device[e].adapter \in DOMAIN h.adapter /\ h.device[e].refs \in Nat
                                   /\ g.device[e].refs > 0 <=> h.device[e].refs > 0
    <2>1. ASSUME NEW e \in DOMAIN h.device
          PROVE  h.device[e].adapter \in DOMAIN h.adapter /\ h.device[e].refs \in Nat
      <3>1. h.device[e] \in DeviceRec BY <1>1, HeapIs
      <3> QED BY <3>1, <1>1 DEF Related, DeviceRec
    <2> QED BY <2>1, <1>2, <1>4
  <1>9. \A b : (Looks(g, b) <=> Looks(h, b)) /\ (Serves(g, b) <=> Serves(h, b))
    BY <1>5 DEF Looks, Serves
  <1>10. Related(g)
    <2>1. ASSUME NEW e \in DOMAIN g.device
          PROVE  /\ g.device[e].adapter \in DOMAIN g.adapter
                 /\ g.device[e].transport # None =>
                      /\ g.device[e].transport \in DOMAIN g.transport
                      /\ g.transport[g.device[e].transport].device = e
                      /\ g.transport[g.device[e].transport].refs > 0
      <3>0. e \in DOMAIN h.device BY <2>1, <1>4
      <3>1. g.device[e].adapter \in DOMAIN g.adapter BY <3>0, <1>4, <1>5, <1>8
      <3>2. CASE e = d
        <4>1. g.device[e].transport = t BY <3>0, <3>2, <1>4
        <4> QED BY <3>1, <3>2, <4>1, <1>3, <1>6 DEF r
      <3>3. CASE e # d
        <4>1. g.device[e].transport = h.device[e].transport BY <3>0, <3>3, <1>4
        <4>2. h.device[e].transport # None =>
                      /\ h.device[e].transport \in DOMAIN h.transport
                      /\ h.transport[h.device[e].transport].device = e
                      /\ h.transport[h.device[e].transport].refs > 0
          BY <3>0, <1>1 DEF Related
        <4> QED BY <3>1, <4>1, <4>2, <1>3
      <3> QED BY <3>2, <3>3
    <2>2. \A u \in DOMAIN g.transport : g.transport[u].device \in DOMAIN g.device
      BY <1>2, <1>3, <1>4, <1>6, <1>7 DEF r
    <2> QED BY <2>1, <2>2 DEF Related
  <1>11. Listed(g)
    <2>1. ASSUME NEW b \in DOMAIN h.adapter, NEW y \in Address PROVE Found(g, b, y)
      <3>1. Found(h, b, y) BY <1>1 DEF Listed
      <3> QED BY <3>1, <1>4, <1>5, <1>8 DEF Found
    <2> QED BY <2>1, <1>1, <1>5 DEF Listed
  <1>12. Dispatching(g)
    <2>1. ASSUME NEW b \in DOMAIN h.adapter, Serves(h, b)
          PROVE  /\ h.adapter[b].held[2] \in DOMAIN g.transport
                 /\ g.transport[h.adapter[b].held[2]].device = h.adapter[b].held[1]
      BY <1>1, <1>3, <2>1 DEF Dispatching
    <2>2. ASSUME NEW b \in DOMAIN h.adapter, Looks(h, b)
          PROVE  /\ h.adapter[b].held # << >>
                 /\ h.adapter[b].held[1] \in DOMAIN g.device
                 /\ g.device[h.adapter[b].held[1]].adapter = b
      BY <1>1, <1>4, <2>2 DEF Dispatching
    <2> QED BY <2>1, <2>2, <1>5, <1>9 DEF Dispatching
  <1>13. Threads(g)
    <2>1. ASSUME NEW u \in DOMAIN g.transport PROVE ThreadOk(g.transport[u])
      <3>1. CASE u = t BY <3>1, <1>6 DEF r
      <3>2. CASE u # t
        <4>1. u \in DOMAIN h.transport /\ g.transport[u] = h.transport[u] BY <2>1, <3>2, <1>3
        <4>2. ThreadOk(h.transport[u]) BY <4>1, TransportIsHeld
        <4> QED BY <4>1, <4>2
      <3> QED BY <3>1, <3>2
    <2> QED BY <2>1 DEF Threads, ThreadOk
  <1>14. Filed(g)
    <2>1. ASSUME NEW y \in Address, g.store[y] # NoEntry
          PROVE  \E e \in DOMAIN g.device : g.device[e].addr = y /\ g.device[e].refs > 0
      <3>1. PICK e \in DOMAIN h.device : h.device[e].addr = y /\ h.device[e].refs > 0
        BY <2>1, <1>1, <1>5 DEF Filed
      <3>2. g.device[e].addr = y /\ g.device[e].refs > 0 /\ e \in DOMAIN g.device BY <3>1, <1>4, <1>8
      <3> QED BY <3>2
    <2> QED BY <2>1 DEF Filed
  <1>15. \A u \in DOMAIN h.transport : Served(g, u) <=> Served(h, u)
    <2>1. \A u \in DOMAIN h.transport :
            /\ g.transport[u].device = h.transport[u].device
            /\ g.device[h.transport[u].device].adapter = h.device[h.transport[u].device].adapter
      BY <1>3, <1>4, <1>7
    <2> QED BY <2>1, <1>5, <1>9 DEF Served
  <1>16. ~Served(g, t)
    <2> DEFINE a == h.device[d].adapter
    <2>1. Served(g, t) <=> Serves(g, a) /\ g.adapter[a].held[2] = t
      <3>1. g.device[g.transport[t].device].adapter = a BY <1>2, <1>4, <1>6 DEF r
      <3> QED BY <3>1 DEF Served
    <2>2. a \in DOMAIN h.adapter BY <1>2, <1>8
    <2>3. Serves(h, a) => h.adapter[a].held[2] \in DOMAIN h.transport BY <2>2, <1>1 DEF Dispatching
    <2> QED BY <2>1, <2>3, <1>3, <1>5, <1>9
  <1>17. \A e \in DOMAIN h.device : Looked(g, e) <=> Looked(h, e)
    <2>1. \A e \in DOMAIN h.device : g.device[e].adapter = h.device[e].adapter BY <1>4
    <2> QED BY <2>1, <1>5, <1>9 DEF Looked
  <1>18. ASSUME NEW u \in DOMAIN g.transport PROVE TransportHeld(g, u, fs[u])
    <2>1. CASE u = t
      <3>1. fs[u] = 1 BY <2>1, <1>3 DEF Moved
      <3>2. /\ One(r.exported \/ r.calls > 0) = 1 /\ One(r.client) = 0 /\ One(r.sco) = 1
            /\ One(r.thread = "destroying") = 0
        BY <1>6 DEF One
      <3>3. One(Served(g, u)) = 0 BY <2>1, <1>16 DEF One
      <3>4. r.refs = 3 BY <1>6
      <3> QED BY <2>1, <3>1, <3>2, <3>3, <3>4 DEF TransportHeld, r
    <2>2. CASE u # t
      <3>1. u \in DOMAIN h.transport /\ g.transport[u] = h.transport[u] BY <1>18, <2>2, <1>3
      <3>2. u \in Nat BY <3>1, <1>1, HeapIs
      <3>3. fs[u] = et[u] BY <2>2, <3>2 DEF Moved
      <3>4. TransportHeld(h, u, et[u]) BY <3>1 DEF Sound, Counted
      <3>5. One(Served(g, u)) = One(Served(h, u)) BY <3>1, <1>15 DEF One
      <3> QED BY <3>1, <3>3, <3>4, <3>5 DEF TransportHeld
    <2> QED BY <2>1, <2>2
  <1>k. Kept(r) BY <1>6 DEF Kept
  <1>19. ASSUME NEW e \in DOMAIN g.device PROVE DeviceHeld(g, e, ed[e])
    <2>1. /\ e \in DOMAIN h.device /\ DeviceHeld(h, e, ed[e]) /\ g.device[e].battery = h.device[e].battery
          /\ One(Looked(g, e)) = One(Looked(h, e))
      BY <1>4, <1>17, <1>19 DEF Sound, Counted, One
    <2>e. e \in Nat BY <2>1, <1>1, HeapIs
    <2>0. \A u \in DOMAIN g.transport :
            g.transport[u].device = e /\ Kept(g.transport[u]) <=>
              (u = t /\ e = d) \/ (u \in DOMAIN h.transport /\ h.transport[u].device = e /\ Kept(h.transport[u]))
      BY <1>3, <1>6, <1>7, <1>k DEF r
    <2>2. CASE e = d
      <3>1. TransportsOf(g, e) = TransportsOf(h, e) \cup {t} BY <2>0, <2>2, <1>3 DEF TransportsOf
      <3>2. t \notin TransportsOf(h, e) /\ IsFiniteSet(TransportsOf(h, e))
        <4>1. t \notin TransportsOf(h, e) BY <1>3 DEF TransportsOf
        <4> QED BY <4>1, <1>1, Finite
      <3> DEFINE c == Cardinality(TransportsOf(h, e))
                 k == Cardinality(TransportsOf(g, e))
      <3>3. k = c + 1 BY <3>1, <3>2, GainOne
      <3>4. c \in Nat /\ ed[e] \in Nat BY <2>e, <1>1, Finite DEF Counts
      <3>5. h.device[e].refs = c + One(h.device[e].battery) + One(Looked(h, e)) + ed[e]
        BY <2>1 DEF DeviceHeld
      <3>6. g.device[e].refs = h.device[e].refs + 1 BY <2>1, <2>2, <1>4
      <3>7. One(h.device[e].battery) \in Nat /\ One(Looked(h, e)) \in Nat BY DEF One
      <3> HIDE DEF c, k
      <3>8. g.device[e].refs = k + One(g.device[e].battery) + One(Looked(g, e)) + ed[e]
        BY <2>1, <3>3, <3>4, <3>5, <3>6, <3>7
      <3> QED BY <3>8 DEF k, DeviceHeld
    <2>3. CASE e # d
      <3>1. TransportsOf(g, e) = TransportsOf(h, e) BY <2>0, <2>3, <1>3 DEF TransportsOf
      <3>2. g.device[e].refs = h.device[e].refs BY <2>1, <2>3, <1>4
      <3> QED BY <3>1, <3>2, <2>1 DEF DeviceHeld
    <2> QED BY <2>2, <2>3
  <1>20. ASSUME NEW b \in DOMAIN g.adapter PROVE AdapterHeld(g, b, ea[b])
    <2>1. AdapterHeld(h, b, ea[b]) BY <1>5, <1>20 DEF Sound, Counted
    <2>2. DevicesOf(g, b) = DevicesOf(h, b) BY <1>4, <1>8 DEF DevicesOf
    <2> QED BY <2>1, <2>2, <1>5 DEF AdapterHeld
  <1>21. t \in DOMAIN g.transport /\ d \in DOMAIN g.device BY <1>2, <1>3, <1>4
  <1> QED BY <1>1, <1>3, <1>5, <1>10, <1>11, <1>12, <1>13, <1>14, <1>18, <1>19, <1>20, <1>21
      DEF Sound, Counted

----------------------------------------------------------------------------
(* A device connects *)

LEMMA NobodyIn == \A i \in Nat : ByMainT(<< >>)[i] = 0 /\ ByMainD(<< >>)[i] = 0
  <1>1. \A dos, id : ~InMain(<< >>, dos, id) BY DEF InMain
  <1>2. \A dos, id : One(InMain(<< >>, dos, id)) = 0 BY <1>1 DEF One
  <1>3. \A i \in Nat : ByMainT(<< >>)[i] = One(InMain(<< >>, OfTransport, i))
                       /\ ByMainD(<< >>)[i] = One(InMain(<< >>, OfDevice, i))
    BY ByMainIs
  <1> QED BY <1>2, <1>3

\* The dispatcher of an adapter starts.
Polls(g, h, a) == g = [h EXCEPT !.adapter[a].dispatcher = IF @ = "none" THEN "poll" ELSE @]

LEMMA PollsSound ==
  ASSUME NEW h, NEW et \in Counts, NEW ed \in Counts, NEW ea \in Counts, Sound(h, et, ed, ea),
         NEW a \in DOMAIN h.adapter, NEW g, Polls(g, h, a)
  PROVE  Sound(g, et, ed, ea) /\ SameLife(h, g)
  <1> DEFINE q == h.adapter[a]
             p == [q EXCEPT !.dispatcher = IF @ = "none" THEN "poll" ELSE @]
             k == SetA(h, a, p)
  <1>1. h \in HeapRec BY DEF Sound
  <1>2. q \in AdapterRec /\ q.refs = Cardinality(DevicesOf(h, a)) + ea[a] /\ ea[a] \in Nat /\ a \in Nat
    <2>1. /\ h.adapter[a] \in AdapterRec /\ a \in Nat /\ ea[a] \in Nat
          /\ h.adapter[a].refs = Cardinality(DevicesOf(h, a)) + ea[a]
      BY AdapterIsHeld
    <2> QED BY ONLY <2>1
  <1>3. g = k BY <1>1 DEF Polls, SetA, HeapRec
  <1>4. /\ p \in AdapterRec /\ p.devices = q.devices /\ p.held = q.held /\ p.refs = q.refs
        /\ p.dispatcher = IF q.dispatcher = "none" THEN "poll" ELSE q.dispatcher
    BY <1>2 DEF AdapterRec
  <1>5. \/ p.dispatcher = q.dispatcher
        \/ {p.dispatcher, q.dispatcher} \subseteq {"none", "poll", "ended"}
    BY <1>4
  <1>6. Moved(ea, ea, a, ea[a]) BY DEF Moved
  <1> HIDE DEF p
  <1>7. /\ DOMAIN k.adapter = DOMAIN h.adapter
        /\ k.transport = h.transport /\ k.device = h.device
    BY <1>1, <1>4, SetAIs
  <1>8. SameLife(h, k) BY <1>7 DEF SameLife
  <1>9. /\ p.devices = h.adapter[a].devices /\ p.held = h.adapter[a].held /\ p.refs = h.adapter[a].refs
        /\ \/ p.dispatcher = h.adapter[a].dispatcher
           \/ {p.dispatcher, h.adapter[a].dispatcher} \subseteq {"none", "poll", "ended"}
        /\ p.refs = Cardinality(DevicesOf(h, a)) + ea[a]
    BY <1>2, <1>4, <1>5
  <1> HIDE DEF k, q
  <1>10. Sound(SetA(h, a, p), et, ed, ea)
    BY <1>2, <1>4, <1>6, <1>9, EditAdapter
  <1> QED BY <1>3, <1>8, <1>10 DEF k

\* The device of an address, found in the table or new, is held by its caller.
Finds(h, k, x, a) ==
  h = IF k.adapter[a].devices[x] = None THEN NewDevice(k, x)
      ELSE [k EXCEPT !.device[k.adapter[a].devices[x]].refs = @ + 1]

LEMMA FindsSound ==
  ASSUME NEW k, NEW et \in Counts, NEW ed \in Counts, NEW ea \in Counts, Sound(k, et, ed, ea),
         NEW x \in Address, NEW a \in DOMAIN k.adapter, k.listed = a,
         \A i \in Nat : ed[i] = 0, NEW h, Finds(h, k, x, a), NEW d, d = h.adapter[a].devices[x]
  PROVE  /\ d \in DOMAIN h.device /\ d \in Nat /\ h.device[d].refs > 0
         /\ Sound(h, et, Plus(ed, d), ea) /\ DOMAIN h.adapter = DOMAIN k.adapter
  <1>1. CASE k.adapter[a].devices[x] = None
    <2> DEFINE e == Len(k.device) + 1
               fs == Plus(ed, e)
    <2>1. k \in HeapRec BY DEF Sound
    <2>2. e \in Nat
      <3>1. Len(k.device) \in Nat BY <2>1, HeapIs
      <3> QED BY <3>1
    <2>3. AddsD(h, k, x, a, e) BY <1>1 DEF AddsD, Finds
    <2>4. fs \in Counts /\ fs[e] = ed[e] + 1 /\ Moved(ed, fs, e, ed[e] + 1) BY <2>2, PlusIs
    <2>5. ed[e] = 0 BY <2>2
    <2>6. Moved(ed, fs, e, 1) BY <2>4, <2>5
    <2> HIDE DEF e, fs
    <2>7. /\ Sound(h, et, fs, ea) /\ e \in DOMAIN h.device
          /\ h.adapter[a].devices[x] = e /\ DOMAIN h.adapter = DOMAIN k.adapter
      BY <2>3, <2>4, <2>6, NewDeviceSound
    <2>8. /\ h.device[e].refs = Cardinality(TransportsOf(h, e)) + One(h.device[e].battery)
                                  + One(Looked(h, e)) + fs[e]
          /\ Cardinality(TransportsOf(h, e)) \in Nat /\ One(h.device[e].battery) \in Nat
          /\ One(Looked(h, e)) \in Nat
      BY <2>4, <2>7, DeviceIsHeld
    <2>9. fs[e] = 1 BY <2>4, <2>5
    <2>10. h.device[e].refs > 0 BY <2>8, <2>9
    <2> QED BY <2>2, <2>7, <2>10 DEF fs
  <1>2. CASE k.adapter[a].devices[x] # None
    <2> DEFINE e == k.adapter[a].devices[x]
               fs == Plus(ed, e)
    <2>1. e \in DOMAIN k.device /\ e \in Nat /\ k.device[e].refs > 0 BY <1>2, InTable
    <2>2. fs \in Counts /\ Moved(ed, fs, e, ed[e] + 1) BY <2>1, PlusIs
    <2>3. TakesD(h, k, e) BY <1>2 DEF TakesD, Finds
    <2> HIDE DEF e, fs
    <2>4. Sound(h, et, fs, ea) /\ SameBut(k, h) /\ h.adapter = k.adapter /\ h.device[e].refs > 0
      <3>1. LiveD(k, e) /\ Gains(ed, fs, e) BY <2>1, <2>2 DEF LiveD, Gains
      <3>2. /\ et \in Counts /\ ed \in Counts /\ ea \in Counts /\ fs \in Counts
            /\ Sound(k, et, ed, ea)
        BY <2>2
      <3>3. Sound(h, et, fs, ea) /\ SameBut(k, h)
        BY ONLY <3>1, <3>2, <2>3, TakeDevice
      <3>4. h.adapter = k.adapter /\ LiveD(h, e)
        BY ONLY <3>1, <3>2, <2>3, TakeDevice
      <3> QED BY ONLY <3>3, <3>4 DEF LiveD
    <2>5. h.adapter[a].devices[x] = e BY <2>4 DEF e
    <2>6. e \in DOMAIN h.device BY <2>1, <2>4 DEF SameBut, SameLife
    <2> QED BY <2>1, <2>4, <2>5, <2>6 DEF fs
  <1> QED BY <1>1, <1>2

\* The transport and the dispatcher of the new connection.
Connects(g, h, d, a) ==
  g = [NewTransport(h, d) EXCEPT !.adapter[a].dispatcher = IF @ = "none" THEN "poll" ELSE @]

LEMMA ConnectsSound ==
  ASSUME NEW h, NEW et \in Counts, NEW ed \in Counts, NEW ea \in Counts, Sound(h, et, ed, ea),
         NEW d \in DOMAIN h.device, h.device[d].refs > 0, NEW t, t = Len(h.transport) + 1,
         NEW a \in DOMAIN h.adapter, \A i \in Nat : et[i] = 0, NEW g, Connects(g, h, d, a)
  PROVE  /\ Sound(g, Plus(et, t), ed, ea) /\ t \in DOMAIN g.transport /\ t \in Nat
         /\ d \in DOMAIN g.device /\ DOMAIN g.adapter = DOMAIN h.adapter
  <1> DEFINE n == NewTransport(h, d)
             fs == Plus(et, t)
  <1>1. t \in Nat
    <2>1. Len(h.transport) \in Nat BY HeapIs DEF Sound
    <2> QED BY <2>1
  <1>2. fs \in Counts /\ Moved(et, fs, t, et[t] + 1) BY <1>1, PlusIs
  <1>3. et[t] = 0 BY <1>1
  <1>4. Moved(et, fs, t, 1) BY <1>2, <1>3
  <1>5. AddsT(n, h, d, t) BY DEF AddsT
  <1>6. Polls(g, n, a) BY DEF Polls, Connects
  <1> HIDE DEF n, fs
  <1>7. /\ Sound(n, fs, ed, ea) /\ t \in DOMAIN n.transport /\ d \in DOMAIN n.device
        /\ n.adapter = h.adapter
    BY <1>2, <1>4, <1>5, NewTransportSound
  <1>8. Sound(g, fs, ed, ea) /\ SameLife(n, g) BY <1>2, <1>6, <1>7, PollsSound
  <1> QED BY <1>1, <1>7, <1>8 DEF fs, SameLife

LEMMA NewConnectionKeeps ==
  ASSUME Inv, NEW x \in Address, NewConnection(x)
  PROVE  Inv'
  <1> DEFINE a == bluez
             et == ByMainT(<< >>)
             ed == ByMainD(<< >>)
             ea == ByMainA(<< >>, bluez)
             known == heap.adapter[a].devices[x]
             h == IF known = None THEN NewDevice(heap, x)
                  ELSE [heap EXCEPT !.device[known].refs = @ + 1]
             d == h.adapter[a].devices[x]
             t == Len(h.transport) + 1
             g == [NewTransport(h, d) EXCEPT !.adapter[a].dispatcher = IF @ = "none" THEN "poll" ELSE @]
             i == DeviceUnref(g, d, Main)
  <1>1. /\ ~heap.stale /\ main = << >> /\ main' = << >> /\ bluez # None /\ bluez' = bluez
        /\ heap' = IF Busy(h, d) THEN DeviceUnref(h, d, Main) ELSE TransportUnref(i, t, Main)
    BY DEF NewConnection, Idle, Runs
  <1>2. Sound(heap, et, ed, ea) /\ et \in Counts /\ ed \in Counts /\ ea \in Counts
    BY <1>1, InvIs
  <1>3. a \in DOMAIN heap.adapter /\ a \in Nat /\ heap.adapter[a].refs > 0 BY <1>1, BluezIsHeld
  <1>4. heap.listed = a BY <1>2, <1>3 DEF Sound, Listed
  <1>5. \A j \in Nat : et[j] = 0 /\ ed[j] = 0 BY NobodyIn
  <1>6. Finds(h, heap, x, a) BY DEF Finds
  <1>7. Main \in Who /\ Main # NoOne BY WhoIs
  <1> HIDE DEF a, et, ed, ea, h
  <1> HIDE DEF known
  <1>8. /\ d \in DOMAIN h.device /\ d \in Nat /\ h.device[d].refs > 0
        /\ Sound(h, et, Plus(ed, d), ea) /\ DOMAIN h.adapter = DOMAIN heap.adapter
    BY <1>2, <1>3, <1>4, <1>5, <1>6, FindsSound
  <1> HIDE DEF d
  <1>9. /\ Plus(ed, d) \in Counts /\ Plus(ed, d)[d] > 0
        /\ Moved(Plus(ed, d), ed, d, Plus(ed, d)[d] - 1)
    BY <1>2, <1>8, PlusIs
  <1>10. CASE Busy(h, d)
    <2>1. heap' = DeviceUnref(h, d, Main) BY <1>1, <1>10
    <2>2. Sound(heap', et, ed, ea) /\ SameLife(h, heap')
      BY <1>2, <1>7, <1>8, <1>9, <2>1, UnrefDevice
    <2>3. bluez' \in DOMAIN heap'.adapter BY <1>1, <1>3, <1>8, <2>2 DEF SameLife, a
    <2> QED BY <1>1, <2>2, <2>3, IdleKeeps DEF et, ed, ea
  <1>11. CASE ~Busy(h, d)
    <2>1. Connects(g, h, d, a) BY DEF Connects
    <2>2. heap' = TransportUnref(i, t, Main) BY <1>1, <1>11
    <2> HIDE DEF g
    <2>3. /\ Sound(g, Plus(et, t), Plus(ed, d), ea) /\ t \in DOMAIN g.transport /\ t \in Nat
          /\ d \in DOMAIN g.device /\ DOMAIN g.adapter = DOMAIN h.adapter
      <3>1. a \in DOMAIN h.adapter BY <1>3, <1>8
      <3> HIDE DEF t
      <3> QED BY <1>2, <1>5, <1>8, <1>9, <2>1, <3>1, ConnectsSound DEF t
    <2> HIDE DEF t
    <2>4. /\ Plus(et, t) \in Counts /\ Plus(et, t)[t] > 0
          /\ Moved(Plus(et, t), et, t, Plus(et, t)[t] - 1)
      BY <1>2, <2>3, PlusIs
    <2>5. Sound(i, Plus(et, t), ed, ea) /\ SameLife(g, i)
      BY <1>2, <1>7, <1>9, <2>3, <2>4, UnrefDevice
    <2> HIDE DEF i
    <2>6. t \in DOMAIN i.transport BY <2>3, <2>5 DEF SameLife
    <2>7. Sound(heap', et, ed, ea) /\ SameLife(i, heap')
      BY <1>2, <1>7, <2>2, <2>4, <2>5, <2>6, UnrefTransport
    <2>8. bluez' \in DOMAIN heap'.adapter
      BY <1>1, <1>3, <1>8, <2>3, <2>5, <2>7 DEF SameLife, a
    <2> QED BY <1>1, <2>7, <2>8, IdleKeeps DEF et, ed, ea
  <1> QED BY <1>10, <1>11

----------------------------------------------------------------------------
(* The dispatcher takes and gives back *)

\* What the dispatcher of an adapter holds.
HandsT(h, a, t) == Serves(h, a) /\ h.adapter[a].held[2] = t
HandsD(h, a, d) == Looks(h, a) /\ h.adapter[a].held[1] = d

Turns(g, h, a, to, held) == g = [h EXCEPT !.adapter[a].dispatcher = to, !.adapter[a].held = held]

\* The dispatcher may hold this there.
MayHold(h, a, to, held) ==
  /\ to \in {"device", "serve"} =>
       held # << >> /\ held[1] \in DOMAIN h.device /\ h.device[held[1]].adapter = a
  /\ to = "serve" => held[2] \in DOMAIN h.transport /\ h.transport[held[2]].device = held[1]

\* What the dispatcher takes and gives back is held outside the heap in between.
BalancedT(h, a, to, held, et, ft) ==
  \A t \in DOMAIN h.transport :
    One(to = "serve" /\ held[2] = t) + ft[t] = One(HandsT(h, a, t)) + et[t]
BalancedD(h, a, to, held, ed, fd) ==
  \A d \in DOMAIN h.device :
    One(to \in {"device", "serve"} /\ held[1] = d) + fd[d] = One(HandsD(h, a, d)) + ed[d]

LEMMA Dispatches ==
  ASSUME NEW h, NEW et \in Counts, NEW ed \in Counts, NEW ea \in Counts, Sound(h, et, ed, ea),
         NEW a \in DOMAIN h.adapter, NEW to \in {"poll", "device", "serve"},
         NEW held \in {<< >>} \cup (Nat \X Nat), MayHold(h, a, to, held),
         NEW g, Turns(g, h, a, to, held), NEW ft \in Counts, NEW fd \in Counts,
         BalancedT(h, a, to, held, et, ft), BalancedD(h, a, to, held, ed, fd)
  PROVE  Sound(g, ft, fd, ea) /\ SameLife(h, g)
  <1> DEFINE q == h.adapter[a]
             p == [q EXCEPT !.dispatcher = to, !.held = held]
             k == SetA(h, a, p)
  <1>1. h \in HeapRec /\ Related(h) /\ Dispatching(h) BY DEF Sound
  <1>2. q \in AdapterRec BY AdapterIsHeld
  <1>3. g = k BY <1>1 DEF Turns, SetA, HeapRec
  <1>4. p \in AdapterRec /\ p.devices = q.devices /\ p.held = held /\ p.refs = q.refs /\ p.dispatcher = to
    BY <1>2 DEF AdapterRec
  <1> HIDE DEF p
  <1>5. /\ k \in HeapRec /\ DOMAIN k.adapter = DOMAIN h.adapter
        /\ \A b \in DOMAIN h.adapter : k.adapter[b] = IF b = a THEN p ELSE h.adapter[b]
        /\ k.transport = h.transport /\ k.device = h.device /\ k.listed = h.listed
        /\ k.store = h.store /\ k.file = h.file /\ k.stale = h.stale
    BY <1>1, <1>4, SetAIs
  <1> HIDE DEF k
  <1>6. AdapterShape(h, k, a, p) BY <1>5 DEF AdapterShape
  <1>7. /\ Looks(k, a) <=> to \in {"device", "serve"}
        /\ Serves(k, a) <=> to = "serve"
        /\ k.adapter[a].held = held
    BY <1>4, <1>5 DEF Looks, Serves
  <1>8. \A b \in DOMAIN h.adapter : b # a =>
          /\ Looks(k, b) <=> Looks(h, b)
          /\ Serves(k, b) <=> Serves(h, b)
          /\ k.adapter[b].held = h.adapter[b].held
    BY <1>5 DEF Looks, Serves
  <1>9. Dispatching(k)
    <2>1. ASSUME NEW b \in DOMAIN h.adapter
          PROVE  /\ Looks(k, b) => /\ k.adapter[b].held # << >>
                                   /\ k.adapter[b].held[1] \in DOMAIN h.device
                                   /\ h.device[k.adapter[b].held[1]].adapter = b
                 /\ Serves(k, b) => /\ k.adapter[b].held[2] \in DOMAIN h.transport
                                    /\ h.transport[k.adapter[b].held[2]].device = k.adapter[b].held[1]
      <3>1. CASE b = a BY <1>7, <3>1 DEF MayHold
      <3>2. CASE b # a BY <1>1, <1>8, <3>2 DEF Dispatching
      <3> QED BY <3>1, <3>2
    <2> QED BY <2>1, <1>5 DEF Dispatching
  <1>10. ASSUME NEW t \in DOMAIN h.transport
         PROVE  One(Served(k, t)) + ft[t] = One(Served(h, t)) + et[t]
    <2> DEFINE b == h.device[h.transport[t].device].adapter
    <2>1. h.transport[t].device \in DOMAIN h.device /\ b \in DOMAIN h.adapter BY <1>1 DEF Related
    <2>2. (Served(k, t) <=> HandsT(k, b, t)) /\ (Served(h, t) <=> HandsT(h, b, t))
      BY <1>5 DEF Served, HandsT
    <2>6. ft[t] \in Nat /\ et[t] \in Nat
      <3>1. t \in Nat BY <1>1, HeapIs
      <3> QED BY <3>1 DEF Counts
    <2>3. One(to = "serve" /\ held[2] = t) + ft[t] = One(HandsT(h, a, t)) + et[t] BY DEF BalancedT
    <2> HIDE DEF b
    <2>4. CASE b = a
      <3>1. HandsT(k, a, t) <=> to = "serve" /\ held[2] = t BY <1>7 DEF HandsT
      <3> QED BY <2>2, <2>3, <2>4, <3>1 DEF One
    <2>5. CASE b # a
      <3>1. HandsT(k, b, t) <=> HandsT(h, b, t) BY <1>8, <2>1, <2>5 DEF HandsT
      <3>2. ~(to = "serve" /\ held[2] = t) BY <2>5 DEF MayHold, b
      <3>3. ~HandsT(h, a, t)
        <4>1. SUFFICES ASSUME HandsT(h, a, t) PROVE FALSE OBVIOUS
        <4>2. Serves(h, a) /\ Looks(h, a) /\ h.adapter[a].held[2] = t BY <4>1 DEF HandsT, Serves, Looks
        <4>3. h.transport[t].device = h.adapter[a].held[1] /\ h.device[h.adapter[a].held[1]].adapter = a
          BY <1>1, <4>2 DEF Dispatching
        <4> QED BY <4>3, <2>5 DEF b
      <3>4. ft[t] = et[t] BY <2>3, <2>6, <3>2, <3>3 DEF One
      <3>5. One(Served(k, t)) = One(Served(h, t)) BY <2>2, <3>1 DEF One
      <3> QED BY <3>4, <3>5
    <2> QED BY <2>4, <2>5
  <1>11. ASSUME NEW d \in DOMAIN h.device
         PROVE  One(Looked(k, d)) + fd[d] = One(Looked(h, d)) + ed[d]
    <2> DEFINE b == h.device[d].adapter
    <2>1. b \in DOMAIN h.adapter BY <1>1 DEF Related
    <2>2. (Looked(k, d) <=> HandsD(k, b, d)) /\ (Looked(h, d) <=> HandsD(h, b, d))
      BY <1>5 DEF Looked, HandsD
    <2>6. fd[d] \in Nat /\ ed[d] \in Nat
      <3>1. d \in Nat BY <1>1, HeapIs
      <3> QED BY <3>1 DEF Counts
    <2>3. One(to \in {"device", "serve"} /\ held[1] = d) + fd[d] = One(HandsD(h, a, d)) + ed[d] BY DEF BalancedD
    <2> HIDE DEF b
    <2>4. CASE b = a
      <3>1. HandsD(k, a, d) <=> to \in {"device", "serve"} /\ held[1] = d BY <1>7 DEF HandsD
      <3> QED BY <2>2, <2>3, <2>4, <3>1 DEF One
    <2>5. CASE b # a
      <3>1. HandsD(k, b, d) <=> HandsD(h, b, d) BY <1>8, <2>1, <2>5 DEF HandsD
      <3>2. ~(to \in {"device", "serve"} /\ held[1] = d) BY <2>5 DEF MayHold, b
      <3>3. ~HandsD(h, a, d) BY <1>1, <2>5 DEF Dispatching, HandsD, b
      <3>4. fd[d] = ed[d] BY <2>3, <2>6, <3>2, <3>3 DEF One
      <3>5. One(Looked(k, d)) = One(Looked(h, d)) BY <2>2, <3>1 DEF One
      <3> QED BY <3>4, <3>5
    <2> QED BY <2>4, <2>5
  <1>12. p.refs = h.adapter[a].refs /\ \A x \in Address : p.devices[x] \in {None, h.adapter[a].devices[x]}
    BY <1>4
  <1>13. SameLife(h, k) BY <1>5 DEF SameLife
  <1> HIDE DEF q
  <1>14. k.listed = h.listed /\ k \in HeapRec BY <1>5
  <1>15. Sound(k, ft, fd, ea)
    BY <1>4, <1>6, <1>9, <1>10, <1>11, <1>12, <1>14, AdapterTurns
  <1> QED BY <1>3, <1>13, <1>15

LEMMA PlusAt ==
  ASSUME NEW f \in Counts, NEW i \in Nat, NEW j \in Nat
  PROVE  Plus(f, i)[j] = f[j] + One(i = j) /\ f[j] \in Nat
  BY DEF Plus, Counts, One

\* What is in the table of an adapter is in use.
LEMMA TableEntry ==
  ASSUME NEW h, NEW et \in Counts, NEW ed \in Counts, NEW ea \in Counts, Sound(h, et, ed, ea),
         NEW a \in DOMAIN h.adapter, NEW x \in Address, NEW d, d = h.adapter[a].devices[x], d # None
  PROVE  /\ d \in DOMAIN h.device /\ h.device[d].refs > 0
         /\ h.device[d].adapter = a /\ h.device[d].addr = x
  <1>1. Found(h, a, x) /\ h \in HeapRec BY DEF Sound, Listed
  <1>2. /\ d \in DOMAIN h.device /\ h.device[d].refs > 0
        /\ h.device[d].adapter = a /\ h.device[d].addr = x
    BY <1>1 DEF Found
  <1> QED BY <1>2

LEMMA AcceptKeeps ==
  ASSUME Inv, NEW a \in Adapters, NEW x \in Address, Accept(a, x)
  PROVE  Inv'
  <1> DEFINE d == heap.adapter[a].devices[x]
             et == ByMainT(main)
             ed == ByMainD(main)
             ea == ByMainA(main, bluez)
             k == [heap EXCEPT !.device[d].refs = @ + 1]
             fd == Plus(ed, d)
             held == <<d, None>>
  <1>1. /\ ~heap.stale /\ main' = main /\ bluez' = bluez /\ crossed' = crossed
        /\ heap.adapter[a].dispatcher = "poll" /\ d # None
    BY DEF Accept, DispatcherGoes, Runs
  <1>2. Sound(heap, et, ed, ea) /\ et \in Counts /\ ed \in Counts /\ ea \in Counts /\ heap \in HeapRec
    BY <1>1, InvIs
  <1>3. a \in DOMAIN heap.adapter /\ a \in Nat BY <1>2, HeapIs DEF Adapters
  <1>4. heap' = [k EXCEPT !.adapter[a].dispatcher = "device", !.adapter[a].held = held]
    BY DEF Accept
  <1>5. TakesD(k, heap, d) BY DEF TakesD
  <1> HIDE DEF et, ed, ea, k
  <1>6. /\ d \in DOMAIN heap.device /\ d \in Nat /\ heap.device[d].refs > 0
        /\ heap.device[d].adapter = a
    <2>1. Sound(heap, et, ed, ea) /\ et \in Counts /\ ed \in Counts /\ ea \in Counts BY <1>2
    <2>2. a \in DOMAIN heap.adapter BY <1>3
    <2>5. heap.adapter[a].devices[x] # None BY <1>1
    <2>3. d \in DOMAIN heap.device /\ heap.device[d].refs > 0 /\ heap.device[d].adapter = a
      BY <2>1, <2>2, <2>5, TableEntry
    <2>4. d \in Nat BY <1>2, <2>3, HeapIs
    <2> QED BY <2>3, <2>4
  <1> HIDE DEF d
  <1>7. fd \in Counts /\ Moved(ed, fd, d, ed[d] + 1) BY <1>2, <1>6, PlusIs
  <1> HIDE DEF fd
  <1>8. Sound(k, et, fd, ea) /\ SameBut(heap, k) /\ k.transport = heap.transport /\ k.adapter = heap.adapter
    <2>1. LiveD(heap, d) /\ Gains(ed, fd, d) BY <1>6, <1>7 DEF LiveD, Gains
    <2> QED BY ONLY <1>2, <1>5, <1>7, <2>1, TakeDevice
  <1>9. /\ DOMAIN k.device = DOMAIN heap.device /\ k.device[d].adapter = a /\ a \in DOMAIN k.adapter
    BY <1>3, <1>6, <1>8 DEF SameBut, SameLife
  <1>10. held \in {<< >>} \cup (Nat \X Nat) /\ held # << >> /\ held[1] = d BY <1>6 DEF None
  <1>11. MayHold(k, a, "device", held) BY <1>6, <1>9, <1>10 DEF MayHold
  <1>12. ~Looks(k, a) /\ ~Serves(k, a) BY <1>1, <1>8 DEF Looks, Serves
  <1>13. BalancedT(k, a, "device", held, et, et) BY <1>12 DEF BalancedT, HandsT, One
  <1>14. BalancedD(k, a, "device", held, fd, ed)
    <2>1. ASSUME NEW e \in DOMAIN k.device PROVE e \in Nat BY <1>2, <1>9, HeapIs
    <2>2. ASSUME NEW e \in DOMAIN k.device PROVE fd[e] = ed[e] + One(d = e) /\ ed[e] \in Nat
      BY <2>1, <1>2, <1>6, PlusAt DEF fd
    <2>3. \A e : One(HandsD(k, a, e)) = 0 BY <1>12 DEF HandsD, One
    <2>5. \A e : One(d = e) \in Nat BY DEF One
    <2>6. ASSUME NEW e \in DOMAIN k.device
          PROVE  One("device" \in {"device", "serve"} /\ held[1] = e) + ed[e] = One(HandsD(k, a, e)) + fd[e]
      <3>1. ("device" \in {"device", "serve"} /\ held[1] = e) <=> d = e BY <1>10
      <3>2. One("device" \in {"device", "serve"} /\ held[1] = e) = One(d = e) BY <3>1 DEF One
      <3>3. fd[e] = ed[e] + One(d = e) /\ ed[e] \in Nat BY <2>2
      <3>4. One(HandsD(k, a, e)) = 0 BY <2>3
      <3>5. One(d = e) \in Nat BY <2>5
      <3>6. One(d = e) + ed[e] = 0 + fd[e] BY <3>3, <3>5
      <3> QED BY <3>2, <3>4, <3>6
    <2> QED BY <2>6 DEF BalancedD
  <1>15. Turns(heap', k, a, "device", held) BY <1>4 DEF Turns
  <1> HIDE DEF held
  <1>18. "device" \in {"poll", "device", "serve"} OBVIOUS
  <1>16. Sound(heap', et, ed, ea) /\ SameLife(k, heap')
    <2>1. et \in Counts /\ ed \in Counts /\ ea \in Counts /\ fd \in Counts /\ Sound(k, et, fd, ea)
      BY <1>2, <1>7, <1>8
    <2>2. a \in DOMAIN k.adapter BY <1>9
    <2>3. held \in {<< >>} \cup (Nat \X Nat) BY <1>10
    <2> QED BY <1>18, <2>1, <2>2, <2>3, <1>11, <1>13, <1>14, <1>15, Dispatches, SMTT(60)
  <1>17. SameLife(heap, heap') BY <1>8, <1>16, SameLifeTrans DEF SameBut
  <1> QED BY <1>1, <1>16, <1>17, Stays DEF et, ed, ea

\* The transport of a device is in use.
LEMMA TransportOfDevice ==
  ASSUME NEW h, NEW et \in Counts, NEW ed \in Counts, NEW ea \in Counts, Sound(h, et, ed, ea),
         NEW d \in DOMAIN h.device, NEW t, t = h.device[d].transport, t # None
  PROVE  t \in DOMAIN h.transport /\ h.transport[t].device = d /\ h.transport[t].refs > 0
  <1>1. Related(h) BY DEF Sound
  <1> QED BY <1>1 DEF Related

LEMMA FindTransportKeeps ==
  ASSUME Inv, NEW a \in Adapters, FindTransport(a)
  PROVE  Inv'
  <1> DEFINE d == heap.adapter[a].held[1]
             t == heap.device[d].transport
             et == ByMainT(main)
             ed == ByMainD(main)
             ea == ByMainA(main, bluez)
  <1>1. /\ ~heap.stale /\ main' = main /\ bluez' = bluez /\ crossed' = crossed
        /\ heap.adapter[a].dispatcher = "device"
    BY DEF FindTransport, DispatcherGoes, Runs
  <1>2. Sound(heap, et, ed, ea) /\ et \in Counts /\ ed \in Counts /\ ea \in Counts /\ heap \in HeapRec
    BY <1>1, InvIs
  <1>3. a \in DOMAIN heap.adapter /\ a \in Nat BY <1>2, HeapIs DEF Adapters
  <1>4. Looks(heap, a) /\ ~Serves(heap, a) BY <1>1 DEF Looks, Serves
  <1>5. Dispatcher(a) \in Who /\ Dispatcher(a) # NoOne BY <1>3, WhoIs
  <1>c. \/ /\ t = None
           /\ heap' = DeviceUnref([heap EXCEPT !.adapter[a].dispatcher = "poll",
                                               !.adapter[a].held = << >>], d, Dispatcher(a))
        \/ /\ t # None
           /\ heap' = [heap EXCEPT !.transport[t].refs = @ + 1, !.adapter[a].dispatcher = "serve",
                                   !.adapter[a].held = <<d, t>>]
    BY DEF FindTransport
  <1> HIDE DEF et, ed, ea
  <1>6. d \in DOMAIN heap.device /\ heap.device[d].adapter = a
    <2>1. Dispatching(heap) BY <1>2 DEF Sound
    <2> QED BY <2>1, <1>3, <1>4 DEF Dispatching
  <1>7. d \in Nat BY <1>2, <1>6, HeapIs
  <1>d. \A e : HandsD(heap, a, e) <=> d = e BY <1>4 DEF HandsD
  <1>e. \A u : ~HandsT(heap, a, u) BY <1>4 DEF HandsT
  <1> HIDE DEF d
  <1>8. CASE /\ t = None
             /\ heap' = DeviceUnref([heap EXCEPT !.adapter[a].dispatcher = "poll",
                                                 !.adapter[a].held = << >>], d, Dispatcher(a))
    <2> DEFINE g == [heap EXCEPT !.adapter[a].dispatcher = "poll", !.adapter[a].held = << >>]
               fd == Plus(ed, d)
    <2>1. Turns(g, heap, a, "poll", << >>) BY DEF Turns
    <2>2. heap' = DeviceUnref(g, d, Dispatcher(a)) BY <1>8
    <2> HIDE DEF g
    <2>3. fd \in Counts /\ fd[d] > 0 /\ Moved(fd, ed, d, fd[d] - 1) BY <1>2, <1>7, PlusIs
    <2>4. MayHold(heap, a, "poll", << >>) BY DEF MayHold
    <2>5. BalancedT(heap, a, "poll", << >>, et, et) BY <1>e DEF BalancedT, One
    <2>6. BalancedD(heap, a, "poll", << >>, ed, fd)
      <3>1. ASSUME NEW e \in DOMAIN heap.device
            PROVE  One("poll" \in {"device", "serve"} /\ << >>[1] = e) + fd[e] = One(HandsD(heap, a, e)) + ed[e]
        <4>1. e \in Nat BY <1>2, HeapIs
        <4>2. fd[e] = ed[e] + One(d = e) /\ ed[e] \in Nat BY <4>1, <1>2, <1>7, PlusAt
        <4>3. One("poll" \in {"device", "serve"} /\ << >>[1] = e) = 0 BY DEF One
        <4>4. One(HandsD(heap, a, e)) = One(d = e) BY <1>d DEF One
        <4>5. One(d = e) \in Nat BY DEF One
        <4>6. 0 + fd[e] = One(d = e) + ed[e] BY <4>2, <4>5
        <4> QED BY <4>3, <4>4, <4>6
      <3> QED BY <3>1 DEF BalancedD
    <2> HIDE DEF fd
    <2>7. "poll" \in {"poll", "device", "serve"} /\ << >> \in {<< >>} \cup (Nat \X Nat) OBVIOUS
    <2>8. Sound(g, et, fd, ea) /\ SameLife(heap, g)
      BY <1>2, <1>3, <2>1, <2>3, <2>4, <2>5, <2>6, <2>7, Dispatches, SMTT(60)
    <2>9. d \in DOMAIN g.device BY <1>6, <2>8 DEF SameLife
    <2>10. Sound(heap', et, ed, ea) /\ SameLife(g, heap')
      BY <1>2, <1>5, <2>2, <2>3, <2>8, <2>9, UnrefDevice
    <2>11. SameLife(heap, heap') BY <2>8, <2>10, SameLifeTrans
    <2> QED BY <1>1, <2>10, <2>11, Stays DEF et, ed, ea
  <1>9. CASE /\ t # None
             /\ heap' = [heap EXCEPT !.transport[t].refs = @ + 1, !.adapter[a].dispatcher = "serve",
                                     !.adapter[a].held = <<d, t>>]
    <2> DEFINE k == [heap EXCEPT !.transport[t].refs = @ + 1]
               held == <<d, t>>
               ft == Plus(et, t)
    <2>1. heap' = [k EXCEPT !.adapter[a].dispatcher = "serve", !.adapter[a].held = held] BY <1>9
    <2>2. Turns(heap', k, a, "serve", held) BY <2>1 DEF Turns
    <2>3. TakesT(k, heap, t) BY DEF TakesT
    <2>t. t # None BY <1>9
    <2>4. t \in DOMAIN heap.transport /\ heap.transport[t].device = d /\ heap.transport[t].refs > 0
      BY <2>t, <1>2, <1>6, TransportOfDevice
    <2> HIDE DEF t, k
    <2>5. t \in Nat BY <1>2, <2>4, HeapIs
    <2>6. ft \in Counts /\ Moved(et, ft, t, et[t] + 1) BY <1>2, <2>5, PlusIs
    <2> HIDE DEF ft
    <2>7. Sound(k, ft, ed, ea) /\ SameBut(heap, k) /\ k.device = heap.device /\ k.adapter = heap.adapter
      BY <1>2, <2>3, <2>4, <2>6, TakeTransport, SMTT(60)
    <2>8. /\ DOMAIN k.transport = DOMAIN heap.transport /\ k.transport[t].device = d
          /\ a \in DOMAIN k.adapter
      BY <1>3, <2>4, <2>7 DEF SameBut, SameLife
    <2>9. held \in {<< >>} \cup (Nat \X Nat) /\ held # << >> /\ held[1] = d /\ held[2] = t
      BY <1>7, <2>5
    <2>10. MayHold(k, a, "serve", held) BY <1>6, <2>4, <2>7, <2>8, <2>9 DEF MayHold
    <2>11. \A e : HandsD(k, a, e) <=> d = e BY <1>d, <2>7 DEF HandsD, Looks
    <2>12. \A u : ~HandsT(k, a, u) BY <1>e, <2>7 DEF HandsT, Serves
    <2>13. BalancedT(k, a, "serve", held, ft, et)
      <3>1. ASSUME NEW u \in DOMAIN k.transport
            PROVE  One("serve" = "serve" /\ held[2] = u) + et[u] = One(HandsT(k, a, u)) + ft[u]
        <4>1. u \in Nat BY <1>2, <2>8, HeapIs
        <4>2. ft[u] = et[u] + One(t = u) /\ et[u] \in Nat BY <4>1, <1>2, <2>5, PlusAt DEF ft
        <4>3. One("serve" = "serve" /\ held[2] = u) = One(t = u) BY <2>9
        <4>4. One(HandsT(k, a, u)) = 0 BY <2>12 DEF One
        <4>5. One(t = u) \in Nat BY DEF One
        <4>6. One(t = u) + et[u] = 0 + ft[u] BY <4>2, <4>5
        <4> QED BY <4>3, <4>4, <4>6
      <3> QED BY <3>1 DEF BalancedT
    <2>14. BalancedD(k, a, "serve", held, ed, ed)
      <3>1. ASSUME NEW e \in DOMAIN k.device
            PROVE  One("serve" \in {"device", "serve"} /\ held[1] = e) + ed[e] = One(HandsD(k, a, e)) + ed[e]
        <4>1. ("serve" \in {"device", "serve"} /\ held[1] = e) <=> HandsD(k, a, e) BY <2>9, <2>11
        <4> QED BY <4>1 DEF One
      <3> QED BY <3>1 DEF BalancedD
    <2>15. "serve" \in {"poll", "device", "serve"} /\ held \in {<< >>} \cup (Nat \X Nat) BY <2>9
    <2> HIDE DEF held
    <2>16. Sound(heap', et, ed, ea) /\ SameLife(k, heap')
      <3>1. et \in Counts /\ ed \in Counts /\ ea \in Counts /\ ft \in Counts /\ Sound(k, ft, ed, ea)
        BY <1>2, <2>6, <2>7
      <3>2. a \in DOMAIN k.adapter BY <2>8
      <3> QED BY <3>1, <3>2, <2>2, <2>10, <2>13, <2>14, <2>15, Dispatches, SMTT(60)
    <2>17. SameLife(heap, heap') BY <2>7, <2>16, SameLifeTrans DEF SameBut
    <2> QED BY <1>1, <2>16, <2>17, Stays DEF et, ed, ea
  <1> QED BY <1>c, <1>8, <1>9

LEMMA ServeKeeps ==
  ASSUME Inv, NEW a \in Adapters, Serve(a)
  PROVE  Inv'
  <1> DEFINE d == heap.adapter[a].held[1]
             t == heap.adapter[a].held[2]
             et == ByMainT(main)
             ed == ByMainD(main)
             ea == ByMainA(main, bluez)
             ft == Plus(et, t)
             fd == Plus(ed, d)
             g == [heap EXCEPT !.adapter[a].dispatcher = "poll", !.adapter[a].held = << >>]
             i == DeviceUnref(g, d, Dispatcher(a))
  <1>1. /\ ~heap.stale /\ main' = main /\ bluez' = bluez /\ crossed' = crossed
        /\ heap.adapter[a].dispatcher = "serve"
    BY DEF Serve, DispatcherGoes, Runs
  <1>2. Sound(heap, et, ed, ea) /\ et \in Counts /\ ed \in Counts /\ ea \in Counts /\ heap \in HeapRec
    BY <1>1, InvIs
  <1>3. a \in DOMAIN heap.adapter /\ a \in Nat BY <1>2, HeapIs DEF Adapters
  <1>4. Looks(heap, a) /\ Serves(heap, a) BY <1>1 DEF Looks, Serves
  <1>5. Dispatcher(a) \in Who /\ Dispatcher(a) # NoOne BY <1>3, WhoIs
  <1>6. heap' = TransportUnref(i, t, Dispatcher(a)) BY DEF Serve
  <1>7. Turns(g, heap, a, "poll", << >>) BY DEF Turns
  <1> HIDE DEF et, ed, ea, g
  <1>8. d \in DOMAIN heap.device /\ t \in DOMAIN heap.transport
    <2>1. Dispatching(heap) BY <1>2 DEF Sound
    <2> QED BY <2>1, <1>3, <1>4 DEF Dispatching
  <1>9. d \in Nat /\ t \in Nat
    <2>1. /\ DOMAIN heap.device = 1 .. Len(heap.device) /\ Len(heap.device) \in Nat
          /\ DOMAIN heap.transport = 1 .. Len(heap.transport) /\ Len(heap.transport) \in Nat
      BY ONLY <1>2, HeapIs
    <2>2. d \in 1 .. Len(heap.device) /\ t \in 1 .. Len(heap.transport) BY ONLY <2>1, <1>8
    <2> QED BY ONLY <2>1, <2>2
  <1>d. \A e : HandsD(heap, a, e) <=> d = e BY <1>4 DEF HandsD
  <1>e. \A u : HandsT(heap, a, u) <=> t = u BY <1>4 DEF HandsT
  <1> HIDE DEF d, t
  <1>10. fd \in Counts /\ fd[d] > 0 /\ Moved(fd, ed, d, fd[d] - 1) BY <1>2, <1>9, PlusIs
  <1>11. ft \in Counts /\ ft[t] > 0 /\ Moved(ft, et, t, ft[t] - 1) BY <1>2, <1>9, PlusIs
  <1>12. MayHold(heap, a, "poll", << >>) BY DEF MayHold
  <1>13. BalancedT(heap, a, "poll", << >>, et, ft)
    <2>1. ASSUME NEW u \in DOMAIN heap.transport
          PROVE  One("poll" = "serve" /\ << >>[2] = u) + ft[u] = One(HandsT(heap, a, u)) + et[u]
      <3>1. u \in Nat BY <1>2, HeapIs
      <3>2. ft[u] = et[u] + One(t = u) /\ et[u] \in Nat BY <3>1, <1>2, <1>9, PlusAt
      <3>3. One("poll" = "serve" /\ << >>[2] = u) = 0 BY DEF One
      <3>4. One(HandsT(heap, a, u)) = One(t = u) BY <1>e DEF One
      <3>5. One(t = u) \in Nat BY DEF One
      <3>6. 0 + ft[u] = One(t = u) + et[u] BY <3>2, <3>5
      <3> QED BY <3>3, <3>4, <3>6
    <2> QED BY <2>1 DEF BalancedT
  <1>14. BalancedD(heap, a, "poll", << >>, ed, fd)
    <2>1. ASSUME NEW e \in DOMAIN heap.device
          PROVE  One("poll" \in {"device", "serve"} /\ << >>[1] = e) + fd[e] = One(HandsD(heap, a, e)) + ed[e]
      <3>1. e \in Nat BY <1>2, HeapIs
      <3>2. fd[e] = ed[e] + One(d = e) /\ ed[e] \in Nat BY <3>1, <1>2, <1>9, PlusAt
      <3>3. One("poll" \in {"device", "serve"} /\ << >>[1] = e) = 0 BY DEF One
      <3>4. One(HandsD(heap, a, e)) = One(d = e) BY <1>d DEF One
      <3>5. One(d = e) \in Nat BY DEF One
      <3>6. 0 + fd[e] = One(d = e) + ed[e] BY <3>2, <3>5
      <3> QED BY <3>3, <3>4, <3>6
    <2> QED BY <2>1 DEF BalancedD
  <1> HIDE DEF ft, fd
  <1>15. "poll" \in {"poll", "device", "serve"} /\ << >> \in {<< >>} \cup (Nat \X Nat) OBVIOUS
  <1>16. Sound(g, ft, fd, ea) /\ SameLife(heap, g)
    BY <1>2, <1>3, <1>7, <1>10, <1>11, <1>12, <1>13, <1>14, <1>15, Dispatches, SMTT(60)
  <1>17. d \in DOMAIN g.device /\ t \in DOMAIN g.transport BY <1>8, <1>16 DEF SameLife
  <1>18. Sound(i, ft, ed, ea) /\ SameLife(g, i)
    BY <1>2, <1>5, <1>10, <1>11, <1>16, <1>17, UnrefDevice
  <1> HIDE DEF i
  <1>19. t \in DOMAIN i.transport BY <1>17, <1>18 DEF SameLife
  <1>20. Sound(heap', et, ed, ea) /\ SameLife(i, heap')
    BY <1>2, <1>5, <1>6, <1>11, <1>18, <1>19, UnrefTransport
  <1>21. SameLife(heap, heap') BY <1>16, <1>18, <1>20, SameLifeTrans
  <1> QED BY <1>1, <1>20, <1>21, Stays DEF et, ed, ea

----------------------------------------------------------------------------
(* The theorem *)

LEMMA InitInv ==
  ASSUME DevInit
  PROVE  Inv
  <1> DEFINE et == ByMainT(<< >>)
             ed == ByMainD(<< >>)
             ea == ByMainA(<< >>, None)
  <1>1. heap = NoHeap /\ bluez = None /\ main = << >> BY DEF DevInit
  <1>2. /\ heap.transport = << >> /\ heap.device = << >> /\ heap.adapter = << >>
        /\ heap.listed = None /\ heap.stale = FALSE
        /\ heap.store = [x \in Address |-> NoEntry] /\ heap.file = [x \in Address |-> NoEntry]
        /\ heap = [ listed |-> None, adapter |-> << >>, device |-> << >>, transport |-> << >>,
                    store |-> [x \in Address |-> NoEntry], file |-> [x \in Address |-> NoEntry],
                    stale |-> FALSE ]
    BY <1>1 DEF NoHeap
  <1>3. /\ << >> \in Seq(AdapterRec) /\ << >> \in Seq(DeviceRec) /\ << >> \in Seq(TransportRec)
        /\ << >> \in Seq(FrameRec)
    OBVIOUS
  <1>4. [x \in Address |-> NoEntry] \in [Address -> Nat] BY DEF NoEntry
  <1>5. None \in Nat BY DEF None
  <1>6. heap \in HeapRec BY <1>2, <1>3, <1>4, <1>5 DEF HeapRec
  <1>7. DOMAIN heap.transport = {} /\ DOMAIN heap.device = {} /\ DOMAIN heap.adapter = {} BY <1>2
  <1>8. Related(heap) BY <1>7 DEF Related
  <1>9. Listed(heap) BY <1>2, <1>7 DEF Listed
  <1>10. Dispatching(heap) BY <1>7 DEF Dispatching
  <1>11. Threads(heap) BY <1>7 DEF Threads
  <1>12. Filed(heap)
    <2>1. \A x \in Address : heap.store[x] = NoEntry BY <1>2
    <2> QED BY <2>1 DEF Filed
  <1>13. Counted(heap, et, ed, ea) BY <1>7 DEF Counted
  <1>14. Sound(heap, et, ed, ea)
    BY <1>2, <1>6, <1>8, <1>9, <1>10, <1>11, <1>12, <1>13 DEF Sound
  <1>15. MainShape(heap, main, bluez) BY <1>1 DEF MainShape, Shape
  <1>16. Joined BY <1>1 DEF Joined
  <1>17. Bluez BY <1>1, <1>7 DEF Bluez
  <1> QED BY <1>1, <1>2, <1>3, <1>14, <1>15, <1>16, <1>17 DEF Inv

LEMMA MainStepKeeps ==
  ASSUME Inv, MainStep
  PROVE  Inv'
  BY DestroyTransportKeeps, JoinRfcommKeeps, ReleaseTransportKeeps, LeaveKeeps, DestroyAdapterKeeps,
     DestroyDeviceKeeps, DropBatteriesKeeps DEF MainStep

LEMMA TransportStepKeeps ==
  ASSUME Inv, NEW t \in Transports,
         \/ ClientCloses(t) \/ TransportFreed(t) \/ LinkLost(t) \/ BatteryReport(t) \/ ThreadStep(t)
         \/ CallBegin(t) \/ CallOpens(t) \/ CallEnds(t)
         \/ \E v \in Levels : SetVolume(t, v)
  PROVE  Inv'
  <1>1. CASE ThreadStep(t)
    BY <1>1, ThreadLostKeeps, ThreadTestKeeps, ThreadQuirkKeeps, ThreadDestroyKeeps, ThreadFreesKeeps
       DEF ThreadStep
  <1>2. CASE ClientCloses(t) \/ TransportFreed(t) \/ LinkLost(t) \/ BatteryReport(t)
    BY <1>2, ClientClosesKeeps, TransportFreedKeeps, LinkLostKeeps, BatteryReportKeeps
  <1>3. CASE CallBegin(t) \/ CallOpens(t) \/ CallEnds(t)
    BY <1>3, CallBeginKeeps, CallOpensKeeps, CallEndsKeeps
  <1>4. CASE \E v \in Levels : SetVolume(t, v) BY <1>4, SetVolumeKeeps
  <1> QED BY <1>1, <1>2, <1>3, <1>4

LEMMA AdapterStepKeeps ==
  ASSUME Inv, NEW a \in Adapters,
         \/ DispatcherJoined(a) \/ FindTransport(a) \/ Serve(a) \/ DispatcherEnds(a)
         \/ \E x \in Address : Accept(a, x)
  PROVE  Inv'
  BY DispatcherJoinedKeeps, FindTransportKeeps, ServeKeeps, DispatcherEndsKeeps, AcceptKeeps

LEMMA StuttersKeep ==
  ASSUME Inv, UNCHANGED devVars
  PROVE  Inv'
  <1>1. heap' = heap /\ bluez' = bluez /\ main' = main /\ crossed' = crossed BY DEF devVars
  <1>2. Joined' <=> Joined BY <1>1 DEF Joined
  <1>3. Bluez' <=> Bluez BY <1>1 DEF Bluez
  <1> QED BY <1>1, <1>2, <1>3 DEF Inv

LEMMA StepKeeps ==
  ASSUME Inv, [DevNext]_devVars
  PROVE  Inv'
  <1>1. CASE AdapterAdded BY <1>1, AdapterAddedKeeps
  <1>2. CASE AdapterRemoved BY <1>2, AdapterRemovedKeeps
  <1>3. CASE MainStep BY <1>3, MainStepKeeps
  <1>4. CASE \E x \in Address : NewConnection(x) \/ RequestDisconnection(x)
    BY <1>4, NewConnectionKeeps, RequestDisconnectionKeeps
  <1>5. CASE \E t \in Transports :
               \/ ClientCloses(t) \/ TransportFreed(t) \/ LinkLost(t) \/ BatteryReport(t) \/ ThreadStep(t)
               \/ CallBegin(t) \/ CallOpens(t) \/ CallEnds(t)
               \/ \E v \in Levels : SetVolume(t, v)
    BY <1>5, TransportStepKeeps
  <1>6. CASE \E a \in Adapters :
               \/ DispatcherJoined(a) \/ FindTransport(a) \/ Serve(a) \/ DispatcherEnds(a)
               \/ \E x \in Address : Accept(a, x)
    BY <1>6, AdapterStepKeeps
  <1>7. CASE UNCHANGED devVars BY <1>7, StuttersKeep
  <1> QED BY <1>1, <1>2, <1>3, <1>4, <1>5, <1>6, <1>7 DEF DevNext

\* The invariant of the structures: each is used only while it is counted, and
\* who holds a reference is exactly who will give it back.
THEOREM DevInvariant == DevSpec => []Inv
  <1>1. DevInit => Inv BY InitInv
  <1>2. Inv /\ [DevNext]_devVars => Inv' BY StepKeeps
  <1> QED BY <1>1, <1>2, PTL DEF DevSpec

LEMMA NoAdapterIn == \A i \in Nat : ByMainA(<< >>, None)[i] = 0
  <1>1. \A id : ~InMain(<< >>, {"leaveAdapter"}, id) BY DEF InMain
  <1>2. \A id : One(InMain(<< >>, {"leaveAdapter"}, id)) = 0 BY <1>1 DEF One
  <1>3. \A i \in Nat : One(None # None /\ None = i /\ ~(<< >> # << >> /\ << >>[1].do = "batteries")) = 0
    BY DEF One
  <1> QED BY <1>2, <1>3, ByMainIs

LEMMA GoneFollows ==
  ASSUME Inv
  PROVE  GoneIsFreed
  <1> SUFFICES ASSUME Quiet, bluez = None
               PROVE  /\ heap.listed = None
                      /\ \A a \in Adapters : heap.adapter[a].refs = 0
                      /\ \A d \in Devices : heap.device[d].refs = 0
                      /\ \A t \in Transports : heap.transport[t].refs = 0
                      /\ \A x \in Address : heap.store[x] = NoEntry
    BY DEF GoneIsFreed
  <1> DEFINE et == ByMainT(<< >>)
             ed == ByMainD(<< >>)
             ea == ByMainA(<< >>, None)
  <1>1. /\ ~heap.stale /\ main = << >>
        /\ \A t \in Transports :
             /\ heap.transport[t].calls = 0 /\ ~heap.transport[t].client
             /\ heap.transport[t].thread = "ended" /\ heap.transport[t].freer = NoOne
        /\ \A a \in Adapters : heap.adapter[a].dispatcher \in {"none", "poll", "ended"}
    BY DEF Quiet, Idle, Runs
  <1>2. Sound(heap, et, ed, ea) /\ et \in Counts /\ ed \in Counts /\ ea \in Counts /\ heap \in HeapRec /\ Bluez
    BY <1>1, InvIs
  <1>3. \A i \in Nat : et[i] = 0 /\ ed[i] = 0 /\ ea[i] = 0 BY NobodyIn, NoAdapterIn
  <1> HIDE DEF et, ed, ea
  <1>4. \A a \in DOMAIN heap.adapter : ~Looks(heap, a) /\ ~Serves(heap, a)
    BY <1>1 DEF Adapters, Looks, Serves
  <1>5. /\ \A t \in DOMAIN heap.transport : heap.transport[t].device \in DOMAIN heap.device
        /\ \A d \in DOMAIN heap.device : heap.device[d].adapter \in DOMAIN heap.adapter
    BY <1>2 DEF Sound, Related
  <1>6. \A t \in DOMAIN heap.transport : One(Served(heap, t)) = 0 BY <1>4, <1>5 DEF Served, One
  <1>7. \A d \in DOMAIN heap.device : One(Looked(heap, d)) = 0 BY <1>4, <1>5 DEF Looked, One
  <1>8. ASSUME NEW t \in DOMAIN heap.transport PROVE heap.transport[t].refs = 0
    <2> DEFINE r == heap.transport[t]
    <2>1. /\ r \in TransportRec /\ ThreadOk(r) /\ r.refs = Own(r) + One(Served(heap, t)) + et[t]
          /\ t \in Nat
      BY <1>2, TransportIsHeld
    <2>2. r.calls = 0 /\ ~r.client /\ r.thread = "ended" BY <1>1 DEF Transports
    <2>3. Own(r) = 0 BY <2>1, <2>2 DEF ThreadOk, Own, One
    <2> QED BY <2>1, <2>3, <1>3, <1>6
  <1>9. ASSUME NEW d \in DOMAIN heap.device PROVE heap.device[d].refs = 0
    <2>1. /\ heap.device[d].refs = Cardinality(TransportsOf(heap, d)) + One(heap.device[d].battery)
                                     + One(Looked(heap, d)) + ed[d]
          /\ d \in Nat
      BY <1>2, DeviceIsHeld
    <2>2. TransportsOf(heap, d) = {} BY <1>1, <1>8 DEF TransportsOf, Kept, Transports
    <2>3. Cardinality(TransportsOf(heap, d)) = 0 BY <2>2, <1>2, Finite
    <2>4. One(heap.device[d].battery) = 0 BY <1>2 DEF Bluez, One
    <2> QED BY <2>1, <2>3, <2>4, <1>3, <1>7
  <1>10. ASSUME NEW a \in DOMAIN heap.adapter PROVE heap.adapter[a].refs = 0
    <2>1. heap.adapter[a].refs = Cardinality(DevicesOf(heap, a)) + ea[a] /\ a \in Nat
      BY <1>2, AdapterIsHeld
    <2>2. DevicesOf(heap, a) = {} BY <1>9 DEF DevicesOf
    <2>3. Cardinality(DevicesOf(heap, a)) = 0 BY <2>2, <1>2, Finite
    <2> QED BY <2>1, <2>3, <1>3
  <1>11. heap.listed = None
    <2>1. Listed(heap) BY <1>2 DEF Sound
    <2>2. heap.listed # None => heap.listed \in DOMAIN heap.adapter /\ heap.adapter[heap.listed].refs > 0
      BY <2>1 DEF Listed
    <2> QED BY <2>2, <1>10
  <1>12. ASSUME NEW x \in Address PROVE heap.store[x] = NoEntry
    <2>1. Filed(heap) BY <1>2 DEF Sound
    <2> QED BY <2>1, <1>9 DEF Filed
  <1> QED BY <1>8, <1>9, <1>10, <1>11, <1>12 DEF Adapters, Devices, Transports

\* FreedInTime: no thread uses an adapter, a device, a transport or a link after
\* it was freed, unless two threads tore down the same link; and when the adapter
\* is gone and nobody uses anything of it, nothing of it is left in memory, and
\* what was stored of a device is in its file.
THEOREM NothingIsLeft == DevSpec => []FreedInTime
  <1>1. Inv => FreedInTime BY GoneFollows DEF FreedInTime, NothingFreedUsed, Inv
  <1> QED BY <1>1, DevInvariant, PTL

==============================================================================
