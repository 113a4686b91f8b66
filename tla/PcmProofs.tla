------------------------------ MODULE PcmProofs ------------------------------
(***************************************************************************)
(* The PCM plug-in of bluez-alsa, for every size of ring and period, every *)
(* avail_min and every number of calls: no frame is lost, repeated or      *)
(* stale, and an application that waits in poll() has nothing to do.       *)
(*                                                                         *)
(* A place in the stream is a pointer from 0 to twice the buffer.  Fill is *)
(* how far the hardware, at such a place, is ahead of what ioplug counts   *)
(* as free: it grows by one with each frame that is moved and shrinks by   *)
(* one with each that is committed, and two places share a slot of the     *)
(* ring only when their Fills are a buffer apart.  Hence the ring can be   *)
(* described place by place (Written, Recorded), from the frame the thread *)
(* moves next (Pos) to the one the application does.                       *)
(*                                                                         *)
(* The invariant adds where the thread can be when (Linked, Parking,       *)
(* Phases), how far the pointers are apart (Bounds), what a drain has left *)
(* (Drains) and which event is pending (Told).                             *)
(***************************************************************************)
EXTENDS BaPcm, TLAPS

----------------------------------------------------------------------------
(* Arithmetic of the pointers, b being the size of the ring *)

Ptrs(b) == 0 .. 2 * b - 1

\* n frames on, and n frames back.
Fwd(b, p, n) == IF p + n < 2 * b THEN p + n ELSE p + n - 2 * b
Bwd(b, p, n) == IF p < n THEN p - n + 2 * b ELSE p - n
Slot(b, p) == p % b

\* snd_pcm_ioplug_avail() of a stream s.
Fill(s, b, p, a) ==
  LET x == p - a + (IF s = "PLAYBACK" THEN b ELSE 0)
  IN IF x < 0 THEN x + 2 * b ELSE IF x >= 2 * b THEN x - 2 * b ELSE x

LEMMA SlotIs ==
  ASSUME NEW b \in Nat \ {0}, NEW p \in Ptrs(b)
  PROVE  Slot(b, p) = IF p < b THEN p ELSE p - b
  BY DEF Ptrs, Slot

LEMMA SlotType ==
  ASSUME NEW b \in Nat \ {0}, NEW p \in Int
  PROVE  Slot(b, p) \in 0 .. b - 1
  BY DEF Slot

LEMMA ModIs ==
  ASSUME NEW b \in Nat \ {0}, NEW p \in Int, -1 <= p, p < 2 * b, NEW n \in Nat, n < 2 * b,
  0 <= p + n
  PROVE  (p + n) % (2 * b) = Fwd(b, p, n)
  <1> DEFINE m == 2 * b
  <1>1. m \in Nat \ {0} /\ p + n < 2 * m /\ p + n \in Nat
    OBVIOUS
  <1> HIDE DEF m
  <1>2. (p + n) % m = IF p + n < m THEN p + n ELSE p + n - m
    BY <1>1
  <1> QED
    BY <1>2 DEF m, Fwd

LEMMA FillType ==
  ASSUME NEW s, NEW b \in Nat \ {0}, NEW p \in Ptrs(b), NEW a \in Ptrs(b)
  PROVE  Fill(s, b, p, a) \in Ptrs(b)
  BY DEF Fill, Ptrs

LEMMA FwdType ==
  ASSUME NEW b \in Nat \ {0}, NEW p \in Ptrs(b), NEW n \in 0 .. 2 * b
  PROVE  Fwd(b, p, n) \in Ptrs(b)
  BY DEF Fwd, Ptrs

LEMMA BwdType ==
  ASSUME NEW b \in Nat \ {0}, NEW p \in Ptrs(b), NEW n \in 0 .. 2 * b
  PROVE  Bwd(b, p, n) \in Ptrs(b)
  BY DEF Bwd, Ptrs

LEMMA FillFwd ==
  ASSUME NEW s, NEW b \in Nat \ {0}, NEW p \in Ptrs(b), NEW a \in Ptrs(b), NEW n \in 0 .. 2 * b,
         Fill(s, b, p, a) + n < 2 * b
  PROVE  Fill(s, b, Fwd(b, p, n), a) = Fill(s, b, p, a) + n
  BY DEF Fwd, Ptrs, Fill

LEMMA FillBwd ==
  ASSUME NEW s, NEW b \in Nat \ {0}, NEW p \in Ptrs(b), NEW a \in Ptrs(b), NEW n \in 0 .. 2 * b,
         n <= Fill(s, b, p, a)
  PROVE  Fill(s, b, Bwd(b, p, n), a) = Fill(s, b, p, a) - n
  BY DEF Bwd, Ptrs, Fill

LEMMA FillNext ==
  ASSUME NEW s, NEW b \in Nat \ {0}, NEW p \in Ptrs(b), NEW a \in Ptrs(b)
  PROVE  Fill(s, b, p, Fwd(b, a, 1)) =
           IF Fill(s, b, p, a) = 0 THEN 2 * b - 1 ELSE Fill(s, b, p, a) - 1
  BY DEF Fwd, Ptrs, Fill

LEMMA FillOnce ==
  ASSUME NEW s, NEW b \in Nat \ {0}, NEW p \in Ptrs(b), NEW q \in Ptrs(b), NEW a \in Ptrs(b),
         Fill(s, b, p, a) = Fill(s, b, q, a)
  PROVE  p = q
  BY DEF Ptrs, Fill

LEMMA FillHere ==
  ASSUME NEW s, NEW b \in Nat \ {0}, NEW a \in Ptrs(b)
  PROVE  Fill(s, b, a, a) = IF s = "PLAYBACK" THEN b ELSE 0
  BY DEF Ptrs, Fill

LEMMA SlotApart ==
  ASSUME NEW s, NEW b \in Nat \ {0}, NEW p \in Ptrs(b), NEW q \in Ptrs(b), NEW a \in Ptrs(b),
         Slot(b, p) = Slot(b, q)
  PROVE  \/ p = q
         \/ Fill(s, b, p, a) = Fill(s, b, q, a) + b
         \/ Fill(s, b, q, a) = Fill(s, b, p, a) + b
  BY SlotIs DEF Ptrs, Fill

LEMMA BwdNext ==
  ASSUME NEW b \in Nat \ {0}, NEW p \in Ptrs(b), NEW n \in 1 .. 2 * b
  PROVE  /\ Bwd(b, p, n - 1) = Fwd(b, Bwd(b, p, n), 1)
         /\ Bwd(b, p, 0) = p
  BY DEF Fwd, Ptrs, Bwd

LEMMA FwdBwd ==
  ASSUME NEW b \in Nat \ {0}, NEW p \in Ptrs(b), NEW n \in 0 .. 2 * b
  PROVE  Bwd(b, Fwd(b, p, n), n) = p
  BY DEF Fwd, Ptrs, Bwd

LEMMA SlotNext ==
  ASSUME NEW b \in Nat \ {0}, NEW p \in Ptrs(b)
  PROVE  (Slot(b, p) + 1) % b = Slot(b, Fwd(b, p, 1))
  <1>1. Fwd(b, p, 1) \in Ptrs(b)
    BY FwdType
  <1>2. Slot(b, p) + 1 \in 0 .. b
    BY SlotType DEF Ptrs
  <1>3. (Slot(b, p) + 1) % b = IF Slot(b, p) + 1 < b THEN Slot(b, p) + 1 ELSE 0
    BY <1>2
  <1> QED
    BY <1>1, <1>3, SlotIs DEF Fwd, Ptrs

LEMMA FwdFwd ==
  ASSUME NEW b \in Nat \ {0}, NEW p \in Ptrs(b), NEW n \in 1 .. 2 * b
  PROVE  /\ Fwd(b, Fwd(b, p, 1), n - 1) = Fwd(b, p, n)
         /\ Fwd(b, Fwd(b, p, n - 1), 1) = Fwd(b, p, n)
         /\ Fwd(b, p, 0) = p
  BY DEF Fwd, Ptrs

LEMMA ModFew ==
  ASSUME NEW b \in Nat \ {0}, NEW n \in 0 .. 2
  PROVE  n % (2 * b) = Fwd(b, 0, n)
  <1>1. CASE n < 2 * b
    BY <1>1, ModIs
  <1>2. CASE n = 2 * b
    <2>1. b = 1 /\ n = 2 BY <1>2
    <2> QED BY <2>1 DEF Fwd
  <1> QED BY <1>1, <1>2

----------------------------------------------------------------------------
(* The invariant *)

B == hw.buffer
Pointers == Ptrs(B)
Frames == Pointers \cup {Old}
States == {"OPEN", "SETUP", "PREPARED", "RUNNING", "PAUSED", "DRAINING", "XRUN", "DISCONNECTED"}
Labels == {"none", "check", "pausing", "sigwait", "avail", "xrun", "empty", "transfer", "publish",
           "notify", "fail", "dead"}
Calling == {"free", "writing", "waiting", "parked", "draining", "flushing"}

\* What is free to the application when the hardware is at x.
Free(x) == Fill(hw.stream, B, x, io.appl)

HwTyped ==
  hw \in [stream : {"PLAYBACK", "CAPTURE"}, buffer : Nat \ {0}, period : Nat \ {0},
          min : Nat \ {0}, commands : Nat]
IoTyped == io \in [state : States, appl : Pointers, seen : Pointers]
PlugTyped ==
  plug \in [ptr : Pointers \cup {-1}, pause : SUBSET {"PENDING", "PAUSED"}, connected : BOOLEAN,
            event : SUBSET {"frames", "dead"}, started : BOOLEAN, ring : [0 .. B - 1 -> Frames]]
WorkerTyped ==
  /\ worker \in [pc : Labels, ptr : Pointers \cup {-1}, off : 0 .. B - 1, left : Nat, room : Int,
                 sig : BOOLEAN]
  /\ worker.pc = "transfer" => worker.left > 0
AppTyped == app \in [pc : Calling, woken : BOOLEAN]
ServerTyped ==
  server \in [paused : BOOLEAN, gone : BOOLEAN, fifo : Seq(Frames)] /\ Len(server.fifo) <= Fifo
CountsTyped == made \in Pointers /\ due \in Pointers /\ smooth \in BOOLEAN

PcmTyped ==
  HwTyped /\ IoTyped /\ PlugTyped /\ WorkerTyped /\ AppTyped /\ ServerTyped /\ CountsTyped

Live == io.state \in {"PREPARED", "RUNNING", "PAUSED", "DRAINING"}
Fallen == worker.pc \in {"fail", "dead"}

\* A thread exists while the stream is started, and none for a stream that is not
\* set up; the connection is lost only by a thread that fails since the server went.
Linked ==
  /\ plug.started <=> worker.pc # "none"
  /\ io.state \in {"OPEN", "SETUP"} => worker.pc = "none"
  /\ Fallen => ~plug.connected
  /\ ~plug.connected /\ io.state # "OPEN" => server.gone
  /\ ~plug.connected => Fallen \/ worker.pc = "none"
  /\ ~plug.connected => Fallen \/ io.state \in {"OPEN", "SETUP", "DISCONNECTED"}
  /\ io.state = "DISCONNECTED" => ~plug.connected
  /\ "dead" \in plug.event => ~plug.connected /\ server.gone

\* A call that is under way keeps the state of the stream; and a thread that has
\* paused stays where it is until a signal comes.
Parking ==
  /\ app.pc \in {"waiting", "parked"} => io.state = "RUNNING"
  /\ app.pc = "writing" => Playback /\ io.state \in {"PREPARED", "RUNNING"}
  /\ app.pc \in {"draining", "flushing"} => Playback /\ io.state = "DRAINING"
  /\ app.pc = "waiting" /\ "PAUSED" \in plug.pause => worker.pc \in {"sigwait", "dead"}
  /\ app.pc = "parked" /\ app.woken => (worker.pc = "sigwait" /\ ~worker.sig) \/ Fallen

\* The thread's pointer is the one it published, but for a thread that has run dry
\* (-1) and one that transfers.
Phases ==
  /\ plug.ptr = -1 /\ io.state # "OPEN" =>
       worker.ptr = -1 /\ worker.pc \in {"empty", "check", "pausing", "sigwait"}
  /\ worker.ptr = -1 => worker.pc \in {"empty", "check", "pausing", "sigwait", "avail"}
  /\ worker.pc \in {"check", "avail"} => worker.ptr \in {-1, plug.ptr}
  /\ worker.pc \in {"xrun", "notify"} => worker.ptr = plug.ptr
  /\ worker.pc = "empty" => worker.ptr = -1
  /\ io.state = "XRUN" => plug.ptr = -1
  /\ io.state = "SETUP" => plug.ptr = 0
  /\ Live /\ worker.pc = "none" => plug.ptr = 0
  /\ io.state = "PREPARED" /\ worker.pc # "none" =>
      /\ worker.ptr = -1 => plug.ptr \in {-1, 0}
      /\ worker.ptr # -1 => "PENDING" \notin plug.pause /\ worker.pc \notin {"pausing", "sigwait"}
  /\ io.state = "PREPARED" /\ ~Playback => io.appl = 0

\* The thread never goes beyond what the application left it.
Bounds ==
  /\ Live /\ plug.ptr # -1 => Free(plug.ptr) <= B
  /\ worker.pc \in {"transfer", "publish"} =>
       /\ Free(plug.ptr) <= Free(worker.ptr) /\ Free(worker.ptr) <= B
  /\ worker.pc = "transfer" =>
       /\ Free(plug.ptr) + worker.left <= Free(worker.ptr)
       /\ worker.off = Slot(B, Bwd(B, worker.ptr, worker.left))
  /\ worker.pc \in {"transfer", "publish", "notify"} => Free(worker.ptr) <= worker.room
  /\ app.pc = "writing" /\ plug.ptr # -1 => Free(plug.ptr) > 0

\* The place of the frame that the thread moves next.
Pos ==
  IF worker.pc = "transfer" THEN Bwd(B, worker.ptr, worker.left)
  ELSE IF worker.pc = "publish" THEN worker.ptr ELSE plug.ptr

\* From p on, the ring has the frames that were written, each at its place; up to p,
\* those that were recorded; and the FIFO those that follow p.
Written(s, b, ring, p, a) ==
  \A q \in Ptrs(b) :
    Fill(s, b, p, a) <= Fill(s, b, q, a) /\ Fill(s, b, q, a) < b => ring[Slot(b, q)] = Fwd(b, q, 1)
Recorded(s, b, ring, p, a) ==
  \A q \in Ptrs(b) : Fill(s, b, q, a) < Fill(s, b, p, a) => ring[Slot(b, q)] = Fwd(b, q, 1)
Coming(b, fifo, p) == \A i \in 1 .. Len(fifo) : fifo[i] = Fwd(b, p, i)

\* The numbers of the frames: what is delivered next is at the thread's place, or
\* at the application's.
Plays ==
  Playback =>
    /\ made = io.appl
    /\ smooth /\ Live /\ plug.ptr # -1 /\ plug.connected =>
         due = Fwd(B, Pos, 1) /\ Written(hw.stream, B, plug.ring, Pos, io.appl)

Records ==
  ~Playback /\ smooth =>
    /\ due = Fwd(B, io.appl, 1)
    /\ Live /\ plug.ptr # -1 /\ plug.connected =>
         /\ Recorded(hw.stream, B, plug.ring, Pos, io.appl)
         /\ Coming(B, server.fifo, Pos)
         /\ made = Fwd(B, Pos, Len(server.fifo))

\* A drain that finds the ring empty has delivered the last frame.
Drains ==
  /\ io.state = "DRAINING" => Playback
  /\ io.state = "DRAINING" /\ worker.pc = "xrun" => Free(plug.ptr) = B
  /\ io.state = "DRAINING" /\ plug.ptr = -1 => due = Fwd(B, io.appl, 1)
  /\ app.pc = "flushing" /\ ~server.gone =>
       due = Fwd(B, io.appl, 1) /\ (plug.ptr = -1 \/ Free(plug.ptr) = B)

\* The thread is about to raise an event, or to fail.
Raising == worker.pc \in {"notify", "empty", "fail"}

\* What no event pending says of the stream.
Told ==
  /\ io.state = "PREPARED" /\ plug.event = {} => ~Playback \/ WaitsForAll
  /\ io.state = "PAUSED" => plug.event # {}
  /\ smooth /\ plug.event = {} /\ ~Raising =>
      /\ io.state = "PREPARED" => plug.ptr # -1
      /\ io.state = "RUNNING"  => plug.ptr # -1 /\ (WaitsForAll \/ Free(plug.ptr) < hw.min)
      /\ io.state = "DRAINING" => plug.ptr # -1 /\ (WaitsForAll \/ Free(plug.ptr) < B)
      /\ io.state # "XRUN"

Inv ==
  /\ PcmTyped /\ Linked /\ Parking
  /\ smooth => Phases /\ Bounds /\ Drains
  /\ Plays /\ Records /\ Told

----------------------------------------------------------------------------
(* The shape of a step: the fields it leaves *)

WorkerIs(pc, ptr, off, left, room, sig) ==
  /\ worker'.pc = pc /\ worker'.ptr = ptr /\ worker'.off = off /\ worker'.left = left
  /\ worker'.room = room /\ worker'.sig = sig
PlugIs(ptr, pause, connected, event, started, ring) ==
  /\ plug'.ptr = ptr /\ plug'.pause = pause /\ plug'.connected = connected
  /\ plug'.event = event /\ plug'.started = started /\ plug'.ring = ring
IoIs(state, appl) == io'.state = state /\ io'.appl = appl
AppIs(pc, woken) == app'.pc = pc /\ app'.woken = woken
ServerIs(gone, fifo) == server'.gone = gone /\ server'.fifo = fifo
HwSame ==
  hw'.stream = hw.stream /\ hw'.buffer = hw.buffer /\ hw'.period = hw.period /\ hw'.min = hw.min

Moving == {"transfer", "publish"}

\* A step that moves no frame, and no pointer of a stream that is set up.
Still ==
  /\ HwSame /\ io'.appl = io.appl /\ made' = made /\ due' = due
  /\ smooth' => smooth
  /\ \/ worker'.pc \notin Moving /\ worker'.pc # "notify" /\ (worker.pc \in Moving => ~Live')
     \/ /\ worker'.pc = worker.pc /\ worker'.ptr = worker.ptr /\ worker'.off = worker.off
        /\ worker'.left = worker.left /\ worker'.room = worker.room
        /\ worker.pc \in Moving => plug'.ptr = plug.ptr
  /\ Live' =>
       /\ Live /\ plug'.ptr = plug.ptr /\ plug'.ring = plug.ring /\ plug'.connected = plug.connected
       /\ Playback \/ server'.fifo = server.fifo

LEMMA ZeroPointer == ASSUME HwTyped PROVE 0 \in Pointers /\ 1 \in Pointers /\ 0 \in 0 .. B - 1
  BY DEF HwTyped, Pointers, Ptrs, B

\* Avail and HwAvail of ioplug, in terms of Fill.
LEMMA AvailIs ==
  ASSUME HwTyped, NEW p \in Pointers, NEW a \in Pointers
  PROVE  /\ Avail(p, a) = Fill(hw.stream, B, p, a)
         /\ HwAvail(p, a) = IF Fill(hw.stream, B, p, a) > B THEN 0
                            ELSE B - Fill(hw.stream, B, p, a)
  BY DEF HwTyped, Pointers, Ptrs, B, Avail, HwAvail, Wrap, Fill, Playback, Boundary

LEMMA FreeIs ==
  ASSUME HwTyped, IoTyped, NEW p \in Pointers
  PROVE  /\ Free(p) \in 0 .. 2 * B - 1 /\ B \in Nat \ {0}
         /\ Avail(p, io.appl) = Free(p)
         /\ HwAvail(p, io.appl) = IF Free(p) > B THEN 0 ELSE B - Free(p)
  <1>1. io.appl \in Pointers /\ B \in Nat \ {0}
    BY DEF IoTyped, HwTyped, B
  <1> QED
    BY <1>1, AvailIs, FillType DEF Free, Pointers, Ptrs, B

LEMMA AfterIs ==
  ASSUME HwTyped
  PROVE  /\ \A f \in Pointers : After(f) = Fwd(B, f, 1) /\ After(f) \in Pointers
         /\ After(Old) = 0
  <1>1. B \in Nat \ {0}
    BY DEF HwTyped, B
  <1>2. ASSUME NEW f \in Pointers PROVE After(f) = Fwd(B, f, 1) /\ After(f) \in Pointers
    <2>1. f \in Ptrs(B) /\ f \in Int /\ 0 <= f /\ f < 2 * B /\ 1 < 2 * B
      BY <1>1 DEF Pointers, Ptrs
    <2>2. (f + 1) % (2 * B) = Fwd(B, f, 1)
      BY <1>1, <2>1, ModIs
    <2>3. Fwd(B, f, 1) \in Ptrs(B)
      BY <1>1, <2>1, FwdType
    <2> QED
      BY <2>2, <2>3 DEF After, Pointers, Boundary, B
  <1>3. After(Old) = 0
    BY <1>1 DEF After, Old, Boundary, B
  <1> QED
    BY <1>2, <1>3

LEMMA StillBounds ==
  ASSUME Inv, PcmTyped', Parking', Still, app'.pc = "writing" => app.pc = "writing"
  PROVE  (smooth => Bounds)'
  BY DEF Inv, PcmTyped, Still, Bounds, Free, HwSame, B, Moving, Parking, Live

LEMMA StillPlays ==
  ASSUME Inv, PcmTyped', Still
  PROVE  Plays'
  <1>1. Live' => Pos' = Pos
    BY DEF Still, Pos, HwSame, B, Moving
  <1> QED
    BY <1>1 DEF Inv, Still, Plays, HwSame, B, Playback

LEMMA StillRecords ==
  ASSUME Inv, PcmTyped', Still
  PROVE  Records'
  <1>1. Live' => Pos' = Pos
    BY DEF Still, Pos, HwSame, B, Moving
  <1> QED
    BY <1>1 DEF Inv, Still, Records, HwSame, B, Playback

LEMMA FifoTypes ==
  /\ << >> \in Seq(Frames) /\ Len(<< >>) = 0
  /\ \A f \in Seq(Frames) :
       f # << >> => Tail(f) \in Seq(Frames) /\ Len(Tail(f)) = Len(f) - 1 /\ Len(f) \in Nat
  BY DEF Frames

LEMMA FifoSet ==
  ASSUME ServerTyped, Frames' = Frames, NEW f \in Seq(Frames), Len(f) <= Fifo,
         server' = [server EXCEPT !.fifo = f]
  PROVE  ServerTyped'
  <1>1. server' \in [paused : BOOLEAN, gone : BOOLEAN, fifo : Seq(Frames)] /\ server'.fifo = f
    BY DEF ServerTyped
  <1> QED
    BY <1>1 DEF ServerTyped, Fifo

LEMMA FifoStops ==
  ASSUME ServerTyped, Frames' = Frames, NEW p, StopStream(p, server)
  PROVE  ServerTyped'
  <1>1. server'.fifo = server.fifo \/ server'.fifo = << >>
    BY DEF ServerTyped, StopStream
  <1>2. server' \in [paused : BOOLEAN, gone : BOOLEAN, fifo : Seq(Frames)]
    BY FifoTypes DEF ServerTyped, StopStream
  <1>3. Len(server'.fifo) <= Fifo
    BY <1>1, FifoTypes DEF ServerTyped, Fifo
  <1> QED
    BY <1>2, <1>3 DEF ServerTyped

----------------------------------------------------------------------------
(* What a frame that is moved does to what is written, recorded or coming. *)

LEMMA WrittenMoves ==
  ASSUME NEW s, NEW b \in Nat \ {0}, NEW ring, NEW p \in Ptrs(b), NEW a \in Ptrs(b),
         Written(s, b, ring, p, a), Fill(s, b, p, a) < b
  PROVE  /\ ring[Slot(b, p)] = Fwd(b, p, 1)
         /\ Written(s, b, ring, Fwd(b, p, 1), a)
  <1>1. Fill(s, b, p, a) \in Nat /\ \A q \in Ptrs(b) : Fill(s, b, q, a) \in Nat
    BY FillType DEF Ptrs
  <1>2. Fill(s, b, Fwd(b, p, 1), a) = Fill(s, b, p, a) + 1
    BY <1>1, FillFwd
  <1> QED
    BY <1>1, <1>2 DEF Written

LEMMA WrittenEmpty ==
  ASSUME NEW s, NEW b \in Nat \ {0}, NEW ring, NEW p \in Ptrs(b), NEW a \in Ptrs(b),
         Fill(s, b, p, a) >= b
  PROVE  Written(s, b, ring, p, a)
  <1>1. Fill(s, b, p, a) \in Nat /\ \A q \in Ptrs(b) : Fill(s, b, q, a) \in Nat
    BY FillType DEF Ptrs
  <1> QED
    BY <1>1 DEF Written

LEMMA WrittenMore ==
  ASSUME NEW b \in Nat \ {0}, NEW X, NEW ring \in [0 .. b - 1 -> X], NEW p \in Ptrs(b),
  NEW a \in Ptrs(b),
         Written("PLAYBACK", b, ring, p, a),
         0 < Fill("PLAYBACK", b, p, a), Fill("PLAYBACK", b, p, a) <= b
  PROVE  Written("PLAYBACK", b, [ring EXCEPT ![Slot(b, a)] = Fwd(b, a, 1)], p, Fwd(b, a, 1))
  <1> DEFINE F(q) == Fill("PLAYBACK", b, q, a)
             G(q) == Fill("PLAYBACK", b, q, Fwd(b, a, 1))
             new == [ring EXCEPT ![Slot(b, a)] = Fwd(b, a, 1)]
  <1>1. \A q \in Ptrs(b) : F(q) \in Nat /\ G(q) = IF F(q) = 0 THEN 2 * b - 1 ELSE F(q) - 1
    BY FillType, FillNext DEF Ptrs
  <1>2. F(a) = b /\ Slot(b, a) \in 0 .. b - 1
    BY FillHere, SlotType DEF Ptrs
  <1>3. ASSUME NEW q \in Ptrs(b), G(p) <= G(q), G(q) < b PROVE new[Slot(b, q)] = Fwd(b, q, 1)
    <2>1. F(q) # 0 /\ F(p) <= F(q) /\ F(q) <= b /\ F(q) \in Nat
      BY <1>1, <1>3
    <2>2. CASE F(q) = b
      <3>1. q = a
        BY <1>2, <2>2, FillOnce
      <3> QED
        BY <1>2, <3>1
    <2>3. CASE F(q) < b
      <3>1. ring[Slot(b, q)] = Fwd(b, q, 1)
        BY <2>1, <2>3 DEF Written
      <3>2. Slot(b, q) # Slot(b, a)
        BY <1>2, <2>1, <2>3, SlotApart
      <3>3. Slot(b, q) \in 0 .. b - 1
        BY SlotType DEF Ptrs
      <3> QED
        BY <1>2, <3>1, <3>2, <3>3
    <2> QED
      BY <2>1, <2>2, <2>3
  <1> QED
    BY <1>3 DEF Written

LEMMA RecordedNone ==
  ASSUME NEW s, NEW b \in Nat \ {0}, NEW ring, NEW p \in Ptrs(b), NEW a \in Ptrs(b),
         Fill(s, b, p, a) = 0
  PROVE  Recorded(s, b, ring, p, a)
  <1>1. \A q \in Ptrs(b) : Fill(s, b, q, a) \in Nat
    BY FillType DEF Ptrs
  <1> QED
    BY <1>1 DEF Recorded

LEMMA RecordedMore ==
  ASSUME NEW s, NEW b \in Nat \ {0}, NEW X, NEW ring \in [0 .. b - 1 -> X], NEW p \in Ptrs(b),
  NEW a \in Ptrs(b),
         Recorded(s, b, ring, p, a), Fill(s, b, p, a) < b
  PROVE  Recorded(s, b, [ring EXCEPT ![Slot(b, p)] = Fwd(b, p, 1)], Fwd(b, p, 1), a)
  <1> DEFINE F(q) == Fill(s, b, q, a)
             new == [ring EXCEPT ![Slot(b, p)] = Fwd(b, p, 1)]
  <1>1. \A q \in Ptrs(b) : F(q) \in Nat
    BY FillType DEF Ptrs
  <1>2. F(Fwd(b, p, 1)) = F(p) + 1 /\ Slot(b, p) \in 0 .. b - 1
    BY <1>1, FillFwd, SlotType DEF Ptrs
  <1>3. ASSUME NEW q \in Ptrs(b), F(q) < F(Fwd(b, p, 1)) PROVE new[Slot(b, q)] = Fwd(b, q, 1)
    <2>1. CASE F(q) = F(p)
      <3>1. q = p
        BY <2>1, FillOnce
      <3> QED
        BY <1>2, <3>1
    <2>2. CASE F(q) < F(p)
      <3>1. ring[Slot(b, q)] = Fwd(b, q, 1)
        BY <2>2 DEF Recorded
      <3>2. Slot(b, q) # Slot(b, p)
        BY <1>1, <2>2, SlotApart
      <3>3. Slot(b, q) \in 0 .. b - 1
        BY SlotType DEF Ptrs
      <3> QED
        BY <1>2, <3>1, <3>2, <3>3
    <2> QED
      BY <1>1, <1>2, <1>3, <2>1, <2>2
  <1> QED
    BY <1>3 DEF Recorded

LEMMA RecordedLess ==
  ASSUME NEW s, s # "PLAYBACK", NEW b \in Nat \ {0}, NEW ring, NEW p \in Ptrs(b),
  NEW a \in Ptrs(b),
         Recorded(s, b, ring, p, a), 0 < Fill(s, b, p, a)
  PROVE  /\ ring[Slot(b, a)] = Fwd(b, a, 1)
         /\ Recorded(s, b, ring, p, Fwd(b, a, 1))
  <1> DEFINE F(q) == Fill(s, b, q, a)
             G(q) == Fill(s, b, q, Fwd(b, a, 1))
  <1>1. \A q \in Ptrs(b) : F(q) \in 0 .. 2 * b - 1 /\ G(q) = IF F(q) = 0 THEN 2 * b - 1 ELSE F(q) - 1
    BY FillType, FillNext DEF Ptrs
  <1>2. F(a) = 0
    BY FillHere
  <1>3. ASSUME NEW q \in Ptrs(b), G(q) < G(p) PROVE ring[Slot(b, q)] = Fwd(b, q, 1)
    <2>1. F(q) < F(p)
      BY <1>1, <1>3
    <2> QED
      BY <2>1 DEF Recorded
  <1> QED
    BY <1>2, <1>3 DEF Recorded

LEMMA ComingTail ==
  ASSUME NEW b \in Nat \ {0}, NEW X, NEW fifo \in Seq(X), NEW p \in Ptrs(b),
         fifo # << >>, Len(fifo) <= 2, Coming(b, fifo, p)
  PROVE  /\ Head(fifo) = Fwd(b, p, 1)
         /\ Coming(b, Tail(fifo), Fwd(b, p, 1))
         /\ Fwd(b, Fwd(b, p, 1), Len(Tail(fifo))) = Fwd(b, p, Len(fifo))
  <1>1. /\ Len(fifo) \in Nat /\ 1 <= Len(fifo) /\ Head(fifo) = fifo[1]
        /\ Len(Tail(fifo)) = Len(fifo) - 1
        /\ \A i \in 1 .. Len(fifo) - 1 : Tail(fifo)[i] = fifo[i + 1]
    OBVIOUS
  <1>2. \A i \in 1 .. Len(fifo) : fifo[i] = Fwd(b, p, i)
    BY DEF Coming
  <1>3. \A n \in 1 .. Len(fifo) : Fwd(b, Fwd(b, p, 1), n - 1) = Fwd(b, p, n)
    BY <1>1, FwdFwd
  <1>4. ASSUME NEW i \in 1 .. Len(Tail(fifo)) PROVE Tail(fifo)[i] = Fwd(b, Fwd(b, p, 1), i)
    <2>1. i + 1 \in 1 .. Len(fifo) /\ i = (i + 1) - 1 /\ Tail(fifo)[i] = fifo[i + 1]
      BY <1>1
    <2> QED
      BY <1>2, <1>3, <2>1
  <1> QED
    BY <1>1, <1>2, <1>3, <1>4 DEF Coming

LEMMA ComingAppend ==
  ASSUME NEW b \in Nat \ {0}, NEW X, NEW fifo \in Seq(X), NEW p \in Ptrs(b),
         Len(fifo) < 2, Coming(b, fifo, p)
  PROVE  LET f == Fwd(b, Fwd(b, p, Len(fifo)), 1)
         IN  Coming(b, Append(fifo, f), p) /\ f = Fwd(b, p, Len(Append(fifo, f)))
  <1> DEFINE f == Fwd(b, Fwd(b, p, Len(fifo)), 1)
             new == Append(fifo, f)
  <1>1. Len(fifo) \in Nat
    OBVIOUS
  <1>2. Len(fifo) + 1 \in 1 .. 2 * b /\ (Len(fifo) + 1) - 1 = Len(fifo)
    BY <1>1
  <1>3. f = Fwd(b, p, Len(fifo) + 1)
    BY <1>2, FwdFwd
  <1> HIDE DEF f
  <1>4. Len(new) = Len(fifo) + 1 /\ \A i \in 1 .. Len(fifo) + 1 :
          new[i] = IF i <= Len(fifo) THEN fifo[i] ELSE f
    BY <1>1
  <1>5. \A i \in 1 .. Len(new) : new[i] = Fwd(b, p, i)
    BY <1>1, <1>3, <1>4 DEF Coming
  <1> QED
    BY <1>3, <1>4, <1>5 DEF Coming, f

----------------------------------------------------------------------------
(* Steps that move a frame or a pointer, and the preparation of a stream *)

\* The frame that the thread moves next.
LEMMA PosIs ==
  ASSUME PcmTyped, Phases, Bounds, io.state # "OPEN", plug.ptr # -1
  PROVE  /\ Pos \in Pointers /\ B \in Nat \ {0} /\ plug.ptr \in Pointers
         /\ worker.pc \in Moving => worker.ptr \in Pointers
         /\ Live => Free(plug.ptr) <= Free(Pos) /\ Free(Pos) <= B
         /\ worker.pc = "transfer" =>
              /\ Free(Pos) < B /\ worker.off = Slot(B, Pos)
              /\ Fwd(B, Pos, 1) = Bwd(B, worker.ptr, worker.left - 1)
              /\ Bwd(B, worker.ptr, 0) = worker.ptr
  <1>1. B \in Nat \ {0} /\ plug.ptr \in Pointers
    BY DEF PcmTyped, HwTyped, PlugTyped, B
  <1>2. worker.pc \in Moving => worker.ptr \in Pointers
    BY DEF PcmTyped, WorkerTyped, Phases, Moving
  <1>3. Free(plug.ptr) \in Nat
    BY <1>1, FreeIs DEF PcmTyped
  <1>4. CASE worker.pc = "transfer"
    <2>1. /\ worker.ptr \in Ptrs(B) /\ Free(worker.ptr) \in 0 .. 2 * B - 1
          /\ worker.left \in Nat /\ 0 < worker.left
          /\ Free(plug.ptr) + worker.left <= Free(worker.ptr) /\ Free(worker.ptr) <= B
          /\ io.appl \in Ptrs(B)
      BY <1>1, <1>2, <1>4, FreeIs DEF PcmTyped, WorkerTyped, IoTyped, Bounds, Moving, Pointers
    <2>2. worker.left \in 1 .. 2 * B /\ worker.left <= Free(worker.ptr)
      BY <1>1, <1>3, <2>1
    <2>3. Pos = Bwd(B, worker.ptr, worker.left) /\ worker.off = Slot(B, Pos)
      BY <1>4 DEF Pos, Bounds
    <2>4. Pos \in Ptrs(B) /\ Free(Pos) = Free(worker.ptr) - worker.left
      BY <1>1, <2>1, <2>2, <2>3, BwdType, FillBwd DEF Free
    <2>5. Fwd(B, Pos, 1) = Bwd(B, worker.ptr, worker.left - 1) /\ Bwd(B, worker.ptr, 0) = worker.ptr
      BY <1>1, <2>1, <2>2, <2>3, BwdNext
    <2> QED
      BY <1>1, <1>2, <1>3, <1>4, <2>1, <2>3, <2>4, <2>5 DEF Pointers
  <1>5. CASE worker.pc # "transfer"
    BY <1>1, <1>2, <1>3, <1>5 DEF Bounds, Moving, Pos
  <1> QED
    BY <1>4, <1>5

LEMMA WorkerAvail1Keeps ==
  ASSUME Inv, WorkerAvail, HwAvail(worker.ptr, io.appl) = 0
  PROVE  Inv'
  <1>c. /\ worker.pc = "avail" /\ worker' = [worker EXCEPT !.pc = "xrun"]
        /\ smooth' = (smooth /\ worker.ptr # -1)
        /\ UNCHANGED <<hw, io, plug, app, server, made, due>>
    BY DEF WorkerAvail, WorkerAt
  <1>f. /\ WorkerIs("xrun", worker.ptr, worker.off, worker.left, worker.room, worker.sig)
        /\ worker.pc = "avail" /\ smooth' = (smooth /\ worker.ptr # -1) /\ HwSame
        /\ UNCHANGED <<hw, io, plug, app, server, made, due>>
    BY <1>c DEF Inv, PcmTyped, WorkerTyped, WorkerIs, HwSame
  <1>t. PcmTyped'
    <2>1. UNCHANGED <<Pointers, Frames, B>>
      BY <1>c DEF Pointers, Frames, B
    <2>2. WorkerTyped'
      BY <1>c, <2>1 DEF Inv, PcmTyped, WorkerTyped, Labels
    <2>3. HwTyped' /\ IoTyped' /\ PlugTyped' /\ AppTyped' /\ ServerTyped' /\ CountsTyped'
      BY <1>c, <2>1 DEF Inv, PcmTyped, HwTyped, IoTyped, PlugTyped, AppTyped, ServerTyped,
         CountsTyped
    <2> QED
      BY <2>2, <2>3 DEF PcmTyped
  <1>l. Linked' /\ Parking'
    BY <1>f DEF Inv, WorkerIs, Linked, Fallen, Parking, Playback
  <1>h. (smooth => Phases)'
    BY <1>f DEF Inv, WorkerIs, Phases, Live, Playback
  <1>s. Still
    BY <1>f DEF Inv, WorkerIs, Still, Moving, Live
  <1>b. (smooth => Bounds)'
    BY <1>f, <1>t, <1>l, <1>s, StillBounds
  <1>d. (smooth => Drains)'
    <2>1. ASSUME smooth', io.state = "DRAINING" PROVE Free(plug.ptr) = B
      <3>1. worker.ptr = plug.ptr /\ plug.ptr \in Pointers /\ Free(plug.ptr) <= B
        BY <1>f, <2>1 DEF Inv, PcmTyped, PlugTyped, Phases, Bounds, Live
      <3> QED
        BY <3>1, FreeIs DEF Inv, PcmTyped
    <2>2. UNCHANGED <<Free(plug.ptr), B, Playback>> /\ UNCHANGED Fwd(B, io.appl, 1)
      BY <1>f DEF Free, B, Playback
    <2> QED
      BY <1>f, <2>1, <2>2 DEF Inv, Drains, WorkerIs
  <1>o. Told'
    BY <1>f DEF Inv, Told, Raising, Free, B, WaitsForAll, Playback, WorkerIs
  <1> QED
    BY <1>t, <1>l, <1>h, <1>b, <1>d, <1>s, <1>o, StillPlays, StillRecords DEF Inv

LEMMA WorkerAvail2Keeps ==
  ASSUME Inv, WorkerAvail, HwAvail(worker.ptr, io.appl) # 0
  PROVE  Inv'
  <1> DEFINE avail == HwAvail(worker.ptr, io.appl)
             n == IF hw.period > avail THEN avail ELSE hw.period
  <1>c. /\ worker.pc = "avail"
        /\ worker' = [worker EXCEPT !.pc = "transfer", !.left = n, !.off = worker.ptr % hw.buffer,
                                    !.ptr = (worker.ptr + n) % Boundary,
                                    !.room = n + hw.buffer - avail]
        /\ smooth' = (smooth /\ worker.ptr # -1)
        /\ UNCHANGED <<hw, io, plug, app, server, made, due>>
    BY DEF WorkerAvail, WorkerAt
  <1>n. avail \in Nat \ {0} /\ n \in Nat \ {0} /\ n <= avail
    BY DEF HwAvail, Avail, Wrap, Boundary, Inv, PcmTyped, HwTyped, WorkerTyped, IoTyped,
       Pointers, Ptrs, B
  <1> HIDE DEF avail, n
  <1>k. B \in Nat \ {0} /\ B = hw.buffer /\ worker.ptr \in Int /\ -1 <= worker.ptr /\ worker.ptr < 2 * B
    BY DEF Inv, PcmTyped, HwTyped, WorkerTyped, Pointers, Ptrs, B
  <1>f. /\ WorkerIs("transfer", (worker.ptr + n) % (2 * B), Slot(B, worker.ptr), n, n + B - avail, worker.sig)
        /\ worker.pc = "avail" /\ smooth' = (smooth /\ worker.ptr # -1)
        /\ UNCHANGED <<hw, io, plug, app, server, made, due>>
    BY <1>c, <1>k DEF Inv, PcmTyped, WorkerTyped, WorkerIs, Slot, Boundary
  <1>t. PcmTyped'
    <2>1. UNCHANGED <<Pointers, Frames, B>>
      BY <1>c DEF Pointers, Frames, B
    <2>2. WorkerTyped'
      <3>1. (worker.ptr + n) % (2 * B) \in Pointers /\ Slot(B, worker.ptr) \in 0 .. B - 1
        <4>1. 2 * B \in Nat \ {0} /\ worker.ptr + n \in Int
          BY <1>n, <1>k
        <4> DEFINE m == 2 * B
                   x == worker.ptr + n
        <4>2. m \in Nat \ {0} /\ x \in Int
          BY <4>1
        <4> HIDE DEF m, x
        <4>3. x % m \in 0 .. m - 1
          BY <4>2
        <4> QED
          BY <1>k, <4>3, SlotType DEF m, x, Pointers, Ptrs
      <3>2. n + B - avail \in Int /\ n \in Nat /\ n > 0
        BY <1>n, <1>k
      <3>3. worker'.pc = "transfer" /\ worker'.left = n
        BY <1>f DEF WorkerIs
      <3>4. worker' \in [pc : Labels, ptr : Pointers \cup {-1}, off : 0 .. B - 1, left : Nat,
                         room : Int, sig : BOOLEAN]
        BY <1>c, <1>k, <3>1, <3>2 DEF Inv, PcmTyped, WorkerTyped, Labels, Slot, Boundary
      <3> QED
        BY <2>1, <3>2, <3>3, <3>4 DEF WorkerTyped
    <2>3. HwTyped' /\ IoTyped' /\ PlugTyped' /\ AppTyped' /\ ServerTyped' /\ CountsTyped'
      BY <1>c, <2>1 DEF Inv, PcmTyped, HwTyped, IoTyped, PlugTyped, AppTyped, ServerTyped,
         CountsTyped
    <2> QED
      BY <2>2, <2>3 DEF PcmTyped
  <1>l. Linked' /\ Parking'
    BY <1>f DEF Inv, WorkerIs, Linked, Fallen, Parking, Playback
  <1>m. ASSUME smooth'
        PROVE  /\ worker.ptr = plug.ptr /\ plug.ptr \in Pointers /\ worker'.ptr \in Pointers
               /\ Free(worker'.ptr) = Free(plug.ptr) + n /\ Free(worker'.ptr) <= B
               /\ n + B - avail = Free(worker'.ptr) /\ Bwd(B, worker'.ptr, n) = plug.ptr
               /\ Free(plug.ptr) \in Nat
    <2>1. worker.ptr = plug.ptr /\ plug.ptr \in Pointers /\ plug.ptr \in Ptrs(B)
      BY <1>f, <1>m DEF Inv, PcmTyped, PlugTyped, Phases, Pointers
    <2>2. Free(plug.ptr) <= B /\ avail = B - Free(plug.ptr) /\ Free(plug.ptr) \in Nat
      BY <2>1, <1>n, <1>k, FreeIs DEF Inv, PcmTyped, avail
    <2>3. n \in 0 .. 2 * B /\ n < 2 * B /\ 0 <= plug.ptr + n
      BY <1>n, <1>k, <2>1, <2>2 DEF Ptrs
    <2>4. worker'.ptr = Fwd(B, plug.ptr, n)
      BY <1>f, <1>k, <1>n, <2>1, <2>3, ModIs DEF WorkerIs
    <2>5. io.appl \in Ptrs(B) /\ Free(plug.ptr) + n < 2 * B
      BY <1>n, <1>k, <2>2 DEF Inv, PcmTyped, IoTyped, Pointers
    <2>6. Fwd(B, plug.ptr, n) \in Ptrs(B) /\ Free(Fwd(B, plug.ptr, n)) = Free(plug.ptr) + n
      BY <1>k, <2>1, <2>3, <2>5, FwdType, FillFwd DEF Free
    <2>7. Bwd(B, Fwd(B, plug.ptr, n), n) = plug.ptr
      BY <1>k, <2>1, <2>3, FwdBwd
    <2> QED
      BY <1>k, <1>n, <2>1, <2>2, <2>4, <2>6, <2>7 DEF Pointers
  <1>g. /\ UNCHANGED <<B, Playback>> /\ \A x : Free(x)' = Free(x)
        /\ UNCHANGED Fwd(B, io.appl, 1)
    BY <1>f DEF Free, B, Playback
  <1>h. (smooth => Phases)'
    <2>1. -1 \notin Pointers
      BY <1>k DEF Pointers, Ptrs
    <2> QED
      BY <1>f, <1>m, <2>1 DEF Inv, WorkerIs, Phases, Live, Playback
  <1>b. (smooth => Bounds)'
    <2> SUFFICES ASSUME smooth' PROVE Bounds'
      OBVIOUS
    <2>1. /\ Free(plug.ptr)' = Free(plug.ptr) /\ plug'.ptr = plug.ptr
          /\ Free(worker.ptr)' = Free(worker'.ptr)
      BY <1>f, <1>g DEF Free
    <2>2. /\ worker'.off = Slot(B, Bwd(B, worker'.ptr, worker'.left))
          /\ worker'.left = n /\ worker'.room = Free(worker'.ptr) /\ worker'.pc = "transfer"
      BY <1>f, <1>m DEF WorkerIs
    <2>3. Bounds
      BY <1>f DEF Inv
    <2>4. Free(plug.ptr) + n <= Free(worker'.ptr) /\ Free(worker'.ptr) <= Free(worker'.ptr)
          /\ Free(plug.ptr) <= Free(worker'.ptr) /\ Free(worker'.ptr) <= B
      BY <1>m, <1>n, <1>k
    <2> QED
      BY <1>f, <1>g, <2>1, <2>2, <2>3, <2>4 DEF Bounds, Live
  <1>d. (smooth => Drains)'
    <2>1. Free(plug.ptr)' = Free(plug.ptr)
      BY <1>f, <1>g DEF Free
    <2> QED
      BY <1>f, <1>g, <2>1 DEF Inv, Drains, WorkerIs
  <1>o. Told'
    BY <1>f DEF Inv, Told, Raising, Free, B, WaitsForAll, Playback, WorkerIs
  <1>e. smooth' => Pos' = Pos
    BY <1>f, <1>g, <1>m DEF Pos, WorkerIs
  <1>y. Plays' /\ Records'
    BY <1>f, <1>e, <1>g DEF Inv, Plays, Records, Live, Playback, B
  <1> QED
    BY <1>t, <1>l, <1>h, <1>b, <1>d, <1>o, <1>y DEF Inv

LEMMA WorkerXrunKeeps ==
  ASSUME Inv, WorkerXrun
  PROVE  Inv'
  <1>c. /\ worker.pc = "xrun" /\ worker' = [worker EXCEPT !.pc = "empty", !.ptr = -1]
        /\ plug' = [plug EXCEPT !.ptr = -1]
        /\ UNCHANGED <<hw, io, app, server, made, due, smooth>>
    BY DEF WorkerXrun, WorkerAt
  <1>f. /\ WorkerIs("empty", -1, worker.off, worker.left, worker.room, worker.sig)
        /\ PlugIs(-1, plug.pause, plug.connected, plug.event, plug.started, plug.ring)
        /\ worker.pc = "xrun" /\ UNCHANGED <<hw, io, app, server, made, due, smooth>>
    BY <1>c DEF Inv, PcmTyped, WorkerTyped, PlugTyped, WorkerIs, PlugIs
  <1>t. PcmTyped'
    <2>1. UNCHANGED <<Pointers, Frames, B>>
      BY <1>c DEF Pointers, Frames, B
    <2>2. WorkerTyped' /\ PlugTyped'
      BY <1>c, <2>1 DEF Inv, PcmTyped, WorkerTyped, PlugTyped, Labels
    <2>3. HwTyped' /\ IoTyped' /\ AppTyped' /\ ServerTyped' /\ CountsTyped'
      BY <1>c, <2>1 DEF Inv, PcmTyped, HwTyped, IoTyped, AppTyped, ServerTyped, CountsTyped
    <2> QED
      BY <2>2, <2>3 DEF PcmTyped
  <1>g. /\ UNCHANGED <<B, Playback>> /\ UNCHANGED Fwd(B, io.appl, 1)
    BY <1>f DEF B, Playback
  <1>l. Linked' /\ Parking'
    BY <1>f DEF Inv, WorkerIs, PlugIs, Linked, Fallen, Parking, Playback
  <1>h. (smooth => Phases)'
    BY <1>f DEF Inv, WorkerIs, PlugIs, Linked, Phases, Live, Playback
  <1>b. (smooth => Bounds)'
    BY <1>f DEF Bounds, WorkerIs, PlugIs
  <1>d. (smooth => Drains)'
    <2>1. ASSUME smooth, io.state = "DRAINING" PROVE due = Fwd(B, io.appl, 1)
      <3>1. Playback /\ Live /\ plug.connected /\ Free(plug.ptr) = B /\ Phases /\ Bounds
        BY <1>f, <2>1 DEF Inv, Drains, Live, Linked, Fallen
      <3>2. plug.ptr # -1
        BY <1>f, <3>1, <2>1 DEF Phases
      <3>3. plug.ptr \in Ptrs(B) /\ io.appl \in Ptrs(B) /\ B \in Nat \ {0} /\ Pos = plug.ptr
        BY <1>f, <3>1, <3>2, PosIs, <2>1 DEF Inv, PcmTyped, IoTyped, Pos, Pointers
      <3>4. Fill(hw.stream, B, plug.ptr, io.appl) = Fill(hw.stream, B, io.appl, io.appl)
        BY <3>1, <3>3, FillHere DEF Free, Playback
      <3>5. plug.ptr = io.appl
        BY <3>3, <3>4, FillOnce
      <3> QED
        BY <2>1, <3>1, <3>2, <3>3, <3>5 DEF Inv, Plays
    <2> QED
      BY <1>f, <1>g, <2>1 DEF Inv, Parking, Drains, WorkerIs, PlugIs
  <1>o. Told'
    BY <1>f DEF Inv, Told, Raising, Playback, WaitsForAll, B, WorkerIs, PlugIs
  <1>y. Plays' /\ Records'
    BY <1>f, <1>g DEF Inv, Plays, Records, PlugIs
  <1> QED
    BY <1>t, <1>l, <1>h, <1>b, <1>d, <1>o, <1>y DEF Inv

LEMMA WorkerFailsKeeps ==
  ASSUME Inv, WorkerFails
  PROVE  Inv'
  <1>c. /\ worker.pc = "transfer" /\ worker' = [worker EXCEPT !.pc = "fail"] /\ server.gone
        /\ plug' = [plug EXCEPT !.connected = FALSE]
        /\ UNCHANGED <<hw, io, app, server, made, due, smooth>>
    BY DEF WorkerFails, WorkerAt, WorkerTo
  <1>f. /\ WorkerIs("fail", worker.ptr, worker.off, worker.left, worker.room, worker.sig)
        /\ PlugIs(plug.ptr, plug.pause, FALSE, plug.event, plug.started, plug.ring)
        /\ worker.pc = "transfer" /\ server.gone /\ UNCHANGED <<hw, io, app, server, made, due,
                 smooth>>
    BY <1>c DEF Inv, PcmTyped, WorkerTyped, PlugTyped, WorkerIs, PlugIs
  <1>t. PcmTyped'
    <2>1. UNCHANGED <<Pointers, Frames, B>>
      BY <1>c DEF Pointers, Frames, B
    <2>2. WorkerTyped' /\ PlugTyped'
      BY <1>c, <2>1 DEF Inv, PcmTyped, WorkerTyped, PlugTyped, Labels
    <2>3. HwTyped' /\ IoTyped' /\ AppTyped' /\ ServerTyped' /\ CountsTyped'
      BY <1>c, <2>1 DEF Inv, PcmTyped, HwTyped, IoTyped, AppTyped, ServerTyped, CountsTyped
    <2> QED
      BY <2>2, <2>3 DEF PcmTyped
  <1>g. /\ UNCHANGED <<B, Playback>> /\ UNCHANGED Fwd(B, io.appl, 1) /\ UNCHANGED Free(plug.ptr)
    BY <1>f DEF B, Playback, Free, PlugIs
  <1>l. Linked' /\ Parking'
    BY <1>f DEF Inv, WorkerIs, PlugIs, Linked, Fallen, Parking, Playback
  <1>h. (smooth => Phases)'
    BY <1>f DEF Inv, WorkerIs, PlugIs, Phases, Live, Playback
  <1>b. (smooth => Bounds)'
    BY <1>f, <1>g DEF Inv, Bounds, WorkerIs, PlugIs, Live
  <1>d. (smooth => Drains)'
    BY <1>f, <1>g DEF Inv, Drains, WorkerIs, PlugIs
  <1>o. Told'
    BY <1>f DEF Inv, Told, Raising, Playback, WaitsForAll, B, WorkerIs, PlugIs
  <1>y. Plays' /\ Records'
    BY <1>f, <1>g DEF Inv, Plays, Records, PlugIs
  <1> QED
    BY <1>t, <1>l, <1>h, <1>b, <1>d, <1>o, <1>y DEF Inv

LEMMA WorkerPublishesKeeps ==
  ASSUME Inv, WorkerPublishes
  PROVE  Inv'
  <1>c. /\ worker.pc = "publish" /\ worker' = [worker EXCEPT !.pc = "notify"]
        /\ plug' = [plug EXCEPT !.ptr = worker.ptr]
        /\ UNCHANGED <<hw, io, app, server, made, due, smooth>>
    BY DEF WorkerPublishes, WorkerAt, WorkerTo
  <1>f. /\ WorkerIs("notify", worker.ptr, worker.off, worker.left, worker.room, worker.sig)
        /\ PlugIs(worker.ptr, plug.pause, plug.connected, plug.event, plug.started, plug.ring)
        /\ worker.pc = "publish" /\ UNCHANGED <<hw, io, app, server, made, due, smooth>>
    BY <1>c DEF Inv, PcmTyped, WorkerTyped, PlugTyped, WorkerIs, PlugIs
  <1>t. PcmTyped'
    <2>1. UNCHANGED <<Pointers, Frames, B>>
      BY <1>c DEF Pointers, Frames, B
    <2>2. WorkerTyped' /\ PlugTyped'
      BY <1>c, <2>1 DEF Inv, PcmTyped, WorkerTyped, PlugTyped, Labels
    <2>3. HwTyped' /\ IoTyped' /\ AppTyped' /\ ServerTyped' /\ CountsTyped'
      BY <1>c, <2>1 DEF Inv, PcmTyped, HwTyped, IoTyped, AppTyped, ServerTyped, CountsTyped
    <2> QED
      BY <2>2, <2>3 DEF PcmTyped
  <1>g. /\ UNCHANGED <<B, Playback>> /\ UNCHANGED Fwd(B, io.appl, 1)
        /\ Free(plug.ptr)' = Free(worker.ptr) /\ Free(worker.ptr)' = Free(worker.ptr)
    BY <1>f DEF B, Playback, Free, PlugIs, WorkerIs
  <1>m. smooth => /\ worker.ptr # -1 /\ plug.ptr # -1 /\ worker.ptr \in Pointers
                  /\ Free(plug.ptr) <= Free(worker.ptr) /\ Free(worker.ptr) <= B
                  /\ Free(plug.ptr) \in Nat /\ Free(worker.ptr) \in Nat /\ B \in Nat
    <2>1. smooth => /\ worker.ptr # -1 /\ plug.ptr # -1
                    /\ Free(plug.ptr) <= Free(worker.ptr) /\ Free(worker.ptr) <= B
      BY <1>f DEF Inv, Phases, Bounds, Linked
    <2> QED
      BY <2>1, FreeIs DEF Inv, PcmTyped, WorkerTyped, PlugTyped
  <1>l. Linked' /\ Parking'
    BY <1>f DEF Inv, WorkerIs, PlugIs, Linked, Fallen, Parking, Playback
  <1>h. (smooth => Phases)'
    BY <1>f, <1>m DEF Inv, WorkerIs, PlugIs, Linked, Phases, Live, Playback
  <1>b. (smooth => Bounds)'
    BY <1>f, <1>g, <1>m DEF Inv, Bounds, WorkerIs, PlugIs, Live
  <1>d. (smooth => Drains)'
    BY <1>f, <1>g, <1>m DEF Inv, Drains, WorkerIs, PlugIs
  <1>o. Told'
    BY <1>f DEF Inv, Told, Raising, Playback, WaitsForAll, B, WorkerIs, PlugIs
  <1>e. Pos' = Pos
    BY <1>f DEF Pos, WorkerIs, PlugIs
  <1>y. Plays' /\ Records'
    BY <1>f, <1>g, <1>e, <1>m DEF Inv, Plays, Records, Live, PlugIs
  <1> QED
    BY <1>t, <1>l, <1>h, <1>b, <1>d, <1>o, <1>y DEF Inv

\* What a frame moved does to the place where the thread is.
LEMMA MovedBounds ==
  ASSUME PcmTyped, Linked, Phases, Bounds, worker.pc = "transfer",
         UNCHANGED <<hw, io, app>>, plug'.ptr = plug.ptr, worker'.ptr = worker.ptr,
         worker'.left = worker.left - 1, worker'.off = (worker.off + 1) % hw.buffer,
         worker'.pc = IF worker.left = 1 THEN "publish" ELSE worker.pc, worker'.room = worker.room
  PROVE  Bounds' /\ Pos' = Fwd(B, Pos, 1) /\ Free(Pos)' = Free(Pos) + 1
  <1>1. io.state # "OPEN" /\ plug.ptr # -1
    BY DEF Linked, Phases
  <1>2. /\ Pos \in Ptrs(B) /\ B \in Nat \ {0} /\ plug.ptr \in Pointers /\ worker.ptr \in Pointers
        /\ Free(Pos) < B /\ worker.off = Slot(B, Pos)
        /\ Fwd(B, Pos, 1) = Bwd(B, worker.ptr, worker.left - 1) /\ Bwd(B, worker.ptr, 0) = worker.ptr
    BY <1>1, PosIs DEF Moving, Pointers
  <1>3. worker'.off = Slot(B, Fwd(B, Pos, 1))
    BY <1>2, SlotNext DEF B
  <1>4. UNCHANGED <<B, Free(plug.ptr), Free(worker.ptr)>>
    BY DEF Free, B
  <1>5. /\ worker.left \in Nat \ {0} /\ Free(worker.ptr) \in Nat
        /\ Free(plug.ptr) \in Nat /\ Free(Pos) \in Nat
    BY <1>2, FreeIs DEF PcmTyped, WorkerTyped, Pointers
  <1>6. Pos' = Fwd(B, Pos, 1)
    BY <1>2, <1>4, <1>5 DEF Pos
  <1>7. Free(Pos)' = Free(Pos) + 1
    <2>1. Free(Pos)' = Fill(hw.stream, B, Fwd(B, Pos, 1), io.appl)
      BY <1>4, <1>6 DEF Free
    <2>2. io.appl \in Ptrs(B) /\ Free(Pos) + 1 < 2 * B /\ 1 \in 0 .. 2 * B
      BY <1>2, <1>5 DEF PcmTyped, IoTyped, Pointers
    <2> QED
      BY <1>2, <2>1, <2>2, FillFwd DEF Free
  <1>8. Bounds'
    BY <1>2, <1>3, <1>4, <1>5 DEF Bounds, Live
  <1> QED
    BY <1>6, <1>7, <1>8

LEMMA WorkerWritesKeeps ==
  ASSUME Inv, WorkerWrites
  PROVE  Inv'
  <1>c. /\ worker.pc = "transfer" /\ Playback /\ ~server.gone /\ Len(server.fifo) < Fifo
        /\ worker' = [worker EXCEPT !.left = worker.left - 1, !.off = (worker.off + 1) % hw.buffer,
                                    !.pc = IF worker.left = 1 THEN "publish" ELSE worker.pc]
        /\ server' = [server EXCEPT !.fifo = Append(server.fifo, plug.ring[worker.off])]
        /\ due' = After(plug.ring[worker.off])
        /\ UNCHANGED <<hw, io, plug, app, made, smooth>>
    BY DEF WorkerWrites, WorkerAt, Moved
  <1>f. /\ WorkerIs(IF worker.left = 1 THEN "publish" ELSE worker.pc, worker.ptr,
                    (worker.off + 1) % hw.buffer, worker.left - 1, worker.room, worker.sig)
        /\ server'.gone = server.gone /\ due' = After(plug.ring[worker.off])
        /\ worker.pc = "transfer" /\ Playback /\ UNCHANGED <<hw, io, plug, app, made, smooth>>
    BY <1>c DEF Inv, PcmTyped, WorkerTyped, ServerTyped, WorkerIs
  <1>g. /\ UNCHANGED <<B, Playback>> /\ UNCHANGED Fwd(B, io.appl, 1) /\ UNCHANGED Free(plug.ptr)
    BY <1>f DEF B, Playback, Free
  <1>k. /\ plug.ring[worker.off] \in Frames /\ worker.off \in 0 .. B - 1 /\ B \in Nat \ {0}
        /\ worker.left \in Nat \ {0}
    BY <1>f DEF Inv, PcmTyped, PlugTyped, WorkerTyped, HwTyped, B
  <1>t. PcmTyped'
    <2>1. UNCHANGED <<Pointers, Frames, B>>
      BY <1>c DEF Pointers, Frames, B
    <2>2. WorkerTyped'
      <3>1. (worker.off + 1) % hw.buffer \in 0 .. B - 1 /\ worker.left - 1 \in Nat
        BY <1>k DEF B
      <3>2. worker'.pc = "transfer" => worker'.left > 0
        BY <1>f, <1>k DEF WorkerIs
      <3> QED
        BY <1>c, <2>1, <3>1, <3>2 DEF Inv, PcmTyped, WorkerTyped, Labels
    <2>3. ServerTyped'
      <3>1. Append(server.fifo, plug.ring[worker.off]) \in Seq(Frames)
            /\ Len(Append(server.fifo, plug.ring[worker.off])) <= Fifo
        BY <1>c, <1>k DEF Inv, PcmTyped, ServerTyped, Fifo
      <3> QED
        BY <1>c, <2>1, <3>1, FifoSet DEF Inv, PcmTyped
    <2>4. CountsTyped'
      <3>1. due' \in Pointers
        BY <1>f, <1>k, AfterIs, ZeroPointer DEF Inv, PcmTyped, Frames
      <3> QED
        BY <1>c, <2>1, <3>1 DEF Inv, PcmTyped, CountsTyped
    <2>5. HwTyped' /\ IoTyped' /\ AppTyped' /\ PlugTyped'
      BY <1>c, <2>1 DEF Inv, PcmTyped, HwTyped, IoTyped, AppTyped, PlugTyped
    <2> QED
      BY <2>2, <2>3, <2>4, <2>5 DEF PcmTyped
  <1>l. Linked' /\ Parking'
    BY <1>f DEF Inv, WorkerIs, Linked, Fallen, Parking, Playback
  <1>h. (smooth => Phases)'
    BY <1>f DEF Inv, WorkerIs, Phases, Live, Playback
  <1>m. smooth => Bounds' /\ Pos' = Fwd(B, Pos, 1)
    BY <1>f, MovedBounds DEF Inv, WorkerIs
  <1>n. smooth => /\ plug.ptr # -1 /\ Pos \in Ptrs(B) /\ Free(Pos) < B /\ worker.off = Slot(B, Pos)
                  /\ Free(plug.ptr) # B
    <2>1. smooth => io.state # "OPEN" /\ plug.ptr # -1
      BY <1>f DEF Inv, Linked, Phases
    <2>2. smooth => plug.ptr \in Pointers /\ worker.ptr \in Pointers
      BY <1>f, <2>1, PosIs DEF Inv, Moving
    <2>3. smooth => Free(plug.ptr) # B
      BY <1>f, <1>k, <2>2, FreeIs DEF Inv, PcmTyped, Bounds
    <2> QED
      BY <1>f, <2>1, <2>3, PosIs DEF Inv, Pointers
  <1>d. (smooth => Drains)'
    BY <1>f, <1>g, <1>n DEF Inv, Drains, WorkerIs
  <1>o. Told'
    BY <1>f DEF Inv, Told, Raising, Playback, WaitsForAll, B, Free, WorkerIs
  <1>y. Plays' /\ Records'
    <2>1. ASSUME smooth, Live, plug.connected
          PROVE  due' = Fwd(B, Pos', 1) /\ Written(hw.stream, B, plug.ring, Pos', io.appl)
      <3>1. Written(hw.stream, B, plug.ring, Pos, io.appl)
        BY <1>f, <1>n, <2>1 DEF Inv, Plays
      <3>2. io.appl \in Ptrs(B) /\ Fill(hw.stream, B, Pos, io.appl) < B
        BY <1>n, <2>1 DEF Inv, PcmTyped, IoTyped, Pointers, Free
      <3>3. /\ plug.ring[Slot(B, Pos)] = Fwd(B, Pos, 1)
            /\ Written(hw.stream, B, plug.ring, Fwd(B, Pos, 1), io.appl)
        BY <1>k, <1>n, <2>1, <3>1, <3>2, WrittenMoves
      <3>4. Fwd(B, Pos, 1) \in Pointers
        BY <1>k, <1>n, <2>1, FwdType DEF Pointers
      <3> QED
        BY <1>f, <1>m, <1>n, <2>1, <3>3, <3>4, AfterIs DEF Inv, PcmTyped
    <2> QED
      BY <1>f, <1>g, <2>1 DEF Inv, Plays, Records, Live
  <1> QED
    BY <1>t, <1>l, <1>h, <1>m, <1>d, <1>o, <1>y, <1>f DEF Inv

LEMMA WorkerReadsKeeps ==
  ASSUME Inv, WorkerReads
  PROVE  Inv'
  <1>c. /\ worker.pc = "transfer" /\ ~Playback /\ server.fifo # << >>
        /\ worker' = [worker EXCEPT !.left = worker.left - 1, !.off = (worker.off + 1) % hw.buffer,
                                    !.pc = IF worker.left = 1 THEN "publish" ELSE worker.pc]
        /\ server' = [server EXCEPT !.fifo = Tail(server.fifo)]
        /\ plug' = [plug EXCEPT !.ring = [plug.ring EXCEPT ![worker.off] = Head(server.fifo)]]
        /\ UNCHANGED <<hw, io, app, made, due, smooth>>
    BY DEF WorkerReads, WorkerAt, Moved
  <1>f. /\ WorkerIs(IF worker.left = 1 THEN "publish" ELSE worker.pc, worker.ptr,
                    (worker.off + 1) % hw.buffer, worker.left - 1, worker.room, worker.sig)
        /\ PlugIs(plug.ptr, plug.pause, plug.connected, plug.event, plug.started,
                  [plug.ring EXCEPT ![worker.off] = Head(server.fifo)])
        /\ ServerIs(server.gone, Tail(server.fifo)) /\ server.fifo # << >>
        /\ worker.pc = "transfer" /\ ~Playback /\ UNCHANGED <<hw, io, app, made, due, smooth>>
    BY <1>c DEF Inv, PcmTyped, WorkerTyped, PlugTyped, ServerTyped, WorkerIs, PlugIs, ServerIs
  <1>g. /\ UNCHANGED <<B, Playback>> /\ UNCHANGED Fwd(B, io.appl, 1) /\ UNCHANGED Free(plug.ptr)
    BY <1>f DEF B, Playback, Free, PlugIs
  <1>k. /\ worker.off \in 0 .. B - 1 /\ B \in Nat \ {0} /\ worker.left \in Nat \ {0}
        /\ plug.ring \in [0 .. B - 1 -> Frames] /\ server.fifo \in Seq(Frames) /\ Len(server.fifo) <= 2
    BY <1>f DEF Inv, PcmTyped, PlugTyped, ServerTyped, WorkerTyped, HwTyped, B, Fifo
  <1>t. PcmTyped'
    <2>1. UNCHANGED <<Pointers, Frames, B>>
      BY <1>c DEF Pointers, Frames, B
    <2>2. WorkerTyped'
      <3>1. (worker.off + 1) % hw.buffer \in 0 .. B - 1 /\ worker.left - 1 \in Nat
        BY <1>k DEF B
      <3>2. worker'.pc = "transfer" => worker'.left > 0
        BY <1>f, <1>k DEF WorkerIs
      <3> QED
        BY <1>c, <2>1, <3>1, <3>2 DEF Inv, PcmTyped, WorkerTyped, Labels
    <2>3. ServerTyped'
      <3>1. Tail(server.fifo) \in Seq(Frames) /\ Len(Tail(server.fifo)) <= Fifo
        BY <1>f, <1>k, FifoTypes DEF Fifo
      <3> QED
        BY <1>c, <2>1, <3>1, FifoSet DEF Inv, PcmTyped
    <2>4. PlugTyped'
      <3>1. Head(server.fifo) \in Frames
        BY <1>f, <1>k
      <3>2. [plug.ring EXCEPT ![worker.off] = Head(server.fifo)] \in [0 .. B - 1 -> Frames]
        BY <1>k, <3>1
      <3> QED
        BY <1>c, <2>1, <3>2 DEF Inv, PcmTyped, PlugTyped
    <2>5. HwTyped' /\ IoTyped' /\ AppTyped' /\ CountsTyped'
      BY <1>c, <2>1 DEF Inv, PcmTyped, HwTyped, IoTyped, AppTyped, CountsTyped
    <2> QED
      BY <2>2, <2>3, <2>4, <2>5 DEF PcmTyped
  <1>l. Linked' /\ Parking'
    BY <1>f DEF Inv, WorkerIs, PlugIs, ServerIs, Linked, Fallen, Parking, Playback
  <1>h. (smooth => Phases)'
    BY <1>f DEF Inv, WorkerIs, PlugIs, Phases, Live, Playback
  <1>m. smooth => Bounds' /\ Pos' = Fwd(B, Pos, 1)
    BY <1>f, MovedBounds DEF Inv, WorkerIs, PlugIs
  <1>n. smooth => /\ plug.ptr # -1 /\ Pos \in Ptrs(B) /\ Free(Pos) < B /\ worker.off = Slot(B, Pos)
    BY <1>f, PosIs DEF Inv, Linked, Phases, Pointers
  <1>d. (smooth => Drains)'
    BY <1>f, <1>g DEF Inv, Drains, Parking, WorkerIs
  <1>o. Told'
    BY <1>f DEF Inv, Told, Raising, Playback, WaitsForAll, B, Free, WorkerIs, PlugIs
  <1>y. Plays' /\ Records'
    <2>1. ASSUME smooth, Live, plug.connected
          PROVE  /\ Recorded(hw.stream, B, plug'.ring, Pos', io.appl)
                 /\ Coming(B, Tail(server.fifo), Pos')
                 /\ made = Fwd(B, Pos', Len(Tail(server.fifo)))
      <3>1. /\ Recorded(hw.stream, B, plug.ring, Pos, io.appl)
            /\ Coming(B, server.fifo, Pos)
            /\ made = Fwd(B, Pos, Len(server.fifo))
        BY <1>f, <1>n, <2>1 DEF Inv, Records
      <3>2. io.appl \in Ptrs(B) /\ Fill(hw.stream, B, Pos, io.appl) < B
        BY <1>n, <2>1 DEF Inv, PcmTyped, IoTyped, Pointers, Free
      <3>3. /\ Head(server.fifo) = Fwd(B, Pos, 1)
            /\ Coming(B, Tail(server.fifo), Fwd(B, Pos, 1))
            /\ Fwd(B, Fwd(B, Pos, 1), Len(Tail(server.fifo))) = Fwd(B, Pos, Len(server.fifo))
        BY <1>f, <1>k, <1>n, <2>1, <3>1, ComingTail
      <3>4. Recorded(hw.stream, B, [plug.ring EXCEPT ![Slot(B, Pos)] = Fwd(B, Pos, 1)],
                     Fwd(B, Pos, 1), io.appl)
        BY <1>k, <1>n, <2>1, <3>1, <3>2, RecordedMore
      <3> QED
        BY <1>f, <1>m, <1>n, <2>1, <3>1, <3>3, <3>4 DEF PlugIs
    <2> QED
      BY <1>f, <1>g, <2>1 DEF Inv, Plays, Records, Live, PlugIs, ServerIs
  <1> QED
    BY <1>t, <1>l, <1>h, <1>m, <1>d, <1>o, <1>y, <1>f DEF Inv

LEMMA ServerRecordsKeeps ==
  ASSUME Inv, ServerRecords
  PROVE  Inv'
  <1>c. /\ ~Playback /\ plug.connected /\ Len(server.fifo) < Fifo /\ made' = After(made)
        /\ server' = [server EXCEPT !.fifo = Append(server.fifo, After(made))]
        /\ UNCHANGED <<hw, io, plug, worker, app, due, smooth>>
    BY DEF ServerRecords
  <1>k. /\ B \in Nat \ {0} /\ made \in Pointers
        /\ After(made) = Fwd(B, made, 1) /\ After(made) \in Pointers
        /\ server.fifo \in Seq(Frames) /\ Len(server.fifo) < 2
    BY <1>c, AfterIs DEF Inv, PcmTyped, HwTyped, CountsTyped, ServerTyped, B, Fifo
  <1>f. /\ ServerIs(server.gone, Append(server.fifo, After(made)))
        /\ ~Playback /\ plug.connected /\ made' = After(made)
        /\ UNCHANGED <<hw, io, plug, worker, app, due, smooth>>
    BY <1>c DEF Inv, PcmTyped, ServerTyped, ServerIs
  <1>g. /\ UNCHANGED <<B, Playback, Pos>> /\ UNCHANGED Fwd(B, io.appl, 1)
        /\ UNCHANGED Free(plug.ptr)
    BY <1>f DEF B, Playback, Free, Pos
  <1>t. PcmTyped'
    <2>1. UNCHANGED <<Pointers, Frames, B>>
      BY <1>c DEF Pointers, Frames, B
    <2>2. ServerTyped'
      <3>1. /\ Append(server.fifo, After(made)) \in Seq(Frames)
            /\ Len(Append(server.fifo, After(made))) <= Fifo
        BY <1>k DEF Frames, Fifo
      <3> QED
        BY <1>c, <2>1, <3>1, FifoSet DEF Inv, PcmTyped
    <2>3. CountsTyped'
      BY <1>c, <1>k, <2>1 DEF Inv, PcmTyped, CountsTyped
    <2>4. HwTyped' /\ IoTyped' /\ AppTyped' /\ PlugTyped' /\ WorkerTyped'
      BY <1>c, <2>1 DEF Inv, PcmTyped, HwTyped, IoTyped, AppTyped, PlugTyped, WorkerTyped
    <2> QED
      BY <2>2, <2>3, <2>4 DEF PcmTyped
  <1>l. Linked' /\ Parking'
    BY <1>f DEF Inv, ServerIs, Linked, Fallen, Parking, Playback
  <1>h. (smooth => Phases)' /\ (smooth => Bounds)'
    BY <1>f DEF Inv, Phases, Bounds, Live, Playback, Free, B
  <1>d. (smooth => Drains)'
    BY <1>f, <1>g DEF Inv, Drains, ServerIs
  <1>o. Told'
    BY <1>f DEF Inv, Told, Raising, Playback, WaitsForAll, B, Free
  <1>y. Plays' /\ Records'
    <2>1. ASSUME smooth, Live, plug.ptr # -1
          PROVE  Coming(B, server'.fifo, Pos) /\ made' = Fwd(B, Pos, Len(server'.fifo))
      <3>1. Pos \in Ptrs(B)
        BY <2>1, PosIs DEF Inv, Live, Pointers
      <3>2. Coming(B, server.fifo, Pos) /\ made = Fwd(B, Pos, Len(server.fifo))
        BY <1>f, <2>1 DEF Inv, Records
      <3> QED
        BY <1>f, <1>k, <3>1, <3>2, ComingAppend DEF ServerIs
    <2> QED
      BY <1>f, <1>g, <2>1 DEF Inv, Plays, Records, Live
  <1> QED
    BY <1>t, <1>l, <1>h, <1>d, <1>o, <1>y, <1>f DEF Inv

\* A frame written or read by the application leaves one less that is free, from
\* wherever the hardware is.
LEMMA NextBounds ==
  ASSUME Inv, smooth, Live, plug.ptr # -1, 0 < Free(plug.ptr), HwSame,
         io'.appl = Fwd(B, io.appl, 1), UNCHANGED worker, plug'.ptr = plug.ptr,
         Live => Live', app'.pc # "writing"
  PROVE  /\ Bounds' /\ Free(plug.ptr)' = Free(plug.ptr) - 1 /\ Free(plug.ptr) \in Nat
         /\ Pos' = Pos /\ Pos \in Ptrs(B) /\ 0 < Free(Pos) /\ Free(Pos) <= B
         /\ io.appl \in Ptrs(B) /\ io'.appl \in Pointers /\ B \in Nat \ {0}
  <1>1. /\ Phases /\ Bounds /\ PcmTyped /\ B \in Nat \ {0} /\ io.appl \in Ptrs(B)
        /\ HwTyped /\ IoTyped
    BY DEF Inv, PcmTyped, HwTyped, IoTyped, B, Pointers
  <1>2. /\ Pos \in Ptrs(B) /\ plug.ptr \in Ptrs(B) /\ Free(plug.ptr) <= Free(Pos) /\ Free(Pos) <= B
        /\ worker.pc \in Moving => worker.ptr \in Ptrs(B)
    BY <1>1, PosIs DEF Live, Pointers
  <1>3. UNCHANGED B
    BY DEF HwSame, B
  <1>4. \A x \in Ptrs(B) : Free(x) \in Nat /\ Fill(hw'.stream, B, x, io'.appl) =
                             IF Free(x) = 0 THEN 2 * B - 1 ELSE Free(x) - 1
    BY <1>1, FillNext, FillType DEF Free, HwSame, Ptrs
  <1>5. Free(plug.ptr)' = Free(plug.ptr) - 1
    BY <1>2, <1>3, <1>4 DEF Free
  <1>6. ASSUME worker.pc \in {"transfer", "publish", "notify"}
        PROVE  /\ Free(worker.ptr)' = Free(worker.ptr) - 1 /\ Free(plug.ptr) <= Free(worker.ptr)
               /\ Free(worker.ptr) \in Nat
    <2>1. worker.ptr \in Ptrs(B) /\ Free(plug.ptr) <= Free(worker.ptr)
      BY <1>1, <1>2, <1>4, <1>6 DEF Phases, Bounds, Moving
    <2> QED
      BY <1>2, <1>3, <1>4, <2>1 DEF Free
  <1>7. Pos' = Pos
    BY <1>3 DEF Pos
  <1>8. io'.appl \in Pointers
    BY <1>1, FwdType DEF Pointers
  <1>9. Free(plug.ptr) \in Nat /\ Free(Pos) \in Nat /\ worker.left \in Nat /\ worker.room \in Int
    BY <1>1, <1>2, <1>4 DEF PcmTyped, WorkerTyped
  <1>10. Bounds'
    BY <1>1, <1>2, <1>3, <1>5, <1>6, <1>9 DEF Bounds
  <1> QED
    BY <1>1, <1>2, <1>5, <1>7, <1>8, <1>9, <1>10

LEMMA WrapIs ==
  ASSUME HwTyped, NEW p \in Pointers
  PROVE  Wrap(p + 1) = Fwd(B, p, 1) /\ p % hw.buffer = Slot(B, p)
  BY DEF HwTyped, Pointers, Ptrs, B, Wrap, Fwd, Slot, Boundary

LEMMA CommitsKeeps ==
  ASSUME Inv, Commits
  PROVE  Inv'
  <1>k. /\ io.appl \in Pointers /\ B \in Nat \ {0} /\ made \in Pointers
        /\ After(made) = Fwd(B, made, 1) /\ After(made) \in Pointers
        /\ Wrap(io.appl + 1) = Fwd(B, io.appl, 1) /\ io.appl % hw.buffer = Slot(B, io.appl)
        /\ Slot(B, io.appl) \in 0 .. B - 1 /\ plug.ring \in [0 .. B - 1 -> Frames]
        /\ Fwd(B, io.appl, 1) \in Pointers
    <2>1. HwTyped /\ io.appl \in Pointers /\ B \in Nat \ {0} /\ made \in Pointers
          /\ plug.ring \in [0 .. B - 1 -> Frames]
      BY DEF Inv, PcmTyped, HwTyped, IoTyped, PlugTyped, CountsTyped, B
    <2>2. io.appl \in Ptrs(B) /\ io.appl \in Int
      BY <2>1 DEF Pointers, Ptrs
    <2>3. Fwd(B, io.appl, 1) \in Pointers
      BY <2>1, <2>2, FwdType DEF Pointers
    <2> QED
      BY <2>1, <2>2, <2>3, AfterIs, WrapIs, SlotType
  <1>c. /\ app.pc = "writing" /\ app' = [app EXCEPT !.pc = "free"] /\ made' = After(made)
        /\ plug' = [plug EXCEPT !.ring = [plug.ring EXCEPT ![Slot(B, io.appl)] = After(made)]]
        /\ io' = [io EXCEPT !.appl = Fwd(B, io.appl, 1)]
        /\ UNCHANGED <<hw, worker, server, due, smooth>>
    BY <1>k DEF Commits
  <1>f. /\ PlugIs(plug.ptr, plug.pause, plug.connected, plug.event, plug.started,
                  [plug.ring EXCEPT ![Slot(B, io.appl)] = After(made)])
        /\ IoIs(io.state, Fwd(B, io.appl, 1)) /\ AppIs("free", app.woken) /\ HwSame
        /\ app.pc = "writing" /\ made' = After(made) /\ UNCHANGED <<hw, worker, server, due,
                 smooth>>
    BY <1>c DEF Inv, PcmTyped, PlugTyped, IoTyped, AppTyped, PlugIs, IoIs, AppIs, HwSame
  <1>g. UNCHANGED <<B, Playback>>
    BY <1>f DEF B, Playback
  <1>p. Playback /\ io.state \in {"PREPARED", "RUNNING"} /\ Live
    BY <1>f DEF Inv, Parking, Live
  <1>t. PcmTyped'
    <2>1. UNCHANGED <<Pointers, Frames, B>>
      BY <1>c DEF Pointers, Frames, B
    <2>2. PlugTyped'
      <3>1. [plug.ring EXCEPT ![Slot(B, io.appl)] = After(made)] \in [0 .. B - 1 -> Frames]
        BY <1>k DEF Frames
      <3> QED
        BY <1>c, <2>1, <3>1 DEF Inv, PcmTyped, PlugTyped
    <2>3. IoTyped' /\ AppTyped' /\ CountsTyped'
      BY <1>c, <1>k, <2>1 DEF Inv, PcmTyped, IoTyped, AppTyped, CountsTyped, Calling
    <2>4. HwTyped' /\ WorkerTyped' /\ ServerTyped'
      BY <1>c, <2>1 DEF Inv, PcmTyped, HwTyped, WorkerTyped, ServerTyped
    <2> QED
      BY <2>2, <2>3, <2>4 DEF PcmTyped
  <1>l. Linked' /\ Parking'
    BY <1>f DEF Inv, PlugIs, IoIs, AppIs, Linked, Fallen, Parking, Playback
  <1>h. (smooth => Phases)'
    BY <1>f, <1>p, <1>g DEF Inv, PlugIs, IoIs, Phases, Live
  <1>m. smooth /\ plug.ptr # -1 =>
          /\ Bounds' /\ Free(plug.ptr)' = Free(plug.ptr) - 1 /\ Free(plug.ptr) \in Nat
          /\ Pos' = Pos /\ Pos \in Ptrs(B) /\ 0 < Free(Pos) /\ Free(Pos) <= B
    <2>1. smooth /\ plug.ptr # -1 => 0 < Free(plug.ptr)
      BY <1>f DEF Inv, Bounds
    <2> QED
      BY <1>f, <1>p, <2>1, NextBounds DEF PlugIs, IoIs, AppIs, Live
  <1>b. (smooth => Bounds)'
    <2>1. ASSUME smooth, plug.ptr = -1 PROVE Bounds'
      BY <1>f, <1>p, <2>1 DEF Inv, Phases, Bounds, PlugIs, AppIs
    <2> QED
      BY <1>f, <1>m, <2>1
  <1>d. (smooth => Drains)'
    BY <1>f, <1>p DEF Inv, Drains, IoIs, AppIs
  <1>o. Told'
    <2>1. smooth /\ plug.ptr # -1 => Free(plug.ptr)' < Free(plug.ptr) /\ Free(plug.ptr)' \in Int
      BY <1>m
    <2>2. hw.min \in Nat /\ hw'.min = hw.min /\ plug'.ptr = plug.ptr /\ plug'.event = plug.event
          /\ UNCHANGED Raising /\ io'.state = io.state /\ UNCHANGED WaitsForAll
      BY <1>f DEF Inv, PcmTyped, HwTyped, PlugIs, Raising, IoIs, WaitsForAll
    <2> QED
      BY <1>f, <1>g, <1>m, <1>p, <2>1, <2>2 DEF Inv, Told
  <1>y. Plays' /\ Records'
    <2>1. made' = io'.appl
      BY <1>f, <1>k, <1>p DEF Inv, Plays, IoIs
    <2>2. ASSUME smooth, plug.ptr # -1, plug.connected
          PROVE  due = Fwd(B, Pos, 1) /\ Written(hw.stream, B, plug'.ring, Pos, io'.appl)
      <3>1. /\ due = Fwd(B, Pos, 1) /\ Written("PLAYBACK", B, plug.ring, Pos, io.appl)
            /\ made = io.appl
        BY <1>p, <2>2 DEF Inv, Plays, Playback
      <3>2. /\ 0 < Fill("PLAYBACK", B, Pos, io.appl) /\ Fill("PLAYBACK", B, Pos, io.appl) <= B
            /\ Pos \in Ptrs(B) /\ io.appl \in Ptrs(B)
        BY <1>k, <1>m, <1>p, <2>2 DEF Free, Playback, Pointers
      <3>3. Written("PLAYBACK", B, [plug.ring EXCEPT ![Slot(B, io.appl)] = Fwd(B, io.appl, 1)], Pos,
                    Fwd(B, io.appl, 1))
        BY <1>k, <3>1, <3>2, WrittenMore
      <3> QED
        BY <1>f, <1>k, <1>p, <3>1, <3>3 DEF PlugIs, IoIs, Playback
    <2> QED
      BY <1>f, <1>g, <1>m, <1>p, <2>1, <2>2 DEF Plays, Records, PlugIs
  <1> QED
    BY <1>t, <1>l, <1>h, <1>b, <1>d, <1>o, <1>y, <1>f DEF Inv

LEMMA ReadsNextKeeps ==
  ASSUME Inv, Reads, Transferring
  PROVE  Inv'
  <1>k. /\ io.appl \in Pointers /\ B \in Nat \ {0} /\ HwTyped /\ IoTyped
        /\ Wrap(io.appl + 1) = Fwd(B, io.appl, 1) /\ io.appl % hw.buffer = Slot(B, io.appl)
        /\ Slot(B, io.appl) \in 0 .. B - 1 /\ plug.ring \in [0 .. B - 1 -> Frames]
        /\ Fwd(B, io.appl, 1) \in Pointers
    <2>1. /\ HwTyped /\ IoTyped /\ io.appl \in Pointers /\ B \in Nat \ {0}
          /\ plug.ring \in [0 .. B - 1 -> Frames]
      BY DEF Inv, PcmTyped, HwTyped, IoTyped, PlugTyped, B
    <2>2. io.appl \in Ptrs(B) /\ io.appl \in Int
      BY <2>1 DEF Pointers, Ptrs
    <2>3. Fwd(B, io.appl, 1) \in Pointers
      BY <2>1, <2>2, FwdType DEF Pointers
    <2> QED
      BY <2>1, <2>2, <2>3, WrapIs, SlotType
  <1>1. /\ ~Playback /\ app.pc = "free" /\ io.state = "RUNNING"
        /\ io' = [Synced EXCEPT !.appl = Wrap(@ + 1)]
        /\ due' = After(plug.ring[Slot(B, io.appl)])
        /\ UNCHANGED <<hw, plug, worker, app, server, made, smooth>>
    BY <1>k DEF Reads, Idle
  <1>2. /\ plug.ptr # -1 /\ plug.connected
        /\ Synced = [io EXCEPT !.seen = plug.ptr]
    BY <1>1 DEF Transferring, Synced, Drained, Pointed, Inv, PcmTyped, IoTyped
  <1>3. plug.ptr \in Pointers /\ 0 < Free(plug.ptr)
    <2>1. plug.ptr \in Pointers /\ Synced.seen = plug.ptr
      BY <1>2 DEF Inv, PcmTyped, PlugTyped, IoTyped
    <2> QED
      BY <1>k, <2>1, FreeIs DEF Transferring, Room
  <1>c. io' = [io EXCEPT !.seen = plug.ptr, !.appl = Fwd(B, io.appl, 1)]
    BY <1>1, <1>2, <1>k DEF IoTyped
  <1>f. /\ IoIs("RUNNING", Fwd(B, io.appl, 1)) /\ HwSame /\ Live /\ Live'
        /\ UNCHANGED <<hw, plug, worker, app, server, made, smooth>>
    BY <1>1, <1>c, <1>k DEF IoIs, IoTyped, HwSame, Live
  <1>g. UNCHANGED <<B, Playback>>
    BY <1>f DEF B, Playback
  <1>t. PcmTyped'
    <2>1. UNCHANGED <<Pointers, Frames, B>>
      BY <1>f DEF Pointers, Frames, B
    <2>2. IoTyped'
      BY <1>c, <1>k, <1>3, <2>1 DEF IoTyped
    <2>3. CountsTyped'
      <3>1. plug.ring[Slot(B, io.appl)] \in Frames
        BY <1>k
      <3>2. due' \in Pointers
        BY <1>1, <1>k, <3>1, AfterIs, ZeroPointer DEF Frames
      <3> QED
        BY <1>1, <2>1, <3>2 DEF Inv, PcmTyped, CountsTyped
    <2>4. HwTyped' /\ WorkerTyped' /\ ServerTyped' /\ AppTyped' /\ PlugTyped'
      BY <1>1, <2>1 DEF Inv, PcmTyped, HwTyped, WorkerTyped, ServerTyped, AppTyped, PlugTyped
    <2> QED
      BY <2>2, <2>3, <2>4 DEF PcmTyped
  <1>l. Linked' /\ Parking'
    BY <1>f, <1>1 DEF Inv, IoIs, Linked, Fallen, Parking, Playback
  <1>h. (smooth => Phases)'
    BY <1>f, <1>1, <1>g DEF Inv, IoIs, Phases, Live
  <1>m. smooth =>
          /\ Bounds' /\ Free(plug.ptr)' = Free(plug.ptr) - 1 /\ Free(plug.ptr) \in Nat
          /\ Pos' = Pos /\ Pos \in Ptrs(B) /\ 0 < Free(Pos) /\ Free(Pos) <= B
    BY <1>f, <1>1, <1>2, <1>3, NextBounds DEF IoIs
  <1>d. (smooth => Drains)'
    BY <1>f, <1>1 DEF Inv, Drains, Parking, IoIs
  <1>o. Told'
    <2>1. smooth => Free(plug.ptr)' < Free(plug.ptr) /\ Free(plug.ptr)' \in Int
      BY <1>m
    <2>2. hw.min \in Nat /\ UNCHANGED <<Raising, WaitsForAll>>
      BY <1>f DEF Inv, PcmTyped, HwTyped, Raising, WaitsForAll
    <2> QED
      BY <1>f, <1>1, <1>2, <1>g, <1>m, <2>1, <2>2 DEF Inv, Told, IoIs
  <1>y. Plays' /\ Records'
    <2>1. ASSUME smooth
          PROVE  /\ due' = Fwd(B, io'.appl, 1)
                 /\ Recorded(hw.stream, B, plug.ring, Pos, io'.appl)
                 /\ Coming(B, server.fifo, Pos) /\ made = Fwd(B, Pos, Len(server.fifo))
      <3>1. /\ Recorded(hw.stream, B, plug.ring, Pos, io.appl)
            /\ Coming(B, server.fifo, Pos) /\ made = Fwd(B, Pos, Len(server.fifo))
        BY <1>f, <1>1, <1>2, <2>1 DEF Inv, Records
      <3>2. io.appl \in Ptrs(B) /\ 0 < Fill(hw.stream, B, Pos, io.appl) /\ hw.stream # "PLAYBACK"
        BY <1>1, <1>k, <1>m, <2>1 DEF Pointers, Free, Playback
      <3>3. /\ plug.ring[Slot(B, io.appl)] = Fwd(B, io.appl, 1)
            /\ Recorded(hw.stream, B, plug.ring, Pos, Fwd(B, io.appl, 1))
        BY <1>k, <1>m, <2>1, <3>1, <3>2, RecordedLess
      <3>4. due' = Fwd(B, Fwd(B, io.appl, 1), 1)
        BY <1>1, <1>k, <3>3, AfterIs
      <3> QED
        BY <1>f, <3>1, <3>3, <3>4 DEF IoIs
    <2> QED
      BY <1>f, <1>1, <1>g, <1>m, <2>1 DEF Plays, Records, IoIs
  <1> QED
    BY <1>t, <1>l, <1>h, <1>m, <1>d, <1>o, <1>y, <1>f DEF Inv

LEMMA ReadsNothingKeeps ==
  ASSUME Inv, Reads, ~Transferring
  PROVE  Inv'
  <1>c. /\ ~Playback /\ app.pc = "free" /\ io.state = "RUNNING"
        /\ io' = [Synced EXCEPT !.appl = @]
        /\ UNCHANGED <<hw, plug, worker, app, server, made, due, smooth>>
    BY DEF Reads, Idle
  <1>f. /\ IoIs(IF plug.ptr = -1 THEN "XRUN" ELSE IF plug.connected THEN "RUNNING" ELSE "DISCONNECTED",
                io.appl)
        /\ ~Playback /\ app.pc = "free" /\ io.state = "RUNNING" /\ HwSame
        /\ UNCHANGED <<hw, plug, worker, app, server, made, due, smooth>>
    BY <1>c DEF IoIs, HwSame, Synced, Drained, Pointed, Inv, PcmTyped, IoTyped
  <1>t. PcmTyped'
    <2>1. UNCHANGED <<Pointers, Frames, B>>
      BY <1>f DEF Pointers, Frames, B
    <2>2. IoTyped'
      BY <1>c, <2>1 DEF Inv, PcmTyped, IoTyped, PlugTyped, Synced, Drained, Pointed, States
    <2>3. HwTyped' /\ WorkerTyped' /\ ServerTyped' /\ AppTyped' /\ PlugTyped' /\ CountsTyped'
      BY <1>f, <2>1 DEF Inv, PcmTyped, HwTyped, WorkerTyped, ServerTyped, AppTyped, PlugTyped,
         CountsTyped
    <2> QED
      BY <2>2, <2>3 DEF PcmTyped
  <1>l. Linked' /\ Parking'
    BY <1>f DEF Inv, IoIs, Linked, Fallen, Parking, Playback
  <1>h. (smooth => Phases)'
    BY <1>f DEF Inv, IoIs, Phases, Live, Playback
  <1>s. Still
    BY <1>f DEF Inv, IoIs, Still, Moving, Live
  <1>b. (smooth => Bounds)'
    BY <1>f, <1>t, <1>l, <1>s, StillBounds
  <1>d. (smooth => Drains)'
    BY <1>f DEF Inv, Drains, Parking, IoIs
  <1>o. Told'
    BY <1>f DEF Inv, Told, Raising, Free, B, WaitsForAll, Playback, IoIs
  <1> QED
    BY <1>t, <1>l, <1>h, <1>b, <1>d, <1>s, <1>o, <1>f, StillPlays, StillRecords DEF Inv

LEMMA FifoAnew ==
  ASSUME NEW b \in Nat \ {0}, NEW X, NEW f \in Seq(X), Len(f) <= 2
  PROVE  LET g == [i \in DOMAIN f |-> Old]
             h == [i \in DOMAIN f |-> i % (2 * b)]
         IN  /\ g \in Seq({Old}) /\ Len(g) = Len(f)
             /\ h \in Seq(Ptrs(b)) /\ Len(h) = Len(f) /\ Coming(b, h, 0)
             /\ Len(f) % (2 * b) = Fwd(b, 0, Len(f)) /\ Fwd(b, 0, Len(f)) \in Ptrs(b)
  <1>1. Len(f) \in 0 .. 2 /\ DOMAIN f = 1 .. Len(f) /\ Len(f) \in Nat
    <2>1. DOMAIN f = 1 .. Len(f) /\ Len(f) \in Nat
      OBVIOUS
    <2> DEFINE n == Len(f)
    <2>2. n \in Nat /\ n <= 2
      BY <2>1
    <2> HIDE DEF n
    <2>3. n \in 0 .. 2
      BY <2>2
    <2> QED
      BY <2>1, <2>3 DEF n
  <1>2. ASSUME NEW n \in 0 .. 2 PROVE n % (2 * b) = Fwd(b, 0, n) /\ Fwd(b, 0, n) \in Ptrs(b)
    <2>1. n \in 0 .. 2 * b /\ 0 \in Ptrs(b)
      BY DEF Ptrs
    <2> QED
      BY <2>1, ModFew, FwdType
  <1> DEFINE g == [i \in DOMAIN f |-> Old]
             h == [i \in DOMAIN f |-> i % (2 * b)]
  <1>3. g \in Seq({Old}) /\ Len(g) = Len(f)
    <2>1. g \in [1 .. Len(f) -> {Old}]
      BY <1>1
    <2> QED
      BY <1>1, <2>1
  <1>4. \A i \in 1 .. Len(f) : h[i] = Fwd(b, 0, i) /\ Fwd(b, 0, i) \in Ptrs(b)
    BY <1>1, <1>2
  <1>5. h \in [1 .. Len(f) -> Ptrs(b)]
    BY <1>1, <1>4
  <1> HIDE DEF h
  <1>6. h \in Seq(Ptrs(b)) /\ Len(h) = Len(f)
    BY <1>1, <1>5
  <1>7. Coming(b, h, 0)
    BY <1>4, <1>6 DEF Coming
  <1> QED
    BY <1>1, <1>2, <1>3, <1>6, <1>7 DEF h

\* A stream that is prepared begins with nothing written or recorded, and with
\* frames in the FIFO that are numbered from the first one on.
LEMMA PreparedIs ==
  ASSUME Inv, NEW p, NEW v, Prepared(p, v), HwSame,
         p.connected, p \in [ptr : Pointers \cup {-1}, pause : SUBSET {"PENDING", "PAUSED"},
                             connected : BOOLEAN, event : SUBSET {"frames", "dead"}, started : BOOLEAN,
                             ring : [0 .. B - 1 -> Frames]],
         v \in [paused : BOOLEAN, gone : BOOLEAN, fifo : Seq(Frames)], Len(v.fifo) <= Fifo
  PROVE  /\ IoTyped' /\ PlugTyped' /\ ServerTyped'
         /\ made' \in Pointers /\ due' \in Pointers
         /\ PlugIs(0, p.pause, TRUE, plug'.event, p.started, [i \in 0 .. B - 1 |-> Old])
         /\ "dead" \in plug'.event => "dead" \in p.event
         /\ plug'.event = {} => ~Playback \/ WaitsForAll
         /\ IoIs("PREPARED", 0) /\ server'.gone = v.gone
         /\ due' = Fwd(B, io'.appl, 1) /\ (Playback => made' = io'.appl)
         /\ Written("PLAYBACK", B, plug'.ring, 0, 0)
         /\ ~Playback => /\ Recorded(hw.stream, B, plug'.ring, 0, 0)
                         /\ Coming(B, server'.fifo, 0) /\ made' = Fwd(B, 0, Len(server'.fifo))
         /\ Fill(hw.stream, B, 0, 0) <= B
  <1>1. B \in Nat \ {0} /\ B = hw.buffer /\ 0 \in Ptrs(B) /\ 0 \in Pointers /\ 1 \in Pointers /\ HwTyped
        /\ hw.min \in Nat
    BY ZeroPointer DEF Inv, PcmTyped, HwTyped, B, Pointers, Ptrs
  <1>2. UNCHANGED <<Pointers, Frames, B, Playback>>
    BY DEF HwSame, Pointers, Frames, B, Playback
  <1>3. 0 \in 0 .. 2 * B /\ Fwd(B, 0, 1) = 1
    BY <1>1 DEF Fwd
  <1>4. /\ io' = [io EXCEPT !.state = "PREPARED", !.appl = 0, !.seen = 0]
        /\ plug' = [p EXCEPT !.ptr = 0,
                       !.event = IF ~Playback THEN {}
                                 ELSE IF hw.min < hw.buffer THEN p.event \cup {"frames"} ELSE p.event,
                       !.ring = [i \in DOMAIN p.ring |-> Old]]
        /\ due' = 1 /\ made' = IF Playback THEN 0 ELSE Len(v.fifo) % (2 * B)
    BY DEF Prepared, Boundary, B
  <1>5. server' = [v EXCEPT !.fifo = [i \in DOMAIN v.fifo |-> IF Playback THEN Old ELSE i % (2 * B)]]
    BY DEF Prepared, Boundary, B
  <1>6. IoTyped' /\ IoIs("PREPARED", 0)
    BY <1>1, <1>2, <1>4 DEF Inv, PcmTyped, IoTyped, IoIs, States
  <1>7. DOMAIN p.ring = 0 .. B - 1 /\ Old \in Frames
    BY DEF Frames
  <1>8. /\ PlugIs(0, p.pause, TRUE, plug'.event, p.started, [i \in 0 .. B - 1 |-> Old])
        /\ plug'.event = (IF ~Playback THEN {} ELSE IF hw.min < hw.buffer THEN p.event \cup {"frames"}
                          ELSE p.event)
    BY <1>4, <1>7 DEF PlugIs
  <1>9. PlugTyped'
    <2>1. [i \in 0 .. B - 1 |-> Old] \in [0 .. B - 1 -> Frames] /\ 0 \in Pointers \cup {-1}
      BY <1>1, <1>7
    <2> QED
      BY <1>2, <1>4, <1>7, <2>1 DEF PlugTyped
  <1>10. /\ "dead" \in plug'.event => "dead" \in p.event
         /\ plug'.event = {} => ~Playback \/ WaitsForAll
    <2>1. "dead" # "frames"
      OBVIOUS
    <2>2. plug'.event = {} => ~Playback \/ ~(hw.min < hw.buffer)
      BY <1>8
    <2> QED
      BY <1>1, <1>8, <2>1, <2>2 DEF WaitsForAll
  <1> DEFINE g == [i \in DOMAIN v.fifo |-> Old]
             h == [i \in DOMAIN v.fifo |-> i % (2 * B)]
  <1>11. v.fifo \in Seq(Frames) /\ Len(v.fifo) <= 2 /\ Len(v.fifo) \in Nat
    <2>1. v.fifo \in Seq(Frames)
      OBVIOUS
    <2> QED
      BY <2>1 DEF Fifo
  <1>12. /\ g \in Seq({Old}) /\ Len(g) = Len(v.fifo)
         /\ h \in Seq(Ptrs(B)) /\ Len(h) = Len(v.fifo) /\ Coming(B, h, 0)
         /\ Len(v.fifo) % (2 * B) = Fwd(B, 0, Len(v.fifo)) /\ Fwd(B, 0, Len(v.fifo)) \in Ptrs(B)
    BY <1>1, <1>11, FifoAnew
  <1>13. server'.gone = v.gone /\ server'.fifo = IF Playback THEN g ELSE h
    BY <1>5
  <1> HIDE DEF g, h
  <1>14. server'.fifo \in Seq(Frames) /\ Len(server'.fifo) = Len(v.fifo)
    <2>1. g \in Seq(Frames)
      BY <1>12 DEF Frames
    <2>2. h \in Seq(Frames)
      BY <1>12 DEF Frames, Pointers
    <2> QED
      BY <1>12, <1>13, <2>1, <2>2
  <1>15. ServerTyped'
    <2>1. server' \in [paused : BOOLEAN, gone : BOOLEAN, fifo : Seq(Frames)]
      <3>1. server' = [v EXCEPT !.fifo = server'.fifo]
        BY <1>5
      <3> QED
        BY <1>14, <3>1
    <2> QED
      BY <1>2, <1>14, <2>1 DEF ServerTyped
  <1>16. /\ made' \in Pointers /\ due' \in Pointers
         /\ due' = Fwd(B, io'.appl, 1) /\ (Playback => made' = io'.appl)
         /\ ~Playback => made' = Fwd(B, 0, Len(server'.fifo))
    BY <1>1, <1>3, <1>4, <1>6, <1>12, <1>14 DEF IoIs, Pointers
  <1>17. ~Playback => Coming(B, server'.fifo, 0)
    BY <1>12, <1>13
  <1>18. /\ Written("PLAYBACK", B, plug'.ring, 0, 0)
         /\ ~Playback => Recorded(hw.stream, B, plug'.ring, 0, 0)
         /\ Fill(hw.stream, B, 0, 0) <= B
    <2>1. /\ Fill("PLAYBACK", B, 0, 0) >= B /\ (~Playback => Fill(hw.stream, B, 0, 0) = 0)
          /\ Fill(hw.stream, B, 0, 0) <= B
      BY <1>1, FillHere DEF Playback
    <2> QED
      BY <1>1, <2>1, WrittenEmpty, RecordedNone
  <1> QED
    BY <1>6, <1>8, <1>9, <1>10, <1>13, <1>15, <1>16, <1>17, <1>18

\* The thread does not move frames while a stream is prepared.
LEMMA PreparedKeeps ==
  ASSUME Inv, NEW p, NEW v, Prepared(p, v), HwTyped', HwSame, UNCHANGED <<worker, app, smooth>>,
         p = [plug EXCEPT !.connected = TRUE], v.gone = server.gone, v.fifo = server.fifo,
         v \in [paused : BOOLEAN, gone : BOOLEAN, fifo : Seq(Frames)],
         app.pc = "free", io.state \in {"OPEN", "SETUP", "XRUN"},
         plug.connected \/ ~server.gone
  PROVE  Inv'
  <1>1. p \in [ptr : Pointers \cup {-1}, pause : SUBSET {"PENDING", "PAUSED"}, connected : BOOLEAN,
               event : SUBSET {"frames", "dead"}, started : BOOLEAN, ring : [0 .. B - 1 -> Frames]]
        /\ p.connected /\ p.pause = plug.pause /\ p.started = plug.started /\ p.event = plug.event
    BY DEF Inv, PcmTyped, PlugTyped
  <1>2. Len(v.fifo) <= Fifo
    BY DEF Inv, PcmTyped, ServerTyped
  <1>3. /\ IoTyped' /\ PlugTyped' /\ ServerTyped' /\ made' \in Pointers /\ due' \in Pointers
        /\ PlugIs(0, plug.pause, TRUE, plug'.event, plug.started, [i \in 0 .. B - 1 |-> Old])
        /\ "dead" \in plug'.event => "dead" \in plug.event
        /\ plug'.event = {} => ~Playback \/ WaitsForAll
        /\ IoIs("PREPARED", 0) /\ server'.gone = server.gone
        /\ due' = Fwd(B, io'.appl, 1) /\ (Playback => made' = io'.appl)
        /\ Written("PLAYBACK", B, plug'.ring, 0, 0)
        /\ ~Playback => /\ Recorded(hw.stream, B, plug'.ring, 0, 0)
                        /\ Coming(B, server'.fifo, 0) /\ made' = Fwd(B, 0, Len(server'.fifo))
        /\ Fill(hw.stream, B, 0, 0) <= B
    BY <1>1, <1>2, PreparedIs
  <1>g. UNCHANGED <<Pointers, Frames, B, Playback, WaitsForAll>>
    BY DEF HwSame, Pointers, Frames, B, Playback, WaitsForAll
  <1>f. /\ plug'.ptr = 0 /\ plug'.pause = plug.pause /\ plug'.connected /\ plug'.started = plug.started
        /\ io'.state = "PREPARED" /\ io'.appl = 0 /\ server'.gone = server.gone
        /\ UNCHANGED <<worker, app, smooth>> /\ app.pc = "free"
        /\ io.state \in {"OPEN", "SETUP", "XRUN"} /\ (plug.connected \/ ~server.gone)
    BY <1>3 DEF PlugIs, IoIs
  <1>t. PcmTyped'
    <2>1. WorkerTyped' /\ AppTyped'
      BY <1>f, <1>g DEF Inv, PcmTyped, WorkerTyped, AppTyped
    <2>2. CountsTyped'
      BY <1>3, <1>f, <1>g DEF Inv, PcmTyped, CountsTyped
    <2> QED
      BY <1>3, <2>1, <2>2 DEF PcmTyped
  <1>l. Linked' /\ Parking'
    <2>1. Linked'
      BY <1>3, <1>f DEF Inv, Linked, Fallen
    <2> QED
      BY <2>1, <1>f DEF Parking, Playback
  <1>w. smooth => /\ worker.pc \in {"none", "empty", "check", "pausing", "sigwait"}
                  /\ (worker.pc # "none" <=> worker.ptr = -1)
    BY <1>f DEF Inv, Linked, Phases
  <1>h. (smooth => Phases)'
    BY <1>f, <1>w DEF Phases, Live, Playback
  <1>e. smooth => Pos' = 0
    BY <1>f, <1>w DEF Pos
  <1>b. (smooth => Bounds)'
    <2>1. Free(plug.ptr)' <= B
      BY <1>3, <1>f, <1>g DEF Free, HwSame
    <2> QED
      BY <1>f, <1>g, <1>w, <2>1 DEF Bounds
  <1>d. (smooth => Drains)'
    BY <1>f DEF Drains
  <1>o. Told'
    <2>1. plug'.ptr # -1
      BY <1>f
    <2> QED
      BY <1>3, <1>f, <1>g, <2>1 DEF Told
  <1>y. Plays' /\ Records'
    <2>1. Plays'
      BY <1>3, <1>f, <1>g, <1>e DEF Plays, Playback, HwSame
    <2>2. Records'
      BY <1>3, <1>f, <1>g, <1>e DEF Records, HwSame
    <2> QED
      BY <2>1, <2>2
  <1> QED
    BY <1>t, <1>l, <1>h, <1>b, <1>d, <1>o, <1>y DEF Inv

LEMMA HwParamsKeeps ==
  ASSUME Inv, HwParams
  PROVE  Inv'
  <1> DEFINE v == [server EXCEPT !.paused = FALSE]
  <1>1. /\ Prepared([plug EXCEPT !.connected = TRUE], v) /\ app.pc = "free" /\ io.state = "OPEN"
        /\ ~server.gone /\ UNCHANGED <<hw, worker, app, smooth>>
    BY DEF HwParams, Idle
  <1>2. /\ v \in [paused : BOOLEAN, gone : BOOLEAN, fifo : Seq(Frames)]
        /\ v.gone = server.gone /\ v.fifo = server.fifo
    BY DEF Inv, PcmTyped, ServerTyped
  <1>3. HwTyped' /\ HwSame
    BY <1>1 DEF Inv, PcmTyped, HwTyped, HwSame
  <1> QED
    BY <1>1, <1>2, <1>3, PreparedKeeps

LEMMA PrepareKeeps ==
  ASSUME Inv, Prepare, plug.connected
  PROVE  Inv'
  <1> DEFINE p == [plug EXCEPT !.connected = TRUE]
  <1>1. /\ Prepared(plug, server) /\ app.pc = "free" /\ io.state \in {"SETUP", "XRUN"}
        /\ UNCHANGED <<worker, app,
                 smooth>> /\ hw' = [hw EXCEPT !.commands = @ - 1] /\ hw.commands > 0
    BY DEF Prepare, Command, Idle
  <1>2. /\ server \in [paused : BOOLEAN, gone : BOOLEAN, fifo : Seq(Frames)]
        /\ plug = p
    BY DEF Inv, PcmTyped, ServerTyped, PlugTyped
  <1>3. HwTyped' /\ HwSame
    BY <1>1 DEF Inv, PcmTyped, HwTyped, HwSame
  <1>4. Prepared(p, server)
    BY <1>1, <1>2
  <1>5. p = [plug EXCEPT !.connected = TRUE]
    OBVIOUS
  <1> HIDE DEF p
  <1>6. io.state \in {"OPEN", "SETUP", "XRUN"} /\ (plug.connected \/ ~server.gone)
    BY <1>1
  <1> QED
    BY <1>1, <1>2, <1>3, <1>4, <1>5, <1>6, PreparedKeeps, Zenon

----------------------------------------------------------------------------
(* Steps that move no frame *)

LEMMA WorkerCheckKeeps ==
  ASSUME Inv, WorkerCheck
  PROVE  Inv'
  <1>f.
      /\ worker.pc = "check"
      /\ WorkerIs((IF "PENDING" \in plug.pause \/ plug.ptr = -1 THEN "pausing" ELSE "avail"), worker.ptr, worker.off, worker.left, worker.room, worker.sig)
      /\ UNCHANGED <<hw, io, plug, app, server, made, due, smooth>>
    BY DEF Inv, PcmTyped, HwTyped, IoTyped, PlugTyped, WorkerTyped, AppTyped, ServerTyped,
       CountsTyped, WorkerCheck, WorkerAt, WorkerTo, HwSame, WorkerIs, PlugIs, IoIs, AppIs,
       ServerIs
  <1>t. PcmTyped'
    <2>1. HwTyped' /\ hw'.buffer = hw.buffer
      BY DEF Inv, PcmTyped, HwTyped, WorkerCheck, WorkerAt, WorkerTo
    <2>2. Pointers' = Pointers /\ Frames' = Frames /\ B' = B
      BY <2>1 DEF Pointers, Frames, B
    <2>3. IoTyped'
      BY <1>f, <2>2, ZeroPointer DEF Inv, PcmTyped, IoTyped, PlugTyped, States, WorkerCheck,
         WorkerAt, WorkerTo
    <2>4. PlugTyped'
      BY <1>f, <2>2, ZeroPointer DEF Inv, PcmTyped, PlugTyped, WorkerTyped, WorkerCheck,
         WorkerAt, WorkerTo
    <2>5. WorkerTyped'
      BY <1>f, <2>2, ZeroPointer DEF Inv, PcmTyped, WorkerTyped, PlugTyped, Labels,
         WorkerCheck, WorkerAt, WorkerTo
    <2>6. AppTyped' /\ CountsTyped'
      BY <1>f, <2>2 DEF Inv, PcmTyped, AppTyped, CountsTyped, Calling, WorkerCheck, WorkerAt,
         WorkerTo
    <2>7. ServerTyped'
      BY <1>f, <2>2, FifoTypes DEF Inv, PcmTyped, ServerTyped, Fifo, WorkerCheck, WorkerAt,
         WorkerTo
    <2> QED
      BY <2>1, <2>3, <2>4, <2>5, <2>6, <2>7 DEF PcmTyped
  <1>l. Linked'
    BY <1>f DEF Inv, HwSame, WorkerIs, PlugIs, IoIs, AppIs, ServerIs, Linked, Fallen, Parking
  <1>p. Parking'
    BY <1>f DEF Inv, HwSame, WorkerIs, PlugIs, IoIs, AppIs, ServerIs, Linked, Parking, Fallen,
       Playback, MayPause
  <1>h. (smooth => Phases)'
    BY <1>f DEF Inv, HwSame, WorkerIs, PlugIs, IoIs, AppIs, ServerIs, Linked, Parking, Phases,
       Live, Playback
  <1>d. (smooth => Drains)'
    BY <1>f, <1>t DEF Inv, HwSame, WorkerIs, PlugIs, IoIs, AppIs, ServerIs, Linked, Drains,
       Live, Free, B, Playback, PcmTyped, Pointers
  <1>o. Told'
    BY <1>f, <1>t DEF Inv, HwSame, WorkerIs, PlugIs, IoIs, AppIs, ServerIs, Parking, Told,
       Raising, Free, B, WaitsForAll, Playback, PcmTyped, Pointers
  <1>s. Still
    BY <1>f DEF Inv, HwSame, WorkerIs, PlugIs, IoIs, AppIs, ServerIs, Still, Moving, Live,
       Linked, Parking
  <1>b. (smooth => Bounds)'
    BY <1>f, <1>t, <1>p, <1>s, StillBounds DEF AppIs
  <1> QED
    BY <1>t, <1>l, <1>p, <1>h, <1>b, <1>d, <1>s, <1>o, StillPlays, StillRecords DEF Inv

LEMMA WorkerPausesKeeps ==
  ASSUME Inv, WorkerPauses
  PROVE  Inv'
  <1>f.
      /\ worker.pc = "pausing"
      /\ WorkerIs("sigwait", worker.ptr, worker.off, worker.left, worker.room, worker.sig)
      /\ PlugIs(plug.ptr, {"PAUSED"}, plug.connected, plug.event, plug.started, plug.ring)
      /\ AppIs(app.pc, (app.pc = "waiting"))
      /\ UNCHANGED <<hw, io, server, made, due, smooth>>
    BY DEF Inv, PcmTyped, HwTyped, IoTyped, PlugTyped, WorkerTyped, AppTyped, ServerTyped,
       CountsTyped, WorkerPauses, WorkerAt, WorkerTo, HwSame, WorkerIs, PlugIs, IoIs, AppIs,
       ServerIs
  <1>t. PcmTyped'
    <2>1. HwTyped' /\ hw'.buffer = hw.buffer
      BY DEF Inv, PcmTyped, HwTyped, WorkerPauses, WorkerAt, WorkerTo
    <2>2. Pointers' = Pointers /\ Frames' = Frames /\ B' = B
      BY <2>1 DEF Pointers, Frames, B
    <2>3. IoTyped'
      BY <1>f, <2>2, ZeroPointer DEF Inv, PcmTyped, IoTyped, PlugTyped, States, WorkerPauses,
         WorkerAt, WorkerTo
    <2>4. PlugTyped'
      BY <1>f, <2>2, ZeroPointer DEF Inv, PcmTyped, PlugTyped, WorkerTyped, WorkerPauses,
         WorkerAt, WorkerTo
    <2>5. WorkerTyped'
      BY <1>f, <2>2, ZeroPointer DEF Inv, PcmTyped, WorkerTyped, PlugTyped, Labels,
         WorkerPauses, WorkerAt, WorkerTo
    <2>6. AppTyped' /\ CountsTyped'
      BY <1>f, <2>2 DEF Inv, PcmTyped, AppTyped, CountsTyped, Calling, WorkerPauses, WorkerAt,
         WorkerTo
    <2>7. ServerTyped'
      BY <1>f, <2>2, FifoTypes DEF Inv, PcmTyped, ServerTyped, Fifo, WorkerPauses, WorkerAt,
         WorkerTo
    <2> QED
      BY <2>1, <2>3, <2>4, <2>5, <2>6, <2>7 DEF PcmTyped
  <1>l. Linked'
    BY <1>f DEF Inv, HwSame, WorkerIs, PlugIs, IoIs, AppIs, ServerIs, Linked, Fallen, Parking
  <1>p. Parking'
    BY <1>f DEF Inv, HwSame, WorkerIs, PlugIs, IoIs, AppIs, ServerIs, Linked, Parking, Fallen,
       Playback, MayPause
  <1>h. (smooth => Phases)'
    BY <1>f DEF Inv, HwSame, WorkerIs, PlugIs, IoIs, AppIs, ServerIs, Linked, Parking, Phases,
       Live, Playback
  <1>d. (smooth => Drains)'
    BY <1>f, <1>t DEF Inv, HwSame, WorkerIs, PlugIs, IoIs, AppIs, ServerIs, Linked, Drains,
       Live, Free, B, Playback, PcmTyped, Pointers
  <1>o. Told'
    BY <1>f, <1>t DEF Inv, HwSame, WorkerIs, PlugIs, IoIs, AppIs, ServerIs, Parking, Told,
       Raising, Free, B, WaitsForAll, Playback, PcmTyped, Pointers
  <1>s. Still
    BY <1>f DEF Inv, HwSame, WorkerIs, PlugIs, IoIs, AppIs, ServerIs, Still, Moving, Live,
       Linked, Parking
  <1>b. (smooth => Bounds)'
    BY <1>f, <1>t, <1>p, <1>s, StillBounds DEF AppIs
  <1> QED
    BY <1>t, <1>l, <1>p, <1>h, <1>b, <1>d, <1>s, <1>o, StillPlays, StillRecords DEF Inv

LEMMA WorkerResumesKeeps ==
  ASSUME Inv, WorkerResumes
  PROVE  Inv'
  <1>f.
      /\ worker.pc = "sigwait" /\ worker.sig
      /\ WorkerIs((IF plug.ptr = -1 THEN "check" ELSE "avail"), (IF plug.ptr = -1 THEN worker.ptr ELSE plug.ptr), worker.off, worker.left, worker.room, FALSE)
      /\ PlugIs(plug.ptr, {}, plug.connected, plug.event, plug.started, plug.ring)
      /\ UNCHANGED <<hw, io, app, server, made, due, smooth>>
    BY DEF Inv, PcmTyped, HwTyped, IoTyped, PlugTyped, WorkerTyped, AppTyped, ServerTyped,
       CountsTyped, WorkerResumes, WorkerAt, HwSame, WorkerIs, PlugIs, IoIs, AppIs, ServerIs
  <1>t. PcmTyped'
    <2>1. HwTyped' /\ hw'.buffer = hw.buffer
      BY DEF Inv, PcmTyped, HwTyped, WorkerResumes, WorkerAt
    <2>2. Pointers' = Pointers /\ Frames' = Frames /\ B' = B
      BY <2>1 DEF Pointers, Frames, B
    <2>3. IoTyped'
      BY <1>f, <2>2, ZeroPointer DEF Inv, PcmTyped, IoTyped, PlugTyped, States, WorkerResumes,
         WorkerAt
    <2>4. PlugTyped'
      BY <1>f, <2>2, ZeroPointer DEF Inv, PcmTyped, PlugTyped, WorkerTyped, WorkerResumes,
         WorkerAt
    <2>5. WorkerTyped'
      BY <1>f, <2>2, ZeroPointer DEF Inv, PcmTyped, WorkerTyped, PlugTyped, Labels,
         WorkerResumes, WorkerAt
    <2>6. AppTyped' /\ CountsTyped'
      BY <1>f, <2>2 DEF Inv, PcmTyped, AppTyped, CountsTyped, Calling, WorkerResumes, WorkerAt
    <2>7. ServerTyped'
      BY <1>f, <2>2, FifoTypes DEF Inv, PcmTyped, ServerTyped, Fifo, WorkerResumes, WorkerAt
    <2> QED
      BY <2>1, <2>3, <2>4, <2>5, <2>6, <2>7 DEF PcmTyped
  <1>l. Linked'
    BY <1>f DEF Inv, HwSame, WorkerIs, PlugIs, IoIs, AppIs, ServerIs, Linked, Fallen, Parking
  <1>p. Parking'
    BY <1>f DEF Inv, HwSame, WorkerIs, PlugIs, IoIs, AppIs, ServerIs, Linked, Parking, Fallen,
       Playback, MayPause
  <1>h. (smooth => Phases)'
    BY <1>f DEF Inv, HwSame, WorkerIs, PlugIs, IoIs, AppIs, ServerIs, Linked, Parking, Phases,
       Live, Playback
  <1>d. (smooth => Drains)'
    BY <1>f, <1>t DEF Inv, HwSame, WorkerIs, PlugIs, IoIs, AppIs, ServerIs, Linked, Drains,
       Live, Free, B, Playback, PcmTyped, Pointers
  <1>o. Told'
    BY <1>f, <1>t DEF Inv, HwSame, WorkerIs, PlugIs, IoIs, AppIs, ServerIs, Parking, Told,
       Raising, Free, B, WaitsForAll, Playback, PcmTyped, Pointers
  <1>s. Still
    BY <1>f DEF Inv, HwSame, WorkerIs, PlugIs, IoIs, AppIs, ServerIs, Still, Moving, Live,
       Linked, Parking
  <1>b. (smooth => Bounds)'
    BY <1>f, <1>t, <1>p, <1>s, StillBounds DEF AppIs
  <1> QED
    BY <1>t, <1>l, <1>p, <1>h, <1>b, <1>d, <1>s, <1>o, StillPlays, StillRecords DEF Inv

LEMMA WorkerEmptyKeeps ==
  ASSUME Inv, WorkerEmpty
  PROVE  Inv'
  <1>f.
      /\ worker.pc = "empty"
      /\ WorkerIs("check", worker.ptr, worker.off, worker.left, worker.room, worker.sig)
      /\ PlugIs(plug.ptr, plug.pause, plug.connected, plug.event \cup {"frames"}, plug.started, plug.ring)
      /\ UNCHANGED <<hw, io, app, server, made, due, smooth>>
    BY DEF Inv, PcmTyped, HwTyped, IoTyped, PlugTyped, WorkerTyped, AppTyped, ServerTyped,
       CountsTyped, WorkerEmpty, WorkerAt, WorkerTo, HwSame, WorkerIs, PlugIs, IoIs, AppIs,
       ServerIs
  <1>t. PcmTyped'
    <2>1. HwTyped' /\ hw'.buffer = hw.buffer
      BY DEF Inv, PcmTyped, HwTyped, WorkerEmpty, WorkerAt, WorkerTo
    <2>2. Pointers' = Pointers /\ Frames' = Frames /\ B' = B
      BY <2>1 DEF Pointers, Frames, B
    <2>3. IoTyped'
      BY <1>f, <2>2, ZeroPointer DEF Inv, PcmTyped, IoTyped, PlugTyped, States, WorkerEmpty,
         WorkerAt, WorkerTo
    <2>4. PlugTyped'
      BY <1>f, <2>2, ZeroPointer DEF Inv, PcmTyped, PlugTyped, WorkerTyped, WorkerEmpty,
         WorkerAt, WorkerTo
    <2>5. WorkerTyped'
      BY <1>f, <2>2, ZeroPointer DEF Inv, PcmTyped, WorkerTyped, PlugTyped, Labels,
         WorkerEmpty, WorkerAt, WorkerTo
    <2>6. AppTyped' /\ CountsTyped'
      BY <1>f, <2>2 DEF Inv, PcmTyped, AppTyped, CountsTyped, Calling, WorkerEmpty, WorkerAt,
         WorkerTo
    <2>7. ServerTyped'
      BY <1>f, <2>2, FifoTypes DEF Inv, PcmTyped, ServerTyped, Fifo, WorkerEmpty, WorkerAt,
         WorkerTo
    <2> QED
      BY <2>1, <2>3, <2>4, <2>5, <2>6, <2>7 DEF PcmTyped
  <1>l. Linked'
    BY <1>f DEF Inv, HwSame, WorkerIs, PlugIs, IoIs, AppIs, ServerIs, Linked, Fallen, Parking
  <1>p. Parking'
    BY <1>f DEF Inv, HwSame, WorkerIs, PlugIs, IoIs, AppIs, ServerIs, Linked, Parking, Fallen,
       Playback, MayPause
  <1>h. (smooth => Phases)'
    BY <1>f DEF Inv, HwSame, WorkerIs, PlugIs, IoIs, AppIs, ServerIs, Linked, Parking, Phases,
       Live, Playback
  <1>d. (smooth => Drains)'
    BY <1>f, <1>t DEF Inv, HwSame, WorkerIs, PlugIs, IoIs, AppIs, ServerIs, Linked, Drains,
       Live, Free, B, Playback, PcmTyped, Pointers
  <1>o. Told'
    BY <1>f, <1>t DEF Inv, HwSame, WorkerIs, PlugIs, IoIs, AppIs, ServerIs, Parking, Told,
       Raising, Free, B, WaitsForAll, Playback, PcmTyped, Pointers
  <1>s. Still
    BY <1>f DEF Inv, HwSame, WorkerIs, PlugIs, IoIs, AppIs, ServerIs, Still, Moving, Live,
       Linked, Parking
  <1>b. (smooth => Bounds)'
    BY <1>f, <1>t, <1>p, <1>s, StillBounds DEF AppIs
  <1> QED
    BY <1>t, <1>l, <1>p, <1>h, <1>b, <1>d, <1>s, <1>o, StillPlays, StillRecords DEF Inv

LEMMA WorkerFailedKeeps ==
  ASSUME Inv, WorkerFailed
  PROVE  Inv'
  <1>f.
      /\ worker.pc = "fail"
      /\ WorkerIs("dead", worker.ptr, worker.off, worker.left, worker.room, worker.sig)
      /\ PlugIs(plug.ptr, {"PAUSED"}, plug.connected, plug.event \cup {"dead"}, plug.started, plug.ring)
      /\ AppIs(app.pc, (app.pc = "waiting"))
      /\ UNCHANGED <<hw, io, server, made, due, smooth>>
    BY DEF Inv, PcmTyped, HwTyped, IoTyped, PlugTyped, WorkerTyped, AppTyped, ServerTyped,
       CountsTyped, WorkerFailed, WorkerAt, WorkerTo, HwSame, WorkerIs, PlugIs, IoIs, AppIs,
       ServerIs
  <1>t. PcmTyped'
    <2>1. HwTyped' /\ hw'.buffer = hw.buffer
      BY DEF Inv, PcmTyped, HwTyped, WorkerFailed, WorkerAt, WorkerTo
    <2>2. Pointers' = Pointers /\ Frames' = Frames /\ B' = B
      BY <2>1 DEF Pointers, Frames, B
    <2>3. IoTyped'
      BY <1>f, <2>2, ZeroPointer DEF Inv, PcmTyped, IoTyped, PlugTyped, States, WorkerFailed,
         WorkerAt, WorkerTo
    <2>4. PlugTyped'
      BY <1>f, <2>2, ZeroPointer DEF Inv, PcmTyped, PlugTyped, WorkerTyped, WorkerFailed,
         WorkerAt, WorkerTo
    <2>5. WorkerTyped'
      BY <1>f, <2>2, ZeroPointer DEF Inv, PcmTyped, WorkerTyped, PlugTyped, Labels,
         WorkerFailed, WorkerAt, WorkerTo
    <2>6. AppTyped' /\ CountsTyped'
      BY <1>f, <2>2 DEF Inv, PcmTyped, AppTyped, CountsTyped, Calling, WorkerFailed, WorkerAt,
         WorkerTo
    <2>7. ServerTyped'
      BY <1>f, <2>2, FifoTypes DEF Inv, PcmTyped, ServerTyped, Fifo, WorkerFailed, WorkerAt,
         WorkerTo
    <2> QED
      BY <2>1, <2>3, <2>4, <2>5, <2>6, <2>7 DEF PcmTyped
  <1>l. Linked'
    BY <1>f DEF Inv, HwSame, WorkerIs, PlugIs, IoIs, AppIs, ServerIs, Linked, Fallen, Parking
  <1>p. Parking'
    BY <1>f DEF Inv, HwSame, WorkerIs, PlugIs, IoIs, AppIs, ServerIs, Linked, Parking, Fallen,
       Playback, MayPause
  <1>h. (smooth => Phases)'
    BY <1>f DEF Inv, HwSame, WorkerIs, PlugIs, IoIs, AppIs, ServerIs, Linked, Parking, Phases,
       Live, Playback
  <1>d. (smooth => Drains)'
    BY <1>f, <1>t DEF Inv, HwSame, WorkerIs, PlugIs, IoIs, AppIs, ServerIs, Linked, Drains,
       Live, Free, B, Playback, PcmTyped, Pointers
  <1>o. Told'
    BY <1>f, <1>t DEF Inv, HwSame, WorkerIs, PlugIs, IoIs, AppIs, ServerIs, Parking, Told,
       Raising, Free, B, WaitsForAll, Playback, PcmTyped, Pointers
  <1>s. Still
    BY <1>f DEF Inv, HwSame, WorkerIs, PlugIs, IoIs, AppIs, ServerIs, Still, Moving, Live,
       Linked, Parking
  <1>b. (smooth => Bounds)'
    BY <1>f, <1>t, <1>p, <1>s, StillBounds DEF AppIs
  <1> QED
    BY <1>t, <1>l, <1>p, <1>h, <1>b, <1>d, <1>s, <1>o, StillPlays, StillRecords DEF Inv

LEMMA WorkerNotifiesKeeps ==
  ASSUME Inv, WorkerNotifies
  PROVE  Inv'
  <1>f.
      /\ worker.pc = "notify"
      /\ WorkerIs("check", worker.ptr, worker.off, worker.left, worker.room, worker.sig)
      /\ PlugIs(plug.ptr, plug.pause, plug.connected, (IF worker.room >= hw.min THEN plug.event \cup {"frames"} ELSE plug.event), plug.started, plug.ring)
      /\ UNCHANGED <<hw, io, app, server, made, due, smooth>>
    BY DEF Inv, PcmTyped, HwTyped, IoTyped, PlugTyped, WorkerTyped, AppTyped, ServerTyped,
       CountsTyped, WorkerNotifies, WorkerAt, WorkerTo, HwSame, WorkerIs, PlugIs, IoIs, AppIs,
       ServerIs
  <1>t. PcmTyped'
    <2>1. HwTyped' /\ hw'.buffer = hw.buffer
      BY DEF Inv, PcmTyped, HwTyped, WorkerNotifies, WorkerAt, WorkerTo
    <2>2. Pointers' = Pointers /\ Frames' = Frames /\ B' = B
      BY <2>1 DEF Pointers, Frames, B
    <2>3. IoTyped'
      BY <1>f, <2>2, ZeroPointer DEF Inv, PcmTyped, IoTyped, PlugTyped, States, WorkerNotifies,
         WorkerAt, WorkerTo
    <2>4. PlugTyped'
      BY <1>f, <2>2, ZeroPointer DEF Inv, PcmTyped, PlugTyped, WorkerTyped, WorkerNotifies,
         WorkerAt, WorkerTo
    <2>5. WorkerTyped'
      BY <1>f, <2>2, ZeroPointer DEF Inv, PcmTyped, WorkerTyped, PlugTyped, Labels,
         WorkerNotifies, WorkerAt, WorkerTo
    <2>6. AppTyped' /\ CountsTyped'
      BY <1>f, <2>2 DEF Inv, PcmTyped, AppTyped, CountsTyped, Calling, WorkerNotifies,
         WorkerAt, WorkerTo
    <2>7. ServerTyped'
      BY <1>f, <2>2, FifoTypes DEF Inv, PcmTyped, ServerTyped, Fifo, WorkerNotifies, WorkerAt,
         WorkerTo
    <2> QED
      BY <2>1, <2>3, <2>4, <2>5, <2>6, <2>7 DEF PcmTyped
  <1>l. Linked'
    BY <1>f DEF Inv, HwSame, WorkerIs, PlugIs, IoIs, AppIs, ServerIs, Linked, Fallen, Parking
  <1>p. Parking'
    BY <1>f DEF Inv, HwSame, WorkerIs, PlugIs, IoIs, AppIs, ServerIs, Linked, Parking, Fallen,
       Playback, MayPause
  <1>h. (smooth => Phases)'
    BY <1>f DEF Inv, HwSame, WorkerIs, PlugIs, IoIs, AppIs, ServerIs, Linked, Parking, Phases,
       Live, Playback
  <1>d. (smooth => Drains)'
    BY <1>f, <1>t DEF Inv, HwSame, WorkerIs, PlugIs, IoIs, AppIs, ServerIs, Linked, Drains,
       Live, Free, B, Playback, PcmTyped, Pointers
  <1>o. Told'
    <2>1. worker.pc = "notify" /\ smooth => worker.ptr = plug.ptr /\ plug.ptr # -1 /\ io.state # "XRUN"
                                               /\ Free(plug.ptr) <= worker.room
      BY DEF Inv, Phases, Bounds, Linked
    <2>2. /\ Free(plug.ptr)' = Free(plug.ptr) /\ plug'.ptr = plug.ptr
          /\ io'.state = io.state /\ smooth' = smooth
          /\ hw'.min = hw.min /\ hw'.buffer = hw.buffer /\ Playback' = Playback
      BY <1>f DEF Free, HwSame, WorkerIs, PlugIs, IoIs, AppIs, ServerIs, Playback, B
    <2>3. smooth => Free(plug.ptr) \in Int
      BY <2>1, <1>f, FreeIs DEF Inv, PcmTyped, PlugTyped
    <2>4. worker.room \in Int /\ hw.min \in Int /\ hw.buffer \in Int
      BY DEF Inv, PcmTyped, WorkerTyped, HwTyped
    <2>5. plug'.event = {} => plug.event = {} /\ worker.room < hw.min
      BY <1>f, <2>4 DEF PlugIs
    <2> QED
      BY <1>f, <2>1, <2>2, <2>3, <2>4, <2>5 DEF Inv, Told, WaitsForAll, B, WorkerIs

  <1>s. Still
    BY <1>f DEF Inv, HwSame, WorkerIs, PlugIs, IoIs, AppIs, ServerIs, Still, Moving, Live,
       Linked, Parking
  <1>b. (smooth => Bounds)'
    BY <1>f, <1>t, <1>p, <1>s, StillBounds DEF AppIs
  <1> QED
    BY <1>t, <1>l, <1>p, <1>h, <1>b, <1>d, <1>s, <1>o, StillPlays, StillRecords DEF Inv

LEMMA PauseWakesKeeps ==
  ASSUME Inv, PauseWakes
  PROVE  Inv'
  <1>f.
      /\ app.pc = "waiting" /\ app.woken
      /\ AppIs((IF MayPause THEN "parked" ELSE "waiting"), (MayPause /\ ~worker.sig))
      /\ UNCHANGED <<hw, io, plug, worker, server, made, due, smooth>>
    BY DEF Inv, PcmTyped, HwTyped, IoTyped, PlugTyped, WorkerTyped, AppTyped, ServerTyped,
       CountsTyped, PauseWakes, MayPause, HwSame, WorkerIs, PlugIs, IoIs, AppIs, ServerIs
  <1>t. PcmTyped'
    <2>1. HwTyped' /\ hw'.buffer = hw.buffer
      BY DEF Inv, PcmTyped, HwTyped, PauseWakes, MayPause
    <2>2. Pointers' = Pointers /\ Frames' = Frames /\ B' = B
      BY <2>1 DEF Pointers, Frames, B
    <2>3. IoTyped'
      BY <1>f, <2>2, ZeroPointer DEF Inv, PcmTyped, IoTyped, PlugTyped, States, PauseWakes,
         MayPause
    <2>4. PlugTyped'
      BY <1>f, <2>2, ZeroPointer DEF Inv, PcmTyped, PlugTyped, WorkerTyped, PauseWakes, MayPause
    <2>5. WorkerTyped'
      BY <1>f, <2>2, ZeroPointer DEF Inv, PcmTyped, WorkerTyped, PlugTyped, Labels, PauseWakes,
         MayPause
    <2>6. AppTyped' /\ CountsTyped'
      BY <1>f, <2>2 DEF Inv, PcmTyped, AppTyped, CountsTyped, Calling, PauseWakes, MayPause
    <2>7. ServerTyped'
      BY <1>f, <2>2, FifoTypes DEF Inv, PcmTyped, ServerTyped, Fifo, PauseWakes, MayPause
    <2> QED
      BY <2>1, <2>3, <2>4, <2>5, <2>6, <2>7 DEF PcmTyped
  <1>l. Linked'
    BY <1>f DEF Inv, HwSame, WorkerIs, PlugIs, IoIs, AppIs, ServerIs, Linked, Fallen, Parking
  <1>p. Parking'
    BY <1>f DEF Inv, HwSame, WorkerIs, PlugIs, IoIs, AppIs, ServerIs, Linked, Parking, Fallen,
       Playback, MayPause
  <1>h. (smooth => Phases)'
    BY <1>f DEF Inv, HwSame, WorkerIs, PlugIs, IoIs, AppIs, ServerIs, Linked, Parking, Phases,
       Live, Playback
  <1>d. (smooth => Drains)'
    BY <1>f, <1>t DEF Inv, HwSame, WorkerIs, PlugIs, IoIs, AppIs, ServerIs, Linked, Drains,
       Live, Free, B, Playback, PcmTyped, Pointers
  <1>o. Told'
    BY <1>f, <1>t DEF Inv, HwSame, WorkerIs, PlugIs, IoIs, AppIs, ServerIs, Parking, Told,
       Raising, Free, B, WaitsForAll, Playback, PcmTyped, Pointers
  <1>s. Still
    BY <1>f DEF Inv, HwSame, WorkerIs, PlugIs, IoIs, AppIs, ServerIs, Still, Moving, Live,
       Linked, Parking
  <1>b. (smooth => Bounds)'
    BY <1>f, <1>t, <1>p, <1>s, StillBounds DEF AppIs
  <1> QED
    BY <1>t, <1>l, <1>p, <1>h, <1>b, <1>d, <1>s, <1>o, StillPlays, StillRecords DEF Inv

LEMMA PauseSent1Keeps ==
  ASSUME Inv, PauseSent, plug.connected /\ ~server.gone
  PROVE  Inv'
  <1>c.
      /\ app.pc = "parked" /\ app' = [pc |-> "free", woken |-> FALSE]
      /\ server' = [server EXCEPT !.paused = TRUE]
      /\ io' = [io EXCEPT !.state = "PAUSED"]
      /\ plug' = [plug EXCEPT !.event = @ \cup {"frames"}]
      /\ smooth' = (smooth /\ plug.ptr # -1)
      /\ UNCHANGED <<hw, worker, made, due>>
    BY DEF PauseSent, Started, CanStart
  <1>f.
      /\ app.pc = "parked"
      /\ AppIs("free", FALSE)
      /\ IoIs("PAUSED", io.appl)
      /\ PlugIs(plug.ptr, plug.pause, plug.connected, plug.event \cup {"frames"}, plug.started, plug.ring)
      /\ ServerIs(server.gone, server.fifo)
      /\ smooth' = (smooth /\ plug.ptr # -1)
      /\ UNCHANGED <<hw, worker, made, due>>
    BY <1>c DEF Inv, PcmTyped, HwTyped, IoTyped, PlugTyped, WorkerTyped, AppTyped, ServerTyped,
       CountsTyped, HwSame, WorkerIs, PlugIs, IoIs, AppIs, ServerIs
  <1>t. PcmTyped'
    <2>1. HwTyped' /\ hw'.buffer = hw.buffer
      BY DEF Inv, PcmTyped, HwTyped, PauseSent, B
    <2>2. Pointers' = Pointers /\ Frames' = Frames /\ B' = B
      BY <2>1 DEF Pointers, Frames, B
    <2>3. IoTyped'
      BY <1>f, <2>2, ZeroPointer , <1>c DEF Inv, PcmTyped, IoTyped, PlugTyped, States
    <2>4. PlugTyped'
      BY <1>f, <2>2, ZeroPointer , <1>c DEF Inv, PcmTyped, PlugTyped, WorkerTyped
    <2>5. WorkerTyped'
      BY <1>f, <2>2, ZeroPointer , <1>c DEF Inv, PcmTyped, WorkerTyped, PlugTyped, Labels
    <2>6. AppTyped' /\ CountsTyped'
      BY <1>f, <2>2 , <1>c DEF Inv, PcmTyped, AppTyped, CountsTyped, Calling
    <2>7. ServerTyped'
      BY <1>f, <2>2, FifoTypes , <1>c DEF Inv, PcmTyped, ServerTyped, Fifo
    <2> QED
      BY <2>1, <2>3, <2>4, <2>5, <2>6, <2>7 DEF PcmTyped
  <1>l. Linked'
    BY <1>f DEF Inv, HwSame, WorkerIs, PlugIs, IoIs, AppIs, ServerIs, Linked, Fallen, Parking
  <1>p. Parking'
    BY <1>f DEF Inv, HwSame, WorkerIs, PlugIs, IoIs, AppIs, ServerIs, Linked, Parking, Fallen,
       Playback, MayPause
  <1>h. (smooth => Phases)'
    BY <1>f DEF Inv, HwSame, WorkerIs, PlugIs, IoIs, AppIs, ServerIs, Linked, Parking, Phases,
       Live, Playback
  <1>d. (smooth => Drains)'
    BY <1>f, <1>t DEF Inv, HwSame, WorkerIs, PlugIs, IoIs, AppIs, ServerIs, Linked, Drains,
       Live, Free, B, Playback, PcmTyped, Pointers
  <1>o. Told'
    BY <1>f, <1>t DEF Inv, HwSame, WorkerIs, PlugIs, IoIs, AppIs, ServerIs, Parking, Told,
       Raising, Free, B, WaitsForAll, Playback, PcmTyped, Pointers
  <1>s. Still
    BY <1>f DEF Inv, HwSame, WorkerIs, PlugIs, IoIs, AppIs, ServerIs, Still, Moving, Live,
       Linked, Parking
  <1>b. (smooth => Bounds)'
    BY <1>f, <1>t, <1>p, <1>s, StillBounds DEF AppIs
  <1> QED
    BY <1>t, <1>l, <1>p, <1>h, <1>b, <1>d, <1>s, <1>o, StillPlays, StillRecords DEF Inv

LEMMA PauseSent2Keeps ==
  ASSUME Inv, PauseSent, ~(plug.connected /\ ~server.gone)
  PROVE  Inv'
  <1>c.
      /\ app.pc = "parked" /\ app' = [pc |-> "free", woken |-> FALSE]
      /\ io' = [io EXCEPT !.state = IF plug.connected THEN @ ELSE "DISCONNECTED"]
      /\ UNCHANGED <<hw, worker, made, due, plug, server, smooth>>
    BY DEF PauseSent, Started, CanStart
  <1>f.
      /\ app.pc = "parked"
      /\ AppIs("free", FALSE)
      /\ IoIs((IF plug.connected THEN io.state ELSE "DISCONNECTED"), io.appl)
      /\ UNCHANGED <<hw, worker, plug, server, made, due, smooth>>
    BY <1>c DEF Inv, PcmTyped, HwTyped, IoTyped, PlugTyped, WorkerTyped, AppTyped, ServerTyped,
       CountsTyped, HwSame, WorkerIs, PlugIs, IoIs, AppIs, ServerIs
  <1>t. PcmTyped'
    <2>1. HwTyped' /\ hw'.buffer = hw.buffer
      BY DEF Inv, PcmTyped, HwTyped, PauseSent, B
    <2>2. Pointers' = Pointers /\ Frames' = Frames /\ B' = B
      BY <2>1 DEF Pointers, Frames, B
    <2>3. IoTyped'
      BY <1>f, <2>2, ZeroPointer , <1>c DEF Inv, PcmTyped, IoTyped, PlugTyped, States
    <2>4. PlugTyped'
      BY <1>f, <2>2, ZeroPointer , <1>c DEF Inv, PcmTyped, PlugTyped, WorkerTyped
    <2>5. WorkerTyped'
      BY <1>f, <2>2, ZeroPointer , <1>c DEF Inv, PcmTyped, WorkerTyped, PlugTyped, Labels
    <2>6. AppTyped' /\ CountsTyped'
      BY <1>f, <2>2 , <1>c DEF Inv, PcmTyped, AppTyped, CountsTyped, Calling
    <2>7. ServerTyped'
      BY <1>f, <2>2, FifoTypes , <1>c DEF Inv, PcmTyped, ServerTyped, Fifo
    <2> QED
      BY <2>1, <2>3, <2>4, <2>5, <2>6, <2>7 DEF PcmTyped
  <1>l. Linked'
    BY <1>f DEF Inv, HwSame, WorkerIs, PlugIs, IoIs, AppIs, ServerIs, Linked, Fallen, Parking
  <1>p. Parking'
    BY <1>f DEF Inv, HwSame, WorkerIs, PlugIs, IoIs, AppIs, ServerIs, Linked, Parking, Fallen,
       Playback, MayPause
  <1>h. (smooth => Phases)'
    BY <1>f DEF Inv, HwSame, WorkerIs, PlugIs, IoIs, AppIs, ServerIs, Linked, Parking, Phases,
       Live, Playback
  <1>d. (smooth => Drains)'
    BY <1>f, <1>t DEF Inv, HwSame, WorkerIs, PlugIs, IoIs, AppIs, ServerIs, Linked, Drains,
       Live, Free, B, Playback, PcmTyped, Pointers
  <1>o. Told'
    BY <1>f, <1>t DEF Inv, HwSame, WorkerIs, PlugIs, IoIs, AppIs, ServerIs, Parking, Told,
       Raising, Free, B, WaitsForAll, Playback, PcmTyped, Pointers
  <1>s. Still
    BY <1>f DEF Inv, HwSame, WorkerIs, PlugIs, IoIs, AppIs, ServerIs, Still, Moving, Live,
       Linked, Parking
  <1>b. (smooth => Bounds)'
    BY <1>f, <1>t, <1>p, <1>s, StillBounds DEF AppIs
  <1> QED
    BY <1>t, <1>l, <1>p, <1>h, <1>b, <1>d, <1>s, <1>o, StillPlays, StillRecords DEF Inv

LEMMA DrainPollsKeeps ==
  ASSUME Inv, DrainPolls
  PROVE  Inv'
  <1>f.
      /\ app.pc = "draining"
      /\ plug.ptr # -1 /\ HwAvail(plug.ptr, io.appl) > 0
      /\ PlugIs(plug.ptr, plug.pause, plug.connected, {}, plug.started, plug.ring)
      /\ UNCHANGED <<hw, io, worker, app, server, made, due, smooth>>
    BY DEF Inv, PcmTyped, HwTyped, IoTyped, PlugTyped, WorkerTyped, AppTyped, ServerTyped,
       CountsTyped, DrainPolls, DrainGoesOn, HwSame, WorkerIs, PlugIs, IoIs, AppIs, ServerIs
  <1>t. PcmTyped'
    <2>1. HwTyped' /\ hw'.buffer = hw.buffer
      BY DEF Inv, PcmTyped, HwTyped, DrainPolls, DrainGoesOn
    <2>2. Pointers' = Pointers /\ Frames' = Frames /\ B' = B
      BY <2>1 DEF Pointers, Frames, B
    <2>3. IoTyped'
      BY <1>f, <2>2, ZeroPointer DEF Inv, PcmTyped, IoTyped, PlugTyped, States, DrainPolls,
         DrainGoesOn
    <2>4. PlugTyped'
      BY <1>f, <2>2, ZeroPointer DEF Inv, PcmTyped, PlugTyped, WorkerTyped, DrainPolls,
         DrainGoesOn
    <2>5. WorkerTyped'
      BY <1>f, <2>2, ZeroPointer DEF Inv, PcmTyped, WorkerTyped, PlugTyped, Labels, DrainPolls,
         DrainGoesOn
    <2>6. AppTyped' /\ CountsTyped'
      BY <1>f, <2>2 DEF Inv, PcmTyped, AppTyped, CountsTyped, Calling, DrainPolls, DrainGoesOn
    <2>7. ServerTyped'
      BY <1>f, <2>2, FifoTypes DEF Inv, PcmTyped, ServerTyped, Fifo, DrainPolls, DrainGoesOn
    <2> QED
      BY <2>1, <2>3, <2>4, <2>5, <2>6, <2>7 DEF PcmTyped
  <1>l. Linked'
    BY <1>f DEF Inv, HwSame, WorkerIs, PlugIs, IoIs, AppIs, ServerIs, Linked, Fallen, Parking
  <1>p. Parking'
    BY <1>f DEF Inv, HwSame, WorkerIs, PlugIs, IoIs, AppIs, ServerIs, Linked, Parking, Fallen,
       Playback, MayPause
  <1>h. (smooth => Phases)'
    BY <1>f DEF Inv, HwSame, WorkerIs, PlugIs, IoIs, AppIs, ServerIs, Linked, Parking, Phases,
       Live, Playback
  <1>d. (smooth => Drains)'
    BY <1>f, <1>t DEF Inv, HwSame, WorkerIs, PlugIs, IoIs, AppIs, ServerIs, Linked, Drains,
       Live, Free, B, Playback, PcmTyped, Pointers
  <1>o. Told'
    BY <1>f, <1>t, FreeIs DEF Inv, HwSame, WorkerIs, PlugIs, IoIs, AppIs, ServerIs, Parking,
       Told, Raising, Free, B, WaitsForAll, Playback, PcmTyped, Pointers, PlugTyped
  <1>s. Still
    BY <1>f DEF Inv, HwSame, WorkerIs, PlugIs, IoIs, AppIs, ServerIs, Still, Moving, Live,
       Linked, Parking
  <1>b. (smooth => Bounds)'
    BY <1>f, <1>t, <1>p, <1>s, StillBounds DEF AppIs
  <1> QED
    BY <1>t, <1>l, <1>p, <1>h, <1>b, <1>d, <1>s, <1>o, StillPlays, StillRecords DEF Inv

LEMMA DrainLoopEnds1Keeps ==
  ASSUME Inv, DrainLoopEnds, plug.connected /\ server.gone
  PROVE  Inv'
  <1>c.
      /\ app.pc = "draining"
      /\ StopStream(plug, server)
      /\ io' = [io EXCEPT !.state = "SETUP"] /\ app' = [app EXCEPT !.pc = "free"]
      /\ UNCHANGED <<hw, made, due, smooth>>
    BY DEF DrainLoopEnds, Started, CanStart
  <1>f.
      /\ app.pc = "draining"
      /\ app'.pc = "free"
      /\ UNCHANGED <<hw, made, due, smooth>>
      /\ WorkerIs("none", 0, 0, 0, 0, FALSE)
      /\ PlugIs(0, plug.pause, plug.connected, (IF server.gone THEN plug.event ELSE plug.event \cup {"frames"}), FALSE, plug.ring)
      /\ IoIs("SETUP", io.appl)
      /\ server'.gone = server.gone
    BY <1>c DEF Inv, PcmTyped, HwTyped, IoTyped, PlugTyped, WorkerTyped, AppTyped, ServerTyped,
       CountsTyped, DrainGoesOn, StopStream, NoWorker, HwSame, WorkerIs, PlugIs, IoIs, AppIs,
       ServerIs
  <1>t. PcmTyped'
    <2>1. HwTyped' /\ hw'.buffer = hw.buffer
      BY DEF Inv, PcmTyped, HwTyped, DrainLoopEnds, DrainGoesOn, StopStream, NoWorker
    <2>2. Pointers' = Pointers /\ Frames' = Frames /\ B' = B
      BY <2>1 DEF Pointers, Frames, B
    <2>3. IoTyped'
      BY <1>f, <2>2, ZeroPointer , <1>c DEF Inv, PcmTyped, IoTyped, PlugTyped, States,
         DrainGoesOn, StopStream, NoWorker
    <2>4. PlugTyped'
      BY <1>f, <2>2, ZeroPointer , <1>c DEF Inv, PcmTyped, PlugTyped, WorkerTyped, DrainGoesOn,
         StopStream, NoWorker
    <2>5. WorkerTyped'
      BY <1>f, <2>2, ZeroPointer , <1>c DEF Inv, PcmTyped, WorkerTyped, PlugTyped, Labels,
         DrainGoesOn, StopStream, NoWorker
    <2>6. AppTyped' /\ CountsTyped'
      BY <1>f, <2>2 , <1>c DEF Inv, PcmTyped, AppTyped, CountsTyped, Calling, DrainGoesOn,
         StopStream, NoWorker
    <2>7. ServerTyped'
      BY <1>f, <2>2, FifoTypes , <1>c DEF Inv, PcmTyped, ServerTyped, Fifo, DrainGoesOn,
         StopStream, NoWorker
    <2> QED
      BY <2>1, <2>3, <2>4, <2>5, <2>6, <2>7 DEF PcmTyped
  <1>l. Linked'
    BY <1>f DEF Inv, HwSame, WorkerIs, PlugIs, IoIs, AppIs, ServerIs, Linked, Fallen, Parking
  <1>p. Parking'
    BY <1>f DEF Inv, HwSame, WorkerIs, PlugIs, IoIs, AppIs, ServerIs, Linked, Parking, Fallen,
       Playback, MayPause
  <1>h. (smooth => Phases)'
    BY <1>f DEF Inv, HwSame, WorkerIs, PlugIs, IoIs, AppIs, ServerIs, Linked, Parking, Phases,
       Live, Playback
  <1>d. (smooth => Drains)'
    BY <1>f, <1>t DEF Inv, HwSame, WorkerIs, PlugIs, IoIs, AppIs, ServerIs, Linked, Drains,
       Live, Free, B, Playback, PcmTyped, Pointers
  <1>o. Told'
    BY <1>f, <1>t DEF Inv, HwSame, WorkerIs, PlugIs, IoIs, AppIs, ServerIs, Parking, Told,
       Raising, Free, B, WaitsForAll, Playback, PcmTyped, Pointers
  <1>s. Still
    BY <1>f DEF Inv, HwSame, WorkerIs, PlugIs, IoIs, AppIs, ServerIs, Still, Moving, Live,
       Linked, Parking
  <1>b. (smooth => Bounds)'
    BY <1>f, <1>t, <1>p, <1>s, StillBounds DEF AppIs
  <1> QED
    BY <1>t, <1>l, <1>p, <1>h, <1>b, <1>d, <1>s, <1>o, StillPlays, StillRecords DEF Inv

LEMMA DrainLoopEnds2Keeps ==
  ASSUME Inv, DrainLoopEnds, ~(plug.connected /\ server.gone)
  PROVE  Inv'
  <1>f.
      /\ app.pc = "draining"
      /\ plug.connected /\ plug.ptr # -1 => ~(HwAvail(plug.ptr, io.appl) > 0)
      /\ app'.pc = "flushing" /\ app'.woken = app.woken
      /\ UNCHANGED <<hw, io, plug, worker, server, made, due, smooth>>
    BY DEF Inv, PcmTyped, HwTyped, IoTyped, PlugTyped, WorkerTyped, AppTyped, ServerTyped,
       CountsTyped, DrainLoopEnds, DrainGoesOn, StopStream, NoWorker, HwSame, WorkerIs, PlugIs,
       IoIs, AppIs, ServerIs
  <1>t. PcmTyped'
    <2>1. HwTyped' /\ hw'.buffer = hw.buffer
      BY DEF Inv, PcmTyped, HwTyped, DrainLoopEnds, DrainGoesOn, StopStream, NoWorker
    <2>2. Pointers' = Pointers /\ Frames' = Frames /\ B' = B
      BY <2>1 DEF Pointers, Frames, B
    <2>3. IoTyped'
      BY <1>f, <2>2, ZeroPointer DEF Inv, PcmTyped, IoTyped, PlugTyped, States, DrainLoopEnds,
         DrainGoesOn, StopStream, NoWorker
    <2>4. PlugTyped'
      BY <1>f, <2>2, ZeroPointer DEF Inv, PcmTyped, PlugTyped, WorkerTyped, DrainLoopEnds,
         DrainGoesOn, StopStream, NoWorker
    <2>5. WorkerTyped'
      BY <1>f, <2>2, ZeroPointer DEF Inv, PcmTyped, WorkerTyped, PlugTyped, Labels,
         DrainLoopEnds, DrainGoesOn, StopStream, NoWorker
    <2>6. AppTyped' /\ CountsTyped'
      BY <1>f, <2>2 DEF Inv, PcmTyped, AppTyped, CountsTyped, Calling, DrainLoopEnds,
         DrainGoesOn, StopStream, NoWorker
    <2>7. ServerTyped'
      BY <1>f, <2>2, FifoTypes DEF Inv, PcmTyped, ServerTyped, Fifo, DrainLoopEnds,
         DrainGoesOn, StopStream, NoWorker
    <2> QED
      BY <2>1, <2>3, <2>4, <2>5, <2>6, <2>7 DEF PcmTyped
  <1>l. Linked'
    BY <1>f DEF Inv, HwSame, WorkerIs, PlugIs, IoIs, AppIs, ServerIs, Linked, Fallen, Parking
  <1>p. Parking'
    BY <1>f DEF Inv, HwSame, WorkerIs, PlugIs, IoIs, AppIs, ServerIs, Linked, Parking, Fallen,
       Playback, MayPause
  <1>h. (smooth => Phases)'
    BY <1>f DEF Inv, HwSame, WorkerIs, PlugIs, IoIs, AppIs, ServerIs, Linked, Parking, Phases,
       Live, Playback
  <1>d. (smooth => Drains)'
    <2>1. io.state = "DRAINING" /\ Playback /\ (~plug.connected => server.gone)
      BY <1>f DEF Inv, Parking, Linked
    <2>2. ASSUME smooth, ~server.gone
          PROVE  due = Fwd(B, io.appl, 1) /\ (plug.ptr = -1 \/ Free(plug.ptr) = B)
      <3>1. CASE plug.ptr = -1
        BY <2>1, <2>2, <3>1 DEF Inv, Drains
      <3>2. CASE plug.ptr # -1
        <4>1. plug.ptr \in Pointers /\ plug.connected /\ ~(HwAvail(plug.ptr, io.appl) > 0)
          BY <1>f, <2>1, <2>2, <3>2 DEF Inv, PcmTyped, PlugTyped
        <4>2. Free(plug.ptr) = B
          BY <2>1, <2>2, <3>2, <4>1, FreeIs DEF Inv, PcmTyped, Bounds, Live
        <4>3. due = Fwd(B, Pos, 1) /\ worker.pc # "transfer" /\ Pos \in Pointers
              /\ (worker.pc = "publish" => Free(worker.ptr) = B)
          <5>1. worker.pc \in Moving => worker.ptr \in Pointers
            BY <2>2 DEF Inv, PcmTyped, WorkerTyped, Phases, Moving
          <5>2. worker.left \in Nat
            BY DEF Inv, PcmTyped, WorkerTyped
          <5>3. worker.pc \in Moving => Free(worker.ptr) = B
            BY <4>2, <5>1, <2>2, FreeIs DEF Inv, PcmTyped, Bounds, Moving
          <5>4. worker.pc # "transfer"
            BY <4>2, <5>1, <5>2, <5>3, <2>2, FreeIs DEF Inv, PcmTyped, WorkerTyped, Bounds,
               Moving
          <5> QED
            BY <2>1, <2>2, <3>2, <4>1, <5>1, <5>3, <5>4 DEF Inv, Plays, Live, Pos, Moving
        <4>4. Free(Pos) = B
          BY <4>2, <4>3 DEF Pos
        <4>5. Pos = io.appl
          BY <2>1, <4>3, <4>4, FillOnce, FillHere DEF Inv, PcmTyped, HwTyped, IoTyped, Free,
             Pointers, B, Playback
        <4> QED
          BY <4>2, <4>3, <4>5
      <3> QED
        BY <3>1, <3>2
    <2>3. Free(plug.ptr)' = Free(plug.ptr)
      BY <1>f DEF Free, B
    <2> QED
      BY <1>f, <2>1, <2>2, <2>3 DEF Inv, Drains, Playback, B

  <1>o. Told'
    BY <1>f, <1>t DEF Inv, HwSame, WorkerIs, PlugIs, IoIs, AppIs, ServerIs, Parking, Told,
       Raising, Free, B, WaitsForAll, Playback, PcmTyped, Pointers
  <1>s. Still
    BY <1>f DEF Inv, HwSame, WorkerIs, PlugIs, IoIs, AppIs, ServerIs, Still, Moving, Live,
       Linked, Parking
  <1>b. (smooth => Bounds)'
    BY <1>f, <1>t, <1>p, <1>s, StillBounds DEF AppIs
  <1> QED
    BY <1>t, <1>l, <1>p, <1>h, <1>b, <1>d, <1>s, <1>o, StillPlays, StillRecords DEF Inv

LEMMA DrainReturnsKeeps ==
  ASSUME Inv, DrainReturns
  PROVE  Inv'
  <1>f.
      /\ app.pc = "flushing"
      /\ app'.pc = "free"
      /\ UNCHANGED <<hw, made, due, smooth>>
      /\ WorkerIs("none", 0, 0, 0, 0, FALSE)
      /\ PlugIs(0, plug.pause, plug.connected, (IF server.gone THEN plug.event ELSE plug.event \cup {"frames"}), FALSE, plug.ring)
      /\ IoIs("SETUP", io.appl)
      /\ server'.gone = server.gone
    BY DEF Inv, PcmTyped, HwTyped, IoTyped, PlugTyped, WorkerTyped, AppTyped, ServerTyped,
       CountsTyped, DrainReturns, StopStream, NoWorker, HwSame, WorkerIs, PlugIs, IoIs, AppIs,
       ServerIs
  <1>t. PcmTyped'
    <2>1. HwTyped' /\ hw'.buffer = hw.buffer
      BY DEF Inv, PcmTyped, HwTyped, DrainReturns, StopStream, NoWorker
    <2>2. Pointers' = Pointers /\ Frames' = Frames /\ B' = B
      BY <2>1 DEF Pointers, Frames, B
    <2>3. IoTyped'
      BY <1>f, <2>2, ZeroPointer DEF Inv, PcmTyped, IoTyped, PlugTyped, States, DrainReturns,
         StopStream, NoWorker
    <2>4. PlugTyped'
      BY <1>f, <2>2, ZeroPointer DEF Inv, PcmTyped, PlugTyped, WorkerTyped, DrainReturns,
         StopStream, NoWorker
    <2>5. WorkerTyped'
      BY <1>f, <2>2, ZeroPointer DEF Inv, PcmTyped, WorkerTyped, PlugTyped, Labels,
         DrainReturns, StopStream, NoWorker
    <2>6. AppTyped' /\ CountsTyped'
      BY <1>f, <2>2 DEF Inv, PcmTyped, AppTyped, CountsTyped, Calling, DrainReturns,
         StopStream, NoWorker
    <2>7. ServerTyped'
      BY <2>2, FifoStops DEF Inv, PcmTyped, DrainReturns
    <2> QED
      BY <2>1, <2>3, <2>4, <2>5, <2>6, <2>7 DEF PcmTyped
  <1>l. Linked'
    BY <1>f DEF Inv, HwSame, WorkerIs, PlugIs, IoIs, AppIs, ServerIs, Linked, Fallen, Parking
  <1>p. Parking'
    BY <1>f DEF Inv, HwSame, WorkerIs, PlugIs, IoIs, AppIs, ServerIs, Linked, Parking, Fallen,
       Playback, MayPause
  <1>h. (smooth => Phases)'
    BY <1>f DEF Inv, HwSame, WorkerIs, PlugIs, IoIs, AppIs, ServerIs, Linked, Parking, Phases,
       Live, Playback
  <1>d. (smooth => Drains)'
    BY <1>f, <1>t DEF Inv, HwSame, WorkerIs, PlugIs, IoIs, AppIs, ServerIs, Linked, Drains,
       Live, Free, B, Playback, PcmTyped, Pointers
  <1>o. Told'
    BY <1>f, <1>t DEF Inv, HwSame, WorkerIs, PlugIs, IoIs, AppIs, ServerIs, Parking, Told,
       Raising, Free, B, WaitsForAll, Playback, PcmTyped, Pointers
  <1>s. Still
    BY <1>f DEF Inv, HwSame, WorkerIs, PlugIs, IoIs, AppIs, ServerIs, Still, Moving, Live,
       Linked, Parking
  <1>b. (smooth => Bounds)'
    BY <1>f, <1>t, <1>p, <1>s, StillBounds DEF AppIs
  <1> QED
    BY <1>t, <1>l, <1>p, <1>h, <1>b, <1>d, <1>s, <1>o, StillPlays, StillRecords DEF Inv

LEMMA DrainTimesOutKeeps ==
  ASSUME Inv, DrainTimesOut
  PROVE  Inv'
  <1>f.
      /\ app.pc = "draining"
      /\ app'.pc = "free"
      /\ HwSame
      /\ UNCHANGED <<made, due, smooth>>
      /\ WorkerIs("none", 0, 0, 0, 0, FALSE)
      /\ PlugIs(0, plug.pause, plug.connected, (IF server.gone THEN plug.event ELSE plug.event \cup {"frames"}), FALSE, plug.ring)
      /\ IoIs("SETUP", io.appl)
      /\ server'.gone = server.gone
    BY DEF Inv, PcmTyped, HwTyped, IoTyped, PlugTyped, WorkerTyped, AppTyped, ServerTyped,
       CountsTyped, DrainTimesOut, StopStream, NoWorker, HwSame, WorkerIs, PlugIs, IoIs, AppIs,
       ServerIs
  <1>t. PcmTyped'
    <2>1. HwTyped' /\ hw'.buffer = hw.buffer
      BY DEF Inv, PcmTyped, HwTyped, DrainTimesOut, StopStream, NoWorker
    <2>2. Pointers' = Pointers /\ Frames' = Frames /\ B' = B
      BY <2>1 DEF Pointers, Frames, B
    <2>3. IoTyped'
      BY <1>f, <2>2, ZeroPointer DEF Inv, PcmTyped, IoTyped, PlugTyped, States, DrainTimesOut,
         StopStream, NoWorker
    <2>4. PlugTyped'
      BY <1>f, <2>2, ZeroPointer DEF Inv, PcmTyped, PlugTyped, WorkerTyped, DrainTimesOut,
         StopStream, NoWorker
    <2>5. WorkerTyped'
      BY <1>f, <2>2, ZeroPointer DEF Inv, PcmTyped, WorkerTyped, PlugTyped, Labels,
         DrainTimesOut, StopStream, NoWorker
    <2>6. AppTyped' /\ CountsTyped'
      BY <1>f, <2>2 DEF Inv, PcmTyped, AppTyped, CountsTyped, Calling, DrainTimesOut,
         StopStream, NoWorker
    <2>7. ServerTyped'
      BY <2>2, FifoStops DEF Inv, PcmTyped, DrainTimesOut
    <2> QED
      BY <2>1, <2>3, <2>4, <2>5, <2>6, <2>7 DEF PcmTyped
  <1>l. Linked'
    BY <1>f DEF Inv, HwSame, WorkerIs, PlugIs, IoIs, AppIs, ServerIs, Linked, Fallen, Parking
  <1>p. Parking'
    BY <1>f DEF Inv, HwSame, WorkerIs, PlugIs, IoIs, AppIs, ServerIs, Linked, Parking, Fallen,
       Playback, MayPause
  <1>h. (smooth => Phases)'
    BY <1>f DEF Inv, HwSame, WorkerIs, PlugIs, IoIs, AppIs, ServerIs, Linked, Parking, Phases,
       Live, Playback
  <1>d. (smooth => Drains)'
    BY <1>f, <1>t DEF Inv, HwSame, WorkerIs, PlugIs, IoIs, AppIs, ServerIs, Linked, Drains,
       Live, Free, B, Playback, PcmTyped, Pointers
  <1>o. Told'
    BY <1>f, <1>t DEF Inv, HwSame, WorkerIs, PlugIs, IoIs, AppIs, ServerIs, Parking, Told,
       Raising, Free, B, WaitsForAll, Playback, PcmTyped, Pointers
  <1>s. Still
    BY <1>f DEF Inv, HwSame, WorkerIs, PlugIs, IoIs, AppIs, ServerIs, Still, Moving, Live,
       Linked, Parking
  <1>b. (smooth => Bounds)'
    BY <1>f, <1>t, <1>p, <1>s, StillBounds DEF AppIs
  <1> QED
    BY <1>t, <1>l, <1>p, <1>h, <1>b, <1>d, <1>s, <1>o, StillPlays, StillRecords DEF Inv

LEMMA DropKeeps ==
  ASSUME Inv, Drop
  PROVE  Inv'
  <1>f.
      /\ app.pc = "free" /\ io.state \notin {"OPEN", "DISCONNECTED", "SETUP"}
      /\ HwSame
      /\ UNCHANGED <<app, made, due, smooth>>
      /\ WorkerIs("none", 0, 0, 0, 0, FALSE)
      /\ PlugIs(0, plug.pause, plug.connected, (IF server.gone THEN plug.event ELSE plug.event \cup {"frames"}), FALSE, plug.ring)
      /\ IoIs("SETUP", io.appl)
      /\ server'.gone = server.gone
    BY DEF Inv, PcmTyped, HwTyped, IoTyped, PlugTyped, WorkerTyped, AppTyped, ServerTyped,
       CountsTyped, Drop, Command, Idle, StopStream, NoWorker, HwSame, WorkerIs, PlugIs, IoIs,
       AppIs, ServerIs
  <1>t. PcmTyped'
    <2>1. HwTyped' /\ hw'.buffer = hw.buffer
      BY DEF Inv, PcmTyped, HwTyped, Drop, Command, Idle, StopStream, NoWorker
    <2>2. Pointers' = Pointers /\ Frames' = Frames /\ B' = B
      BY <2>1 DEF Pointers, Frames, B
    <2>3. IoTyped'
      BY <1>f, <2>2, ZeroPointer DEF Inv, PcmTyped, IoTyped, PlugTyped, States, Drop, Command,
         Idle, StopStream, NoWorker
    <2>4. PlugTyped'
      BY <1>f, <2>2, ZeroPointer DEF Inv, PcmTyped, PlugTyped, WorkerTyped, Drop, Command,
         Idle, StopStream, NoWorker
    <2>5. WorkerTyped'
      BY <1>f, <2>2, ZeroPointer DEF Inv, PcmTyped, WorkerTyped, PlugTyped, Labels, Drop,
         Command, Idle, StopStream, NoWorker
    <2>6. AppTyped' /\ CountsTyped'
      BY <1>f, <2>2 DEF Inv, PcmTyped, AppTyped, CountsTyped, Calling, Drop, Command, Idle,
         StopStream, NoWorker
    <2>7. ServerTyped'
      BY <2>2, FifoStops DEF Inv, PcmTyped, Drop
    <2> QED
      BY <2>1, <2>3, <2>4, <2>5, <2>6, <2>7 DEF PcmTyped
  <1>l. Linked'
    BY <1>f DEF Inv, HwSame, WorkerIs, PlugIs, IoIs, AppIs, ServerIs, Linked, Fallen, Parking
  <1>p. Parking'
    BY <1>f DEF Inv, HwSame, WorkerIs, PlugIs, IoIs, AppIs, ServerIs, Linked, Parking, Fallen,
       Playback, MayPause
  <1>h. (smooth => Phases)'
    BY <1>f DEF Inv, HwSame, WorkerIs, PlugIs, IoIs, AppIs, ServerIs, Linked, Parking, Phases,
       Live, Playback
  <1>d. (smooth => Drains)'
    BY <1>f, <1>t DEF Inv, HwSame, WorkerIs, PlugIs, IoIs, AppIs, ServerIs, Linked, Drains,
       Live, Free, B, Playback, PcmTyped, Pointers
  <1>o. Told'
    BY <1>f, <1>t DEF Inv, HwSame, WorkerIs, PlugIs, IoIs, AppIs, ServerIs, Parking, Told,
       Raising, Free, B, WaitsForAll, Playback, PcmTyped, Pointers
  <1>s. Still
    BY <1>f DEF Inv, HwSame, WorkerIs, PlugIs, IoIs, AppIs, ServerIs, Still, Moving, Live,
       Linked, Parking
  <1>b. (smooth => Bounds)'
    BY <1>f, <1>t, <1>p, <1>s, StillBounds DEF AppIs
  <1> QED
    BY <1>t, <1>l, <1>p, <1>h, <1>b, <1>d, <1>s, <1>o, StillPlays, StillRecords DEF Inv

LEMMA HwFreeKeeps ==
  ASSUME Inv, HwFree
  PROVE  Inv'
  <1>f.
      /\ app.pc = "free"
      /\ HwSame
      /\ WorkerIs("none", 0, 0, 0, 0, FALSE)
      /\ PlugIs(plug.ptr, plug.pause, FALSE, plug.event, FALSE, plug.ring)
      /\ IoIs("OPEN", io.appl)
      /\ server'.gone = server.gone
      /\ UNCHANGED <<app, made, due, smooth>>
    BY DEF Inv, PcmTyped, HwTyped, IoTyped, PlugTyped, WorkerTyped, AppTyped, ServerTyped,
       CountsTyped, HwFree, Command, Idle, NoWorker, HwSame, WorkerIs, PlugIs, IoIs, AppIs,
       ServerIs
  <1>t. PcmTyped'
    <2>1. HwTyped' /\ hw'.buffer = hw.buffer
      BY DEF Inv, PcmTyped, HwTyped, HwFree, Command, Idle, NoWorker
    <2>2. Pointers' = Pointers /\ Frames' = Frames /\ B' = B
      BY <2>1 DEF Pointers, Frames, B
    <2>3. IoTyped'
      BY <1>f, <2>2, ZeroPointer DEF Inv, PcmTyped, IoTyped, PlugTyped, States, HwFree,
         Command, Idle, NoWorker
    <2>4. PlugTyped'
      BY <1>f, <2>2, ZeroPointer DEF Inv, PcmTyped, PlugTyped, WorkerTyped, HwFree, Command,
         Idle, NoWorker
    <2>5. WorkerTyped'
      BY <1>f, <2>2, ZeroPointer DEF Inv, PcmTyped, WorkerTyped, PlugTyped, Labels, HwFree,
         Command, Idle, NoWorker
    <2>6. AppTyped' /\ CountsTyped'
      BY <1>f, <2>2 DEF Inv, PcmTyped, AppTyped, CountsTyped, Calling, HwFree, Command, Idle,
         NoWorker
    <2>7. ServerTyped'
      <3>1. server' = [server EXCEPT !.fifo = << >>]
        BY DEF HwFree
      <3>2. Len(<< >>) <= Fifo
        BY DEF Fifo
      <3> QED
        BY <2>2, <3>1, <3>2, FifoTypes, FifoSet DEF Inv, PcmTyped
    <2> QED
      BY <2>1, <2>3, <2>4, <2>5, <2>6, <2>7 DEF PcmTyped
  <1>l. Linked'
    BY <1>f DEF Inv, HwSame, WorkerIs, PlugIs, IoIs, AppIs, ServerIs, Linked, Fallen, Parking
  <1>p. Parking'
    BY <1>f DEF Inv, HwSame, WorkerIs, PlugIs, IoIs, AppIs, ServerIs, Linked, Parking, Fallen,
       Playback, MayPause
  <1>h. (smooth => Phases)'
    BY <1>f DEF Inv, HwSame, WorkerIs, PlugIs, IoIs, AppIs, ServerIs, Linked, Parking, Phases,
       Live, Playback
  <1>d. (smooth => Drains)'
    BY <1>f, <1>t DEF Inv, HwSame, WorkerIs, PlugIs, IoIs, AppIs, ServerIs, Linked, Drains,
       Live, Free, B, Playback, PcmTyped, Pointers
  <1>o. Told'
    BY <1>f, <1>t DEF Inv, HwSame, WorkerIs, PlugIs, IoIs, AppIs, ServerIs, Parking, Told,
       Raising, Free, B, WaitsForAll, Playback, PcmTyped, Pointers
  <1>s. Still
    BY <1>f DEF Inv, HwSame, WorkerIs, PlugIs, IoIs, AppIs, ServerIs, Still, Moving, Live,
       Linked, Parking
  <1>b. (smooth => Bounds)'
    BY <1>f, <1>t, <1>p, <1>s, StillBounds DEF AppIs
  <1> QED
    BY <1>t, <1>l, <1>p, <1>h, <1>b, <1>d, <1>s, <1>o, StillPlays, StillRecords DEF Inv

LEMMA PauseKeeps ==
  ASSUME Inv, Pause
  PROVE  Inv'
  <1>f.
      /\ app.pc = "free" /\ io.state = "RUNNING"
      /\ HwSame
      /\ PlugIs(plug.ptr, plug.pause \cup {"PENDING"}, plug.connected, plug.event, plug.started, plug.ring)
      /\ AppIs((IF MayPause THEN "parked" ELSE "waiting"), FALSE)
      /\ UNCHANGED <<io, worker, server, made, due, smooth>>
    BY DEF Inv, PcmTyped, HwTyped, IoTyped, PlugTyped, WorkerTyped, AppTyped, ServerTyped,
       CountsTyped, Pause, Command, Idle, MayPause, HwSame, WorkerIs, PlugIs, IoIs, AppIs,
       ServerIs
  <1>t. PcmTyped'
    <2>1. HwTyped' /\ hw'.buffer = hw.buffer
      BY DEF Inv, PcmTyped, HwTyped, Pause, Command, Idle, MayPause
    <2>2. Pointers' = Pointers /\ Frames' = Frames /\ B' = B
      BY <2>1 DEF Pointers, Frames, B
    <2>3. IoTyped'
      BY <1>f, <2>2, ZeroPointer DEF Inv, PcmTyped, IoTyped, PlugTyped, States, Pause, Command,
         Idle, MayPause
    <2>4. PlugTyped'
      BY <1>f, <2>2, ZeroPointer DEF Inv, PcmTyped, PlugTyped, WorkerTyped, Pause, Command,
         Idle, MayPause
    <2>5. WorkerTyped'
      BY <1>f, <2>2, ZeroPointer DEF Inv, PcmTyped, WorkerTyped, PlugTyped, Labels, Pause,
         Command, Idle, MayPause
    <2>6. AppTyped' /\ CountsTyped'
      BY <1>f, <2>2 DEF Inv, PcmTyped, AppTyped, CountsTyped, Calling, Pause, Command, Idle,
         MayPause
    <2>7. ServerTyped'
      BY <1>f, <2>2, FifoTypes DEF Inv, PcmTyped, ServerTyped, Fifo, Pause, Command, Idle,
         MayPause
    <2> QED
      BY <2>1, <2>3, <2>4, <2>5, <2>6, <2>7 DEF PcmTyped
  <1>l. Linked'
    BY <1>f DEF Inv, HwSame, WorkerIs, PlugIs, IoIs, AppIs, ServerIs, Linked, Fallen, Parking
  <1>p. Parking'
    BY <1>f DEF Inv, HwSame, WorkerIs, PlugIs, IoIs, AppIs, ServerIs, Linked, Parking, Fallen,
       Playback, MayPause
  <1>h. (smooth => Phases)'
    BY <1>f DEF Inv, HwSame, WorkerIs, PlugIs, IoIs, AppIs, ServerIs, Linked, Parking, Phases,
       Live, Playback
  <1>d. (smooth => Drains)'
    BY <1>f, <1>t DEF Inv, HwSame, WorkerIs, PlugIs, IoIs, AppIs, ServerIs, Linked, Drains,
       Live, Free, B, Playback, PcmTyped, Pointers
  <1>o. Told'
    BY <1>f, <1>t DEF Inv, HwSame, WorkerIs, PlugIs, IoIs, AppIs, ServerIs, Parking, Told,
       Raising, Free, B, WaitsForAll, Playback, PcmTyped, Pointers
  <1>s. Still
    BY <1>f DEF Inv, HwSame, WorkerIs, PlugIs, IoIs, AppIs, ServerIs, Still, Moving, Live,
       Linked, Parking
  <1>b. (smooth => Bounds)'
    BY <1>f, <1>t, <1>p, <1>s, StillBounds DEF AppIs
  <1> QED
    BY <1>t, <1>l, <1>p, <1>h, <1>b, <1>d, <1>s, <1>o, StillPlays, StillRecords DEF Inv

LEMMA Resume1Keeps ==
  ASSUME Inv, Resume, plug.connected /\ ~server.gone
  PROVE  Inv'
  <1>c.
      /\ Command /\ io.state = "PAUSED"
      /\ server' = [server EXCEPT !.paused = FALSE]
      /\ io' = [io EXCEPT !.state = "RUNNING"]
      /\ plug' = [plug EXCEPT !.event = @ \cup {"frames"}]
      /\ Signal
      /\ smooth' = (smooth /\ Hears)
      /\ UNCHANGED <<app, made, due>>
    BY DEF Resume, Started, CanStart
  <1>f.
      /\ app.pc = "free" /\ io.state = "PAUSED"
      /\ HwSame
      /\ IoIs("RUNNING", io.appl)
      /\ PlugIs(plug.ptr, plug.pause, plug.connected, plug.event \cup {"frames"}, plug.started, plug.ring)
      /\ WorkerIs(worker.pc, worker.ptr, worker.off, worker.left, worker.room, TRUE)
      /\ ServerIs(server.gone, server.fifo)
      /\ smooth' = (smooth /\ worker.pc \in {"pausing", "sigwait"})
      /\ UNCHANGED <<app, made, due>>
    BY <1>c DEF Inv, PcmTyped, HwTyped, IoTyped, PlugTyped, WorkerTyped, AppTyped, ServerTyped,
       CountsTyped, Command, Idle, Signal, Hears, HwSame, WorkerIs, PlugIs, IoIs, AppIs,
       ServerIs
  <1>t. PcmTyped'
    <2>1. HwTyped' /\ hw'.buffer = hw.buffer
      BY DEF Inv, PcmTyped, HwTyped, Resume, Command, Idle, Signal, Hears
    <2>2. Pointers' = Pointers /\ Frames' = Frames /\ B' = B
      BY <2>1 DEF Pointers, Frames, B
    <2>3. IoTyped'
      BY <1>f, <2>2, ZeroPointer , <1>c DEF Inv, PcmTyped, IoTyped, PlugTyped, States, Command,
         Idle, Signal, Hears
    <2>4. PlugTyped'
      BY <1>f, <2>2, ZeroPointer , <1>c DEF Inv, PcmTyped, PlugTyped, WorkerTyped, Command,
         Idle, Signal, Hears
    <2>5. WorkerTyped'
      BY <1>f, <2>2, ZeroPointer , <1>c DEF Inv, PcmTyped, WorkerTyped, PlugTyped, Labels,
         Command, Idle, Signal, Hears
    <2>6. AppTyped' /\ CountsTyped'
      BY <1>f, <2>2 , <1>c DEF Inv, PcmTyped, AppTyped, CountsTyped, Calling, Command, Idle,
         Signal, Hears
    <2>7. ServerTyped'
      BY <1>f, <2>2, FifoTypes , <1>c DEF Inv, PcmTyped, ServerTyped, Fifo, Command, Idle,
         Signal, Hears
    <2> QED
      BY <2>1, <2>3, <2>4, <2>5, <2>6, <2>7 DEF PcmTyped
  <1>l. Linked'
    BY <1>f DEF Inv, HwSame, WorkerIs, PlugIs, IoIs, AppIs, ServerIs, Linked, Fallen, Parking
  <1>p. Parking'
    BY <1>f DEF Inv, HwSame, WorkerIs, PlugIs, IoIs, AppIs, ServerIs, Linked, Parking, Fallen,
       Playback, MayPause
  <1>h. (smooth => Phases)'
    BY <1>f DEF Inv, HwSame, WorkerIs, PlugIs, IoIs, AppIs, ServerIs, Linked, Parking, Phases,
       Live, Playback
  <1>d. (smooth => Drains)'
    BY <1>f, <1>t DEF Inv, HwSame, WorkerIs, PlugIs, IoIs, AppIs, ServerIs, Linked, Drains,
       Live, Free, B, Playback, PcmTyped, Pointers
  <1>o. Told'
    BY <1>f, <1>t DEF Inv, HwSame, WorkerIs, PlugIs, IoIs, AppIs, ServerIs, Parking, Told,
       Raising, Free, B, WaitsForAll, Playback, PcmTyped, Pointers
  <1>s. Still
    BY <1>f DEF Inv, HwSame, WorkerIs, PlugIs, IoIs, AppIs, ServerIs, Still, Moving, Live,
       Linked, Parking
  <1>b. (smooth => Bounds)'
    BY <1>f, <1>t, <1>p, <1>s, StillBounds DEF AppIs
  <1> QED
    BY <1>t, <1>l, <1>p, <1>h, <1>b, <1>d, <1>s, <1>o, StillPlays, StillRecords DEF Inv

LEMMA Resume2Keeps ==
  ASSUME Inv, Resume, ~(plug.connected /\ ~server.gone)
  PROVE  Inv'
  <1>c.
      /\ Command /\ io.state = "PAUSED"
      /\ io' = [io EXCEPT !.state = IF plug.connected THEN @ ELSE "DISCONNECTED"]
      /\ UNCHANGED <<app, made, due, plug, worker, server, smooth>>
    BY DEF Resume, Started, CanStart
  <1>f.
      /\ app.pc = "free" /\ io.state = "PAUSED"
      /\ HwSame
      /\ IoIs((IF plug.connected THEN "PAUSED" ELSE "DISCONNECTED"), io.appl)
      /\ UNCHANGED <<app, made, due, plug, worker, server, smooth>>
    BY <1>c DEF Inv, PcmTyped, HwTyped, IoTyped, PlugTyped, WorkerTyped, AppTyped, ServerTyped,
       CountsTyped, Command, Idle, Signal, Hears, HwSame, WorkerIs, PlugIs, IoIs, AppIs,
       ServerIs
  <1>t. PcmTyped'
    <2>1. HwTyped' /\ hw'.buffer = hw.buffer
      BY DEF Inv, PcmTyped, HwTyped, Resume, Command, Idle, Signal, Hears
    <2>2. Pointers' = Pointers /\ Frames' = Frames /\ B' = B
      BY <2>1 DEF Pointers, Frames, B
    <2>3. IoTyped'
      BY <1>f, <2>2, ZeroPointer , <1>c DEF Inv, PcmTyped, IoTyped, PlugTyped, States, Command,
         Idle, Signal, Hears
    <2>4. PlugTyped'
      BY <1>f, <2>2, ZeroPointer , <1>c DEF Inv, PcmTyped, PlugTyped, WorkerTyped, Command,
         Idle, Signal, Hears
    <2>5. WorkerTyped'
      BY <1>f, <2>2, ZeroPointer , <1>c DEF Inv, PcmTyped, WorkerTyped, PlugTyped, Labels,
         Command, Idle, Signal, Hears
    <2>6. AppTyped' /\ CountsTyped'
      BY <1>f, <2>2 , <1>c DEF Inv, PcmTyped, AppTyped, CountsTyped, Calling, Command, Idle,
         Signal, Hears
    <2>7. ServerTyped'
      BY <1>f, <2>2, FifoTypes , <1>c DEF Inv, PcmTyped, ServerTyped, Fifo, Command, Idle,
         Signal, Hears
    <2> QED
      BY <2>1, <2>3, <2>4, <2>5, <2>6, <2>7 DEF PcmTyped
  <1>l. Linked'
    BY <1>f DEF Inv, HwSame, WorkerIs, PlugIs, IoIs, AppIs, ServerIs, Linked, Fallen, Parking
  <1>p. Parking'
    BY <1>f DEF Inv, HwSame, WorkerIs, PlugIs, IoIs, AppIs, ServerIs, Linked, Parking, Fallen,
       Playback, MayPause
  <1>h. (smooth => Phases)'
    BY <1>f DEF Inv, HwSame, WorkerIs, PlugIs, IoIs, AppIs, ServerIs, Linked, Parking, Phases,
       Live, Playback
  <1>d. (smooth => Drains)'
    BY <1>f, <1>t DEF Inv, HwSame, WorkerIs, PlugIs, IoIs, AppIs, ServerIs, Linked, Drains,
       Live, Free, B, Playback, PcmTyped, Pointers
  <1>o. Told'
    BY <1>f, <1>t DEF Inv, HwSame, WorkerIs, PlugIs, IoIs, AppIs, ServerIs, Parking, Told,
       Raising, Free, B, WaitsForAll, Playback, PcmTyped, Pointers
  <1>s. Still
    BY <1>f DEF Inv, HwSame, WorkerIs, PlugIs, IoIs, AppIs, ServerIs, Still, Moving, Live,
       Linked, Parking
  <1>b. (smooth => Bounds)'
    BY <1>f, <1>t, <1>p, <1>s, StillBounds DEF AppIs
  <1> QED
    BY <1>t, <1>l, <1>p, <1>h, <1>b, <1>d, <1>s, <1>o, StillPlays, StillRecords DEF Inv

LEMMA Start1Keeps ==
  ASSUME Inv, Start, plug.started
  PROVE  Inv'
  <1>c.
      /\ Command /\ io.state = "PREPARED"
      /\ Signal /\ UNCHANGED <<plug, server>>
      /\ io' = [io EXCEPT !.state = "RUNNING"]
      /\ smooth' = (smooth /\ Hears)
      /\ UNCHANGED <<app, made, due>>
    BY DEF Start, Started, CanStart
  <1>f.
      /\ app.pc = "free" /\ io.state = "PREPARED"
      /\ HwSame
      /\ IoIs("RUNNING", io.appl)
      /\ WorkerIs(worker.pc, worker.ptr, worker.off, worker.left, worker.room, TRUE)
      /\ smooth' = (smooth /\ worker.pc \in {"pausing", "sigwait"})
      /\ UNCHANGED <<app, made, due, plug, server>>
    BY <1>c DEF Inv, PcmTyped, HwTyped, IoTyped, PlugTyped, WorkerTyped, AppTyped, ServerTyped,
       CountsTyped, Command, Idle, CanStart, Started, Signal, Hears, NoWorker, HwSame,
       WorkerIs, PlugIs, IoIs, AppIs, ServerIs
  <1>t. PcmTyped'
    <2>1. HwTyped' /\ hw'.buffer = hw.buffer
      BY DEF Inv, PcmTyped, HwTyped, Start, Command, Idle, CanStart, Started, Signal, Hears,
         NoWorker
    <2>2. Pointers' = Pointers /\ Frames' = Frames /\ B' = B
      BY <2>1 DEF Pointers, Frames, B
    <2>3. IoTyped'
      BY <1>f, <2>2, ZeroPointer , <1>c DEF Inv, PcmTyped, IoTyped, PlugTyped, States, Command,
         Idle, CanStart, Started, Signal, Hears, NoWorker
    <2>4. PlugTyped'
      BY <1>f, <2>2, ZeroPointer , <1>c DEF Inv, PcmTyped, PlugTyped, WorkerTyped, Command,
         Idle, CanStart, Started, Signal, Hears, NoWorker
    <2>5. WorkerTyped'
      BY <1>f, <2>2, ZeroPointer , <1>c DEF Inv, PcmTyped, WorkerTyped, PlugTyped, Labels,
         Command, Idle, CanStart, Started, Signal, Hears, NoWorker
    <2>6. AppTyped' /\ CountsTyped'
      BY <1>f, <2>2 , <1>c DEF Inv, PcmTyped, AppTyped, CountsTyped, Calling, Command, Idle,
         CanStart, Started, Signal, Hears, NoWorker
    <2>7. ServerTyped'
      BY <1>f, <2>2, FifoTypes , <1>c DEF Inv, PcmTyped, ServerTyped, Fifo, Command, Idle,
         CanStart, Started, Signal, Hears, NoWorker
    <2> QED
      BY <2>1, <2>3, <2>4, <2>5, <2>6, <2>7 DEF PcmTyped
  <1>l. Linked'
    BY <1>f DEF Inv, HwSame, WorkerIs, PlugIs, IoIs, AppIs, ServerIs, Linked, Fallen, Parking
  <1>p. Parking'
    BY <1>f DEF Inv, HwSame, WorkerIs, PlugIs, IoIs, AppIs, ServerIs, Linked, Parking, Fallen,
       Playback, MayPause
  <1>h. (smooth => Phases)'
    BY <1>f DEF Inv, HwSame, WorkerIs, PlugIs, IoIs, AppIs, ServerIs, Linked, Parking, Phases,
       Live, Playback
  <1>d. (smooth => Drains)'
    BY <1>f, <1>t DEF Inv, HwSame, WorkerIs, PlugIs, IoIs, AppIs, ServerIs, Linked, Drains,
       Live, Free, B, Playback, PcmTyped, Pointers
  <1>o. Told'
    <2>1. ASSUME smooth', ~Playback, plug.ptr # -1 PROVE Free(plug.ptr) = 0
      <3>1. io.appl = 0 /\ plug.ptr = 0
        BY <1>f, <2>1 DEF Inv, Phases, Linked, Live, WorkerIs
      <3>2. hw.stream # "PLAYBACK" /\ B \in Nat \ {0} /\ 0 \in Ptrs(B)
        BY <2>1, ZeroPointer DEF Inv, PcmTyped, HwTyped, Playback, B, Pointers
      <3> QED
        BY <3>1, <3>2, FillHere DEF Free
    <2>2. smooth' /\ plug.event = {} => plug.ptr # -1 /\ smooth
      BY <1>f DEF Inv, Told, Raising, Phases, Live, Linked, HwSame, WorkerIs, PlugIs, IoIs,
         AppIs, ServerIs
    <2>3. /\ Free(plug.ptr)' = Free(plug.ptr) /\ plug'.ptr = plug.ptr /\ plug'.event = plug.event
          /\ hw'.min = hw.min /\ hw'.buffer = hw.buffer /\ Playback' = Playback
      BY <1>f DEF Free, HwSame, WorkerIs, PlugIs, IoIs, AppIs, ServerIs, Playback, B
    <2>4. hw.min \in Nat \ {0}
      BY DEF Inv, PcmTyped, HwTyped
    <2> QED
      BY <1>f, <2>1, <2>2, <2>3, <2>4 DEF Inv, Told, WaitsForAll, IoIs

  <1>s. Still
    BY <1>f DEF Inv, HwSame, WorkerIs, PlugIs, IoIs, AppIs, ServerIs, Still, Moving, Live,
       Linked, Parking
  <1>b. (smooth => Bounds)'
    BY <1>f, <1>t, <1>p, <1>s, StillBounds DEF AppIs
  <1> QED
    BY <1>t, <1>l, <1>p, <1>h, <1>b, <1>d, <1>s, <1>o, StillPlays, StillRecords DEF Inv

LEMMA Start2Keeps ==
  ASSUME Inv, Start, ~plug.started
  PROVE  Inv'
  <1>c.
      /\ Command /\ io.state = "PREPARED" /\ ~server.gone
      /\ server' = [server EXCEPT !.paused = FALSE]
      /\ plug' = [plug EXCEPT !.started = TRUE]
      /\ worker' = [NoWorker EXCEPT !.pc = "check", !.ptr = plug.ptr]
      /\ io' = [io EXCEPT !.state = "RUNNING"]
      /\ smooth' = (smooth /\ (plug.started => Hears))
      /\ UNCHANGED <<app, made, due>>
    BY DEF Start, Started, CanStart
  <1>f.
      /\ app.pc = "free" /\ io.state = "PREPARED" /\ ~server.gone
      /\ HwSame
      /\ IoIs("RUNNING", io.appl)
      /\ WorkerIs("check", plug.ptr, 0, 0, 0, FALSE)
      /\ PlugIs(plug.ptr, plug.pause, plug.connected, plug.event, TRUE, plug.ring)
      /\ ServerIs(server.gone, server.fifo)
      /\ UNCHANGED <<app, made, due, smooth>>
    BY <1>c DEF Inv, PcmTyped, HwTyped, IoTyped, PlugTyped, WorkerTyped, AppTyped, ServerTyped,
       CountsTyped, Command, Idle, CanStart, Started, Signal, Hears, NoWorker, HwSame,
       WorkerIs, PlugIs, IoIs, AppIs, ServerIs
  <1>t. PcmTyped'
    <2>1. HwTyped' /\ hw'.buffer = hw.buffer
      BY DEF Inv, PcmTyped, HwTyped, Start, Command, Idle, CanStart, Started, Signal, Hears,
         NoWorker
    <2>2. Pointers' = Pointers /\ Frames' = Frames /\ B' = B
      BY <2>1 DEF Pointers, Frames, B
    <2>3. IoTyped'
      BY <1>f, <2>2, ZeroPointer , <1>c DEF Inv, PcmTyped, IoTyped, PlugTyped, States, Command,
         Idle, CanStart, Started, Signal, Hears, NoWorker
    <2>4. PlugTyped'
      BY <1>f, <2>2, ZeroPointer , <1>c DEF Inv, PcmTyped, PlugTyped, WorkerTyped, Command,
         Idle, CanStart, Started, Signal, Hears, NoWorker
    <2>5. WorkerTyped'
      <3>1. worker' = [pc |-> "check", ptr |-> plug.ptr, off |-> 0, left |-> 0, room |-> 0,
                  sig |-> FALSE]
        BY <1>c DEF NoWorker
      <3>2. plug.ptr \in Pointers \cup {-1} /\ 0 \in 0 .. B - 1
        BY ZeroPointer DEF Inv, PcmTyped, PlugTyped
      <3> QED
        BY <2>2, <3>1, <3>2 DEF WorkerTyped, Labels
    <2>6. AppTyped' /\ CountsTyped'
      BY <1>f, <2>2 , <1>c DEF Inv, PcmTyped, AppTyped, CountsTyped, Calling, Command, Idle,
         CanStart, Started, Signal, Hears, NoWorker
    <2>7. ServerTyped'
      BY <1>f, <2>2, FifoTypes , <1>c DEF Inv, PcmTyped, ServerTyped, Fifo, Command, Idle,
         CanStart, Started, Signal, Hears, NoWorker
    <2> QED
      BY <2>1, <2>3, <2>4, <2>5, <2>6, <2>7 DEF PcmTyped
  <1>l. Linked'
    BY <1>f DEF Inv, HwSame, WorkerIs, PlugIs, IoIs, AppIs, ServerIs, Linked, Fallen, Parking
  <1>p. Parking'
    BY <1>f DEF Inv, HwSame, WorkerIs, PlugIs, IoIs, AppIs, ServerIs, Linked, Parking, Fallen,
       Playback, MayPause
  <1>h. (smooth => Phases)'
    BY <1>f DEF Inv, HwSame, WorkerIs, PlugIs, IoIs, AppIs, ServerIs, Linked, Parking, Phases,
       Live, Playback
  <1>d. (smooth => Drains)'
    BY <1>f, <1>t DEF Inv, HwSame, WorkerIs, PlugIs, IoIs, AppIs, ServerIs, Linked, Drains,
       Live, Free, B, Playback, PcmTyped, Pointers
  <1>o. Told'
    <2>1. ASSUME smooth', ~Playback, plug.ptr # -1 PROVE Free(plug.ptr) = 0
      <3>1. io.appl = 0 /\ plug.ptr = 0
        BY <1>f, <2>1 DEF Inv, Phases, Linked, Live, WorkerIs
      <3>2. hw.stream # "PLAYBACK" /\ B \in Nat \ {0} /\ 0 \in Ptrs(B)
        BY <2>1, ZeroPointer DEF Inv, PcmTyped, HwTyped, Playback, B, Pointers
      <3> QED
        BY <3>1, <3>2, FillHere DEF Free
    <2>2. smooth' /\ plug.event = {} => plug.ptr # -1 /\ smooth
      BY <1>f DEF Inv, Told, Raising, Phases, Live, Linked, HwSame, WorkerIs, PlugIs, IoIs,
         AppIs, ServerIs
    <2>3. /\ Free(plug.ptr)' = Free(plug.ptr) /\ plug'.ptr = plug.ptr /\ plug'.event = plug.event
          /\ hw'.min = hw.min /\ hw'.buffer = hw.buffer /\ Playback' = Playback
      BY <1>f DEF Free, HwSame, WorkerIs, PlugIs, IoIs, AppIs, ServerIs, Playback, B
    <2>4. hw.min \in Nat \ {0}
      BY DEF Inv, PcmTyped, HwTyped
    <2> QED
      BY <1>f, <2>1, <2>2, <2>3, <2>4 DEF Inv, Told, WaitsForAll, IoIs

  <1>s. Still
    BY <1>f DEF Inv, HwSame, WorkerIs, PlugIs, IoIs, AppIs, ServerIs, Still, Moving, Live,
       Linked, Parking
  <1>b. (smooth => Bounds)'
    BY <1>f, <1>t, <1>p, <1>s, StillBounds DEF AppIs
  <1> QED
    BY <1>t, <1>l, <1>p, <1>h, <1>b, <1>d, <1>s, <1>o, StillPlays, StillRecords DEF Inv

LEMMA ServerPlaysKeeps ==
  ASSUME Inv, ServerPlays
  PROVE  Inv'
  <1>f.
      /\ Playback
      /\ server'.gone = server.gone
      /\ UNCHANGED <<hw, io, plug, worker, app, made, due, smooth>>
    BY DEF Inv, PcmTyped, HwTyped, IoTyped, PlugTyped, WorkerTyped, AppTyped, ServerTyped,
       CountsTyped, ServerPlays, HwSame, WorkerIs, PlugIs, IoIs, AppIs, ServerIs
  <1>t. PcmTyped'
    <2>1. HwTyped' /\ hw'.buffer = hw.buffer
      BY DEF Inv, PcmTyped, HwTyped, ServerPlays, B
    <2>2. Pointers' = Pointers /\ Frames' = Frames /\ B' = B
      BY <2>1 DEF Pointers, Frames, B
    <2>3. IoTyped'
      BY <1>f, <2>2, ZeroPointer DEF Inv, PcmTyped, IoTyped, PlugTyped, States, ServerPlays
    <2>4. PlugTyped'
      BY <1>f, <2>2, ZeroPointer DEF Inv, PcmTyped, PlugTyped, WorkerTyped, ServerPlays
    <2>5. WorkerTyped'
      BY <1>f, <2>2, ZeroPointer DEF Inv, PcmTyped, WorkerTyped, PlugTyped, Labels, ServerPlays
    <2>6. AppTyped' /\ CountsTyped'
      BY <1>f, <2>2 DEF Inv, PcmTyped, AppTyped, CountsTyped, Calling, ServerPlays
    <2>7. ServerTyped'
      <3>1. server' = [server EXCEPT !.fifo = Tail(server.fifo)] /\ server.fifo # << >>
        BY DEF ServerPlays
      <3>2. Tail(server.fifo) \in Seq(Frames) /\ Len(Tail(server.fifo)) <= Fifo
        BY <3>1, FifoTypes DEF Inv, PcmTyped, ServerTyped, Fifo
      <3> QED
        BY <2>2, <3>1, <3>2, FifoSet DEF Inv, PcmTyped
    <2> QED
      BY <2>1, <2>3, <2>4, <2>5, <2>6, <2>7 DEF PcmTyped
  <1>l. Linked'
    BY <1>f DEF Inv, HwSame, WorkerIs, PlugIs, IoIs, AppIs, ServerIs, Linked, Fallen, Parking
  <1>p. Parking'
    BY <1>f DEF Inv, HwSame, WorkerIs, PlugIs, IoIs, AppIs, ServerIs, Linked, Parking, Fallen,
       Playback, MayPause
  <1>h. (smooth => Phases)'
    BY <1>f DEF Inv, HwSame, WorkerIs, PlugIs, IoIs, AppIs, ServerIs, Linked, Parking, Phases,
       Live, Playback
  <1>d. (smooth => Drains)'
    BY <1>f, <1>t DEF Inv, HwSame, WorkerIs, PlugIs, IoIs, AppIs, ServerIs, Linked, Drains,
       Live, Free, B, Playback, PcmTyped, Pointers
  <1>o. Told'
    BY <1>f, <1>t DEF Inv, HwSame, WorkerIs, PlugIs, IoIs, AppIs, ServerIs, Parking, Told,
       Raising, Free, B, WaitsForAll, Playback, PcmTyped, Pointers
  <1>s. Still
    BY <1>f DEF Inv, HwSame, WorkerIs, PlugIs, IoIs, AppIs, ServerIs, Still, Moving, Live,
       Linked, Parking
  <1>b. (smooth => Bounds)'
    BY <1>f, <1>t, <1>p, <1>s, StillBounds DEF AppIs
  <1> QED
    BY <1>t, <1>l, <1>p, <1>h, <1>b, <1>d, <1>s, <1>o, StillPlays, StillRecords DEF Inv

LEMMA ServerGoesKeeps ==
  ASSUME Inv, ServerGoes
  PROVE  Inv'
  <1>f.
      /\ HwSame
      /\ ServerIs(TRUE, server.fifo)
      /\ UNCHANGED <<io, plug, worker, app, made, due, smooth>>
    BY DEF Inv, PcmTyped, HwTyped, IoTyped, PlugTyped, WorkerTyped, AppTyped, ServerTyped,
       CountsTyped, ServerGoes, HwSame, WorkerIs, PlugIs, IoIs, AppIs, ServerIs
  <1>t. PcmTyped'
    <2>1. HwTyped' /\ hw'.buffer = hw.buffer
      BY DEF Inv, PcmTyped, HwTyped, ServerGoes, B
    <2>2. Pointers' = Pointers /\ Frames' = Frames /\ B' = B
      BY <2>1 DEF Pointers, Frames, B
    <2>3. IoTyped'
      BY <1>f, <2>2, ZeroPointer DEF Inv, PcmTyped, IoTyped, PlugTyped, States, ServerGoes
    <2>4. PlugTyped'
      BY <1>f, <2>2, ZeroPointer DEF Inv, PcmTyped, PlugTyped, WorkerTyped, ServerGoes
    <2>5. WorkerTyped'
      BY <1>f, <2>2, ZeroPointer DEF Inv, PcmTyped, WorkerTyped, PlugTyped, Labels, ServerGoes
    <2>6. AppTyped' /\ CountsTyped'
      BY <1>f, <2>2 DEF Inv, PcmTyped, AppTyped, CountsTyped, Calling, ServerGoes
    <2>7. ServerTyped'
      BY <1>f, <2>2, FifoTypes DEF Inv, PcmTyped, ServerTyped, Fifo, ServerGoes
    <2> QED
      BY <2>1, <2>3, <2>4, <2>5, <2>6, <2>7 DEF PcmTyped
  <1>l. Linked'
    BY <1>f DEF Inv, HwSame, WorkerIs, PlugIs, IoIs, AppIs, ServerIs, Linked, Fallen, Parking
  <1>p. Parking'
    BY <1>f DEF Inv, HwSame, WorkerIs, PlugIs, IoIs, AppIs, ServerIs, Linked, Parking, Fallen,
       Playback, MayPause
  <1>h. (smooth => Phases)'
    BY <1>f DEF Inv, HwSame, WorkerIs, PlugIs, IoIs, AppIs, ServerIs, Linked, Parking, Phases,
       Live, Playback
  <1>d. (smooth => Drains)'
    BY <1>f, <1>t DEF Inv, HwSame, WorkerIs, PlugIs, IoIs, AppIs, ServerIs, Linked, Drains,
       Live, Free, B, Playback, PcmTyped, Pointers
  <1>o. Told'
    BY <1>f, <1>t DEF Inv, HwSame, WorkerIs, PlugIs, IoIs, AppIs, ServerIs, Parking, Told,
       Raising, Free, B, WaitsForAll, Playback, PcmTyped, Pointers
  <1>s. Still
    BY <1>f DEF Inv, HwSame, WorkerIs, PlugIs, IoIs, AppIs, ServerIs, Still, Moving, Live,
       Linked, Parking
  <1>b. (smooth => Bounds)'
    BY <1>f, <1>t, <1>p, <1>s, StillBounds DEF AppIs
  <1> QED
    BY <1>t, <1>l, <1>p, <1>h, <1>b, <1>d, <1>s, <1>o, StillPlays, StillRecords DEF Inv

LEMMA WritesKeeps ==
  ASSUME Inv, Writes
  PROVE  Inv'
  <1>f.
      /\ app.pc = "free" /\ Playback /\ io.state \in {"PREPARED", "RUNNING"}
      /\ IoIs((IF plug.ptr = -1 THEN "XRUN" ELSE IF plug.connected THEN io.state ELSE "DISCONNECTED"), io.appl)
      /\ \/ UNCHANGED app
       \/ /\ app'.pc = "writing" /\ app'.woken = app.woken /\ plug.ptr # -1 /\ plug.connected
          /\ Avail(plug.ptr, io.appl) > 0
      /\ UNCHANGED <<hw, plug, worker, server, made, due, smooth>>
    BY DEF Inv, PcmTyped, HwTyped, IoTyped, PlugTyped, WorkerTyped, AppTyped, ServerTyped,
       CountsTyped, Writes, Idle, Transferring, Synced, Drained, Pointed, Room, HwSame,
       WorkerIs, PlugIs, IoIs, AppIs, ServerIs
  <1>t. PcmTyped'
    <2>1. HwTyped' /\ hw'.buffer = hw.buffer
      BY DEF Inv, PcmTyped, HwTyped, Writes, Idle, Transferring, Synced, Drained, Pointed, Room
    <2>2. Pointers' = Pointers /\ Frames' = Frames /\ B' = B
      BY <2>1 DEF Pointers, Frames, B
    <2>3. IoTyped'
      BY <1>f, <2>2, ZeroPointer DEF Inv, PcmTyped, IoTyped, PlugTyped, States, Writes, Idle,
         Transferring, Synced, Drained, Pointed, Room
    <2>4. PlugTyped'
      BY <1>f, <2>2, ZeroPointer DEF Inv, PcmTyped, PlugTyped, WorkerTyped, Writes, Idle,
         Transferring, Synced, Drained, Pointed, Room
    <2>5. WorkerTyped'
      BY <1>f, <2>2, ZeroPointer DEF Inv, PcmTyped, WorkerTyped, PlugTyped, Labels, Writes,
         Idle, Transferring, Synced, Drained, Pointed, Room
    <2>6. AppTyped' /\ CountsTyped'
      BY <1>f, <2>2 DEF Inv, PcmTyped, AppTyped, CountsTyped, Calling, Writes, Idle,
         Transferring, Synced, Drained, Pointed, Room
    <2>7. ServerTyped'
      BY <1>f, <2>2, FifoTypes DEF Inv, PcmTyped, ServerTyped, Fifo, Writes, Idle,
         Transferring, Synced, Drained, Pointed, Room
    <2> QED
      BY <2>1, <2>3, <2>4, <2>5, <2>6, <2>7 DEF PcmTyped
  <1>l. Linked'
    BY <1>f DEF Inv, HwSame, WorkerIs, PlugIs, IoIs, AppIs, ServerIs, Linked, Fallen, Parking
  <1>p. Parking'
    BY <1>f DEF Inv, HwSame, WorkerIs, PlugIs, IoIs, AppIs, ServerIs, Linked, Parking, Fallen,
       Playback, MayPause
  <1>h. (smooth => Phases)'
    BY <1>f DEF Inv, HwSame, WorkerIs, PlugIs, IoIs, AppIs, ServerIs, Linked, Parking, Phases,
       Live, Playback
  <1>d. (smooth => Drains)'
    BY <1>f, <1>t DEF Inv, HwSame, WorkerIs, PlugIs, IoIs, AppIs, ServerIs, Linked, Drains,
       Live, Free, B, Playback, PcmTyped, Pointers
  <1>o. Told'
    BY <1>f, <1>t DEF Inv, HwSame, WorkerIs, PlugIs, IoIs, AppIs, ServerIs, Parking, Told,
       Raising, Free, B, WaitsForAll, Playback, PcmTyped, Pointers
  <1>s. Still
    BY <1>f DEF Inv, HwSame, WorkerIs, PlugIs, IoIs, AppIs, ServerIs, Still, Moving, Live,
       Linked, Parking
  <1>b. (smooth => Bounds)'
    BY <1>f, <1>t, <1>p, <1>s, FreeIs DEF HwSame, WorkerIs, PlugIs, IoIs, AppIs, ServerIs, Inv,
       PcmTyped, PlugTyped, Bounds, Free, B, Live
  <1> QED
    BY <1>t, <1>l, <1>p, <1>h, <1>b, <1>d, <1>s, <1>o, StillPlays, StillRecords DEF Inv

LEMMA PrepareFailsKeeps ==
  ASSUME Inv, Prepare, ~plug.connected
  PROVE  Inv'
  <1>c.
      /\ Command /\ io.state \in {"SETUP", "XRUN"}
      /\ io' = [io EXCEPT !.state = "DISCONNECTED"] /\ UNCHANGED <<plug, server, made, due,
               worker, app, smooth>>
    BY DEF Prepare, Started, CanStart
  <1>f.
      /\ app.pc = "free" /\ io.state \in {"SETUP", "XRUN"}
      /\ HwSame
      /\ IoIs("DISCONNECTED", io.appl)
      /\ UNCHANGED <<plug, server, made, due, worker, app, smooth>>
    BY <1>c DEF Inv, PcmTyped, HwTyped, IoTyped, PlugTyped, WorkerTyped, AppTyped, ServerTyped,
       CountsTyped, Command, Idle, HwSame, WorkerIs, PlugIs, IoIs, AppIs, ServerIs
  <1>t. PcmTyped'
    <2>1. HwTyped' /\ hw'.buffer = hw.buffer
      BY DEF Inv, PcmTyped, HwTyped, Prepare, Command, Idle
    <2>2. Pointers' = Pointers /\ Frames' = Frames /\ B' = B
      BY <2>1 DEF Pointers, Frames, B
    <2>3. IoTyped'
      BY <1>f, <2>2, ZeroPointer , <1>c DEF Inv, PcmTyped, IoTyped, PlugTyped, States, Command,
         Idle
    <2>4. PlugTyped'
      BY <1>f, <2>2, ZeroPointer , <1>c DEF Inv, PcmTyped, PlugTyped, WorkerTyped, Command, Idle
    <2>5. WorkerTyped'
      BY <1>f, <2>2, ZeroPointer , <1>c DEF Inv, PcmTyped, WorkerTyped, PlugTyped, Labels,
         Command, Idle
    <2>6. AppTyped' /\ CountsTyped'
      BY <1>f, <2>2 , <1>c DEF Inv, PcmTyped, AppTyped, CountsTyped, Calling, Command, Idle
    <2>7. ServerTyped'
      BY <1>f, <2>2, FifoTypes , <1>c DEF Inv, PcmTyped, ServerTyped, Fifo, Command, Idle
    <2> QED
      BY <2>1, <2>3, <2>4, <2>5, <2>6, <2>7 DEF PcmTyped
  <1>l. Linked'
    BY <1>f DEF Inv, HwSame, WorkerIs, PlugIs, IoIs, AppIs, ServerIs, Linked, Fallen, Parking
  <1>p. Parking'
    BY <1>f DEF Inv, HwSame, WorkerIs, PlugIs, IoIs, AppIs, ServerIs, Linked, Parking, Fallen,
       Playback, MayPause
  <1>h. (smooth => Phases)'
    BY <1>f DEF Inv, HwSame, WorkerIs, PlugIs, IoIs, AppIs, ServerIs, Linked, Parking, Phases,
       Live, Playback
  <1>d. (smooth => Drains)'
    BY <1>f, <1>t DEF Inv, HwSame, WorkerIs, PlugIs, IoIs, AppIs, ServerIs, Linked, Drains,
       Live, Free, B, Playback, PcmTyped, Pointers
  <1>o. Told'
    BY <1>f, <1>t DEF Inv, HwSame, WorkerIs, PlugIs, IoIs, AppIs, ServerIs, Parking, Told,
       Raising, Free, B, WaitsForAll, Playback, PcmTyped, Pointers
  <1>s. Still
    BY <1>f DEF Inv, HwSame, WorkerIs, PlugIs, IoIs, AppIs, ServerIs, Still, Moving, Live,
       Linked, Parking
  <1>b. (smooth => Bounds)'
    BY <1>f, <1>t, <1>p, <1>s, StillBounds DEF AppIs
  <1> QED
    BY <1>t, <1>l, <1>p, <1>h, <1>b, <1>d, <1>s, <1>o, StillPlays, StillRecords DEF Inv

LEMMA Poll1Keeps ==
  ASSUME Inv, Poll, ~plug.connected \/ "dead" \in plug.event
  PROVE  Inv'
  <1>c.
      /\ Idle /\ io.state \notin {"OPEN", "DISCONNECTED"}
      /\ io' = [io EXCEPT !.state = "DISCONNECTED"] /\ UNCHANGED <<plug, worker, server, hw,
               app, made, due, smooth>>
    BY DEF Poll, Started, CanStart
  <1>f.
      /\ app.pc = "free" /\ io.state \notin {"OPEN", "DISCONNECTED"}
      /\ IoIs("DISCONNECTED", io.appl)
      /\ UNCHANGED <<hw, plug, worker, server, app, made, due, smooth>>
    BY <1>c DEF Inv, PcmTyped, HwTyped, IoTyped, PlugTyped, WorkerTyped, AppTyped, ServerTyped,
       CountsTyped, Idle, HwSame, WorkerIs, PlugIs, IoIs, AppIs, ServerIs
  <1>t. PcmTyped'
    <2>1. HwTyped' /\ hw'.buffer = hw.buffer
      BY DEF Inv, PcmTyped, HwTyped, Poll, Idle
    <2>2. Pointers' = Pointers /\ Frames' = Frames /\ B' = B
      BY <2>1 DEF Pointers, Frames, B
    <2>3. IoTyped'
      BY <1>f, <2>2, ZeroPointer , <1>c DEF Inv, PcmTyped, IoTyped, PlugTyped, States, Idle
    <2>4. PlugTyped'
      BY <1>f, <2>2, ZeroPointer , <1>c DEF Inv, PcmTyped, PlugTyped, WorkerTyped, Idle
    <2>5. WorkerTyped'
      BY <1>f, <2>2, ZeroPointer , <1>c DEF Inv, PcmTyped, WorkerTyped, PlugTyped, Labels, Idle
    <2>6. AppTyped' /\ CountsTyped'
      BY <1>f, <2>2 , <1>c DEF Inv, PcmTyped, AppTyped, CountsTyped, Calling, Idle
    <2>7. ServerTyped'
      BY <1>f, <2>2, FifoTypes , <1>c DEF Inv, PcmTyped, ServerTyped, Fifo, Idle
    <2> QED
      BY <2>1, <2>3, <2>4, <2>5, <2>6, <2>7 DEF PcmTyped
  <1>l. Linked'
    BY <1>f DEF Inv, HwSame, WorkerIs, PlugIs, IoIs, AppIs, ServerIs, Linked, Fallen, Parking
  <1>p. Parking'
    BY <1>f DEF Inv, HwSame, WorkerIs, PlugIs, IoIs, AppIs, ServerIs, Linked, Parking, Fallen,
       Playback, MayPause
  <1>h. (smooth => Phases)'
    BY <1>f DEF Inv, HwSame, WorkerIs, PlugIs, IoIs, AppIs, ServerIs, Linked, Parking, Phases,
       Live, Playback
  <1>d. (smooth => Drains)'
    BY <1>f, <1>t DEF Inv, HwSame, WorkerIs, PlugIs, IoIs, AppIs, ServerIs, Linked, Drains,
       Live, Free, B, Playback, PcmTyped, Pointers
  <1>o. Told'
    BY <1>f, <1>t DEF Inv, HwSame, WorkerIs, PlugIs, IoIs, AppIs, ServerIs, Parking, Told,
       Raising, Free, B, WaitsForAll, Playback, PcmTyped, Pointers
  <1>s. Still
    BY <1>f DEF Inv, HwSame, WorkerIs, PlugIs, IoIs, AppIs, ServerIs, Still, Moving, Live,
       Linked, Parking
  <1>b. (smooth => Bounds)'
    BY <1>f, <1>t, <1>p, <1>s, StillBounds DEF AppIs
  <1> QED
    BY <1>t, <1>l, <1>p, <1>h, <1>b, <1>d, <1>s, <1>o, StillPlays, StillRecords DEF Inv

LEMMA Poll2Keeps ==
  ASSUME Inv, Poll, ~(~plug.connected \/ "dead" \in plug.event), Drained(io.state)
  PROVE  Inv'
  <1>c.
      /\ Idle
      /\ io' = Synced
      /\ StopStream([plug EXCEPT !.event = {}], server)
      /\ UNCHANGED <<hw, app, made, due, smooth>>
    BY DEF Poll, Started, CanStart
  <1>f.
      /\ app.pc = "free" /\ io.state = "DRAINING"
      /\ WorkerIs("none", 0, 0, 0, 0, FALSE)
      /\ PlugIs(0, plug.pause, plug.connected, (IF server.gone THEN {} ELSE {"frames"}), FALSE, plug.ring)
      /\ IoIs("SETUP", io.appl)
      /\ server'.gone = server.gone
      /\ UNCHANGED <<hw, app, made, due, smooth>>
    BY <1>c DEF Inv, PcmTyped, HwTyped, IoTyped, PlugTyped, WorkerTyped, AppTyped, ServerTyped,
       CountsTyped, Idle, Synced, Drained, Pointed, StopStream, NoWorker, HwSame, WorkerIs,
       PlugIs, IoIs, AppIs, ServerIs
  <1>t. PcmTyped'
    <2>1. HwTyped' /\ hw'.buffer = hw.buffer
      BY DEF Inv, PcmTyped, HwTyped, Poll, Idle, Synced, Drained, Pointed, StopStream, NoWorker
    <2>2. Pointers' = Pointers /\ Frames' = Frames /\ B' = B
      BY <2>1 DEF Pointers, Frames, B
    <2>3. IoTyped'
      BY <1>f, <2>2, ZeroPointer , <1>c DEF Inv, PcmTyped, IoTyped, PlugTyped, States, Idle,
         Synced, Drained, Pointed, StopStream, NoWorker
    <2>4. PlugTyped'
      BY <1>f, <2>2, ZeroPointer , <1>c DEF Inv, PcmTyped, PlugTyped, WorkerTyped, Idle,
         Synced, Drained, Pointed, StopStream, NoWorker
    <2>5. WorkerTyped'
      BY <1>f, <2>2, ZeroPointer , <1>c DEF Inv, PcmTyped, WorkerTyped, PlugTyped, Labels,
         Idle, Synced, Drained, Pointed, StopStream, NoWorker
    <2>6. AppTyped' /\ CountsTyped'
      BY <1>f, <2>2 , <1>c DEF Inv, PcmTyped, AppTyped, CountsTyped, Calling, Idle, Synced,
         Drained, Pointed, StopStream, NoWorker
    <2>7. ServerTyped'
      BY <1>c, <2>2, FifoStops DEF Inv, PcmTyped
    <2> QED
      BY <2>1, <2>3, <2>4, <2>5, <2>6, <2>7 DEF PcmTyped
  <1>l. Linked'
    BY <1>f DEF Inv, HwSame, WorkerIs, PlugIs, IoIs, AppIs, ServerIs, Linked, Fallen, Parking
  <1>p. Parking'
    BY <1>f DEF Inv, HwSame, WorkerIs, PlugIs, IoIs, AppIs, ServerIs, Linked, Parking, Fallen,
       Playback, MayPause
  <1>h. (smooth => Phases)'
    BY <1>f DEF Inv, HwSame, WorkerIs, PlugIs, IoIs, AppIs, ServerIs, Linked, Parking, Phases,
       Live, Playback
  <1>d. (smooth => Drains)'
    BY <1>f, <1>t DEF Inv, HwSame, WorkerIs, PlugIs, IoIs, AppIs, ServerIs, Linked, Drains,
       Live, Free, B, Playback, PcmTyped, Pointers
  <1>o. Told'
    BY <1>f, <1>t DEF Inv, HwSame, WorkerIs, PlugIs, IoIs, AppIs, ServerIs, Parking, Told,
       Raising, Free, B, WaitsForAll, Playback, PcmTyped, Pointers
  <1>s. Still
    BY <1>f DEF Inv, HwSame, WorkerIs, PlugIs, IoIs, AppIs, ServerIs, Still, Moving, Live,
       Linked, Parking
  <1>b. (smooth => Bounds)'
    BY <1>f, <1>t, <1>p, <1>s, StillBounds DEF AppIs
  <1> QED
    BY <1>t, <1>l, <1>p, <1>h, <1>b, <1>d, <1>s, <1>o, StillPlays, StillRecords DEF Inv

LEMMA Poll3Keeps ==
  ASSUME Inv, Poll, ~(~plug.connected \/ "dead" \in plug.event), ~Drained(io.state)
  PROVE  Inv'
  <1>c.
      /\ Idle /\ io.state \notin {"OPEN", "DISCONNECTED"}
      /\ io' = Synced
      /\ plug' = [plug EXCEPT !.event = IF Ready THEN {"frames"} ELSE {}]
      /\ UNCHANGED <<worker, server, hw, app, made, due, smooth>>
    BY DEF Poll, Started, CanStart
  <1>f.
      /\ app.pc = "free" /\ io.state \notin {"OPEN", "DISCONNECTED"}
      /\ IoIs((IF plug.ptr = -1 THEN "XRUN" ELSE io.state), io.appl)
      /\ PlugIs(plug.ptr, plug.pause, plug.connected, (IF Ready THEN {"frames"} ELSE {}), plug.started, plug.ring)
      /\ UNCHANGED <<hw, worker, server, app, made, due, smooth>>
    BY <1>c DEF Inv, PcmTyped, HwTyped, IoTyped, PlugTyped, WorkerTyped, AppTyped, ServerTyped,
       CountsTyped, Idle, Synced, Drained, Pointed, StopStream, NoWorker, Synced, Drained,
       Pointed, HwSame, WorkerIs, PlugIs, IoIs, AppIs, ServerIs
  <1>t. PcmTyped'
    <2>1. HwTyped' /\ hw'.buffer = hw.buffer
      BY DEF Inv, PcmTyped, HwTyped, Poll, Idle, Synced, Drained, Pointed, StopStream,
         NoWorker, Synced, Drained, Pointed
    <2>2. Pointers' = Pointers /\ Frames' = Frames /\ B' = B
      BY <2>1 DEF Pointers, Frames, B
    <2>3. IoTyped'
      BY <1>f, <2>2, ZeroPointer , <1>c DEF Inv, PcmTyped, IoTyped, PlugTyped, States, Idle,
         Synced, Drained, Pointed, StopStream, NoWorker, Synced, Drained, Pointed
    <2>4. PlugTyped'
      BY <1>f, <2>2, ZeroPointer , <1>c DEF Inv, PcmTyped, PlugTyped, WorkerTyped, Idle,
         Synced, Drained, Pointed, StopStream, NoWorker, Synced, Drained, Pointed
    <2>5. WorkerTyped'
      BY <1>f, <2>2, ZeroPointer , <1>c DEF Inv, PcmTyped, WorkerTyped, PlugTyped, Labels,
         Idle, Synced, Drained, Pointed, StopStream, NoWorker, Synced, Drained, Pointed
    <2>6. AppTyped' /\ CountsTyped'
      BY <1>f, <2>2 , <1>c DEF Inv, PcmTyped, AppTyped, CountsTyped, Calling, Idle, Synced,
         Drained, Pointed, StopStream, NoWorker, Synced, Drained, Pointed
    <2>7. ServerTyped'
      BY <1>f, <2>2, FifoTypes , <1>c DEF Inv, PcmTyped, ServerTyped, Fifo, Idle, Synced,
         Drained, Pointed, StopStream, NoWorker, Synced, Drained, Pointed
    <2> QED
      BY <2>1, <2>3, <2>4, <2>5, <2>6, <2>7 DEF PcmTyped
  <1>l. Linked'
    BY <1>f DEF Inv, HwSame, WorkerIs, PlugIs, IoIs, AppIs, ServerIs, Linked, Fallen, Parking
  <1>p. Parking'
    BY <1>f DEF Inv, HwSame, WorkerIs, PlugIs, IoIs, AppIs, ServerIs, Linked, Parking, Fallen,
       Playback, MayPause
  <1>h. (smooth => Phases)'
    BY <1>f DEF Inv, HwSame, WorkerIs, PlugIs, IoIs, AppIs, ServerIs, Linked, Parking, Phases,
       Live, Playback
  <1>d. (smooth => Drains)'
    BY <1>f, <1>t DEF Inv, HwSame, WorkerIs, PlugIs, IoIs, AppIs, ServerIs, Linked, Drains,
       Live, Free, B, Playback, PcmTyped, Pointers
  <1>o. Told'
    <2>1. io'.state = Synced.state /\ (plug'.event = {} => ~Ready)
      BY <1>c DEF Inv, PcmTyped, PlugTyped
    <2>2. ~Ready => /\ io'.state \notin {"PAUSED", "XRUN"}
                    /\ io'.state = "PREPARED" => ~Playback
                    /\ io'.state = "RUNNING" => ~(Room >= hw.min)
      BY <2>1 DEF Ready
    <2>3. plug.ptr # -1 => Synced.seen = plug.ptr /\ plug.ptr \in Pointers
      BY DEF Inv, PcmTyped, IoTyped, PlugTyped, Synced
    <2>4. plug.ptr # -1 => Room = Free(plug.ptr) /\ Free(plug.ptr) \in Nat /\ hw.min \in Nat
      BY <2>3, FreeIs DEF Inv, PcmTyped, HwTyped, Room
    <2>5. io.state = "DRAINING" /\ plug.ptr # -1 => Free(plug.ptr) < B /\ plug.ptr # -1
      BY <2>3, FreeIs DEF Inv, PcmTyped, Drained, B
    <2>6. /\ Free(plug.ptr)' = Free(plug.ptr) /\ plug'.ptr = plug.ptr
          /\ hw'.min = hw.min /\ B' = B /\ Playback' = Playback
      BY <1>f DEF Free, HwSame, WorkerIs, PlugIs, IoIs, AppIs, ServerIs, Playback, B
    <2>7. io'.state \in {"PREPARED", "RUNNING", "DRAINING"} => plug.ptr # -1 /\ io'.state = io.state
      BY <1>f DEF IoIs
    <2> QED
      BY <2>1, <2>2, <2>4, <2>5, <2>6, <2>7 DEF Told

  <1>s. Still
    BY <1>f DEF Inv, HwSame, WorkerIs, PlugIs, IoIs, AppIs, ServerIs, Still, Moving, Live,
       Linked, Parking
  <1>b. (smooth => Bounds)'
    BY <1>f, <1>t, <1>p, <1>s, StillBounds DEF AppIs
  <1> QED
    BY <1>t, <1>l, <1>p, <1>h, <1>b, <1>d, <1>s, <1>o, StillPlays, StillRecords DEF Inv

LEMMA Drain1Keeps ==
  ASSUME Inv, NEW block \in BOOLEAN, Drain(block), ~plug.connected
  PROVE  Inv'
  <1>c.
      /\ Playback /\ Command /\ io.state \in {"PREPARED", "RUNNING"}
      /\ smooth' = (smooth /\ plug.ptr # -1 /\ ~WorkerAt("xrun"))
      /\ UNCHANGED <<made, due>>
      /\ io' = [io EXCEPT !.state = "DISCONNECTED"] /\ UNCHANGED <<plug, worker, server, app>>
    BY DEF Drain, Started, CanStart
  <1>f.
      /\ app.pc = "free" /\ Playback /\ io.state \in {"PREPARED", "RUNNING"}
      /\ HwSame
      /\ IoIs("DISCONNECTED", io.appl)
      /\ UNCHANGED <<plug, worker, server, app, made, due>>
      /\ (smooth' => smooth)
    BY <1>c DEF Inv, PcmTyped, HwTyped, IoTyped, PlugTyped, WorkerTyped, AppTyped, ServerTyped,
       CountsTyped, Command, Idle, WorkerAt, HwSame, WorkerIs, PlugIs, IoIs, AppIs, ServerIs
  <1>t. PcmTyped'
    <2>1. HwTyped' /\ hw'.buffer = hw.buffer
      BY DEF Inv, PcmTyped, HwTyped, Drain, Command, Idle, WorkerAt
    <2>2. Pointers' = Pointers /\ Frames' = Frames /\ B' = B
      BY <2>1 DEF Pointers, Frames, B
    <2>3. IoTyped'
      BY <1>f, <2>2, ZeroPointer , <1>c DEF Inv, PcmTyped, IoTyped, PlugTyped, States, Command,
         Idle, WorkerAt
    <2>4. PlugTyped'
      BY <1>f, <2>2, ZeroPointer , <1>c DEF Inv, PcmTyped, PlugTyped, WorkerTyped, Command,
         Idle, WorkerAt
    <2>5. WorkerTyped'
      BY <1>f, <2>2, ZeroPointer , <1>c DEF Inv, PcmTyped, WorkerTyped, PlugTyped, Labels,
         Command, Idle, WorkerAt
    <2>6. AppTyped' /\ CountsTyped'
      BY <1>f, <2>2 , <1>c DEF Inv, PcmTyped, AppTyped, CountsTyped, Calling, Command, Idle,
         WorkerAt
    <2>7. ServerTyped'
      BY <1>f, <2>2, FifoTypes , <1>c DEF Inv, PcmTyped, ServerTyped, Fifo, Command, Idle,
         WorkerAt
    <2> QED
      BY <2>1, <2>3, <2>4, <2>5, <2>6, <2>7 DEF PcmTyped
  <1>l. Linked'
    BY <1>f DEF Inv, HwSame, WorkerIs, PlugIs, IoIs, AppIs, ServerIs, Linked, Fallen, Parking
  <1>p. Parking'
    BY <1>f DEF Inv, HwSame, WorkerIs, PlugIs, IoIs, AppIs, ServerIs, Linked, Parking, Fallen,
       Playback, MayPause
  <1>h. (smooth => Phases)'
    BY <1>f DEF Inv, HwSame, WorkerIs, PlugIs, IoIs, AppIs, ServerIs, Linked, Parking, Phases,
       Live, Playback
  <1>d. (smooth => Drains)'
    BY <1>f, <1>t DEF Inv, HwSame, WorkerIs, PlugIs, IoIs, AppIs, ServerIs, Linked, Drains,
       Live, Free, B, Playback, PcmTyped, Pointers
  <1>o. Told'
    BY <1>f, <1>t DEF Inv, HwSame, WorkerIs, PlugIs, IoIs, AppIs, ServerIs, Parking, Told,
       Raising, Free, B, WaitsForAll, Playback, PcmTyped, Pointers
  <1>s. Still
    BY <1>f DEF Inv, HwSame, WorkerIs, PlugIs, IoIs, AppIs, ServerIs, Still, Moving, Live,
       Linked, Parking
  <1>b. (smooth => Bounds)'
    BY <1>f, <1>t, <1>p, <1>s, StillBounds DEF AppIs
  <1> QED
    BY <1>t, <1>l, <1>p, <1>h, <1>b, <1>d, <1>s, <1>o, StillPlays, StillRecords DEF Inv

LEMMA Drain2Keeps ==
  ASSUME Inv, NEW block \in BOOLEAN, Drain(block), plug.connected, plug.started
  PROVE  Inv'
  <1>c.
      /\ Playback /\ Command /\ io.state \in {"PREPARED", "RUNNING"}
      /\ smooth' = (smooth /\ plug.ptr # -1 /\ ~WorkerAt("xrun"))
      /\ UNCHANGED <<made, due>>
      /\ Signal /\ UNCHANGED <<plug, server>>
      /\ io' = [io EXCEPT !.state = "DRAINING"]
      /\ app' = [app EXCEPT !.pc = IF block THEN "draining" ELSE "free"]
    BY DEF Drain, Started, CanStart
  <1>f.
      /\ app.pc = "free" /\ Playback /\ io.state \in {"PREPARED", "RUNNING"}
      /\ HwSame
      /\ IoIs("DRAINING", io.appl)
      /\ WorkerIs(worker.pc, worker.ptr, worker.off, worker.left, worker.room, TRUE)
      /\ app'.pc \in {"draining", "free"}
      /\ UNCHANGED <<plug, server, made, due>>
      /\ smooth' = (smooth /\ plug.ptr # -1 /\ worker.pc # "xrun")
    BY <1>c DEF Inv, PcmTyped, HwTyped, IoTyped, PlugTyped, WorkerTyped, AppTyped, ServerTyped,
       CountsTyped, Command, Idle, WorkerAt, WorkerAt, Signal, HwSame, WorkerIs, PlugIs, IoIs,
       AppIs, ServerIs
  <1>t. PcmTyped'
    <2>1. HwTyped' /\ hw'.buffer = hw.buffer
      BY DEF Inv, PcmTyped, HwTyped, Drain, Command, Idle, WorkerAt, WorkerAt, Signal
    <2>2. Pointers' = Pointers /\ Frames' = Frames /\ B' = B
      BY <2>1 DEF Pointers, Frames, B
    <2>3. IoTyped'
      BY <1>f, <2>2, ZeroPointer , <1>c DEF Inv, PcmTyped, IoTyped, PlugTyped, States, Command,
         Idle, WorkerAt, WorkerAt, Signal
    <2>4. PlugTyped'
      BY <1>f, <2>2, ZeroPointer , <1>c DEF Inv, PcmTyped, PlugTyped, WorkerTyped, Command,
         Idle, WorkerAt, WorkerAt, Signal
    <2>5. WorkerTyped'
      BY <1>f, <2>2, ZeroPointer , <1>c DEF Inv, PcmTyped, WorkerTyped, PlugTyped, Labels,
         Command, Idle, WorkerAt, WorkerAt, Signal
    <2>6. AppTyped' /\ CountsTyped'
      BY <1>f, <2>2 , <1>c DEF Inv, PcmTyped, AppTyped, CountsTyped, Calling, Command, Idle,
         WorkerAt, WorkerAt, Signal
    <2>7. ServerTyped'
      BY <1>f, <2>2, FifoTypes , <1>c DEF Inv, PcmTyped, ServerTyped, Fifo, Command, Idle,
         WorkerAt, WorkerAt, Signal
    <2> QED
      BY <2>1, <2>3, <2>4, <2>5, <2>6, <2>7 DEF PcmTyped
  <1>l. Linked'
    BY <1>f DEF Inv, HwSame, WorkerIs, PlugIs, IoIs, AppIs, ServerIs, Linked, Fallen, Parking
  <1>p. Parking'
    BY <1>f DEF Inv, HwSame, WorkerIs, PlugIs, IoIs, AppIs, ServerIs, Linked, Parking, Fallen,
       Playback, MayPause
  <1>h. (smooth => Phases)'
    BY <1>f DEF Inv, HwSame, WorkerIs, PlugIs, IoIs, AppIs, ServerIs, Linked, Parking, Phases,
       Live, Playback
  <1>d. (smooth => Drains)'
    BY <1>f, <1>t DEF Inv, HwSame, WorkerIs, PlugIs, IoIs, AppIs, ServerIs, Linked, Drains,
       Live, Free, B, Playback, PcmTyped, Pointers
  <1>o. Told'
    <2>1. /\ Free(plug.ptr)' = Free(plug.ptr) /\ plug'.ptr = plug.ptr /\ plug'.event = plug.event
          /\ hw'.min = hw.min /\ hw'.buffer = hw.buffer
      BY <1>f DEF Free, HwSame, WorkerIs, PlugIs, IoIs, AppIs, ServerIs, B
    <2>2. ASSUME smooth', plug.event = {}, ~Raising' PROVE WaitsForAll \/ Free(plug.ptr) < B
      <3>1. ~Raising /\ smooth
        BY <1>f, <2>2 DEF Inv, Linked, Raising, WorkerIs
      <3>2. plug.ptr # -1 => Free(plug.ptr) \in Nat /\ hw.min \in Nat /\ hw.buffer \in Nat
        BY FreeIs DEF Inv, PcmTyped, HwTyped, PlugTyped
      <3> QED
        BY <1>f, <2>2, <3>1, <3>2 DEF Inv, Told, WaitsForAll, B
    <2> QED
      BY <1>f, <2>1, <2>2 DEF Told, WaitsForAll, B, IoIs

  <1>s. Still
    BY <1>f DEF Inv, HwSame, WorkerIs, PlugIs, IoIs, AppIs, ServerIs, Still, Moving, Live,
       Linked, Parking
  <1>b. (smooth => Bounds)'
    BY <1>f, <1>t, <1>p, <1>s, StillBounds DEF AppIs
  <1> QED
    BY <1>t, <1>l, <1>p, <1>h, <1>b, <1>d, <1>s, <1>o, StillPlays, StillRecords DEF Inv

LEMMA Drain3Keeps ==
  ASSUME Inv, NEW block \in BOOLEAN, Drain(block), plug.connected, ~plug.started, ~server.gone
  PROVE  Inv'
  <1>c.
      /\ Playback /\ Command /\ io.state \in {"PREPARED", "RUNNING"}
      /\ smooth' = (smooth /\ plug.ptr # -1 /\ ~WorkerAt("xrun"))
      /\ UNCHANGED <<made, due>>
      /\ server' = [server EXCEPT !.paused = FALSE]
      /\ plug' = [plug EXCEPT !.started = TRUE]
      /\ worker' = [NoWorker EXCEPT !.pc = "check", !.ptr = plug.ptr]
      /\ io' = [io EXCEPT !.state = "DRAINING"]
      /\ app' = [app EXCEPT !.pc = IF block THEN "draining" ELSE "free"]
    BY DEF Drain, Started, CanStart
  <1>f.
      /\ app.pc = "free" /\ Playback /\ io.state \in {"PREPARED", "RUNNING"}
      /\ HwSame
      /\ IoIs("DRAINING", io.appl)
      /\ WorkerIs("check", plug.ptr, 0, 0, 0, FALSE)
      /\ PlugIs(plug.ptr, plug.pause, plug.connected, plug.event, TRUE, plug.ring)
      /\ ServerIs(server.gone, server.fifo)
      /\ app'.pc \in {"draining", "free"}
      /\ UNCHANGED <<made, due>>
      /\ smooth' = (smooth /\ plug.ptr # -1 /\ worker.pc # "xrun")
    BY <1>c DEF Inv, PcmTyped, HwTyped, IoTyped, PlugTyped, WorkerTyped, AppTyped, ServerTyped,
       CountsTyped, Command, Idle, WorkerAt, WorkerAt, Signal, WorkerAt, NoWorker, HwSame,
       WorkerIs, PlugIs, IoIs, AppIs, ServerIs
  <1>t. PcmTyped'
    <2>1. HwTyped' /\ hw'.buffer = hw.buffer
      BY DEF Inv, PcmTyped, HwTyped, Drain, Command, Idle, WorkerAt, WorkerAt, Signal,
         WorkerAt, NoWorker
    <2>2. Pointers' = Pointers /\ Frames' = Frames /\ B' = B
      BY <2>1 DEF Pointers, Frames, B
    <2>3. IoTyped'
      BY <1>f, <2>2, ZeroPointer , <1>c DEF Inv, PcmTyped, IoTyped, PlugTyped, States, Command,
         Idle, WorkerAt, WorkerAt, Signal, WorkerAt, NoWorker
    <2>4. PlugTyped'
      BY <1>f, <2>2, ZeroPointer , <1>c DEF Inv, PcmTyped, PlugTyped, WorkerTyped, Command,
         Idle, WorkerAt, WorkerAt, Signal, WorkerAt, NoWorker
    <2>5. WorkerTyped'
      <3>1. worker' = [pc |-> "check", ptr |-> plug.ptr, off |-> 0, left |-> 0, room |-> 0,
                  sig |-> FALSE]
        BY <1>c DEF NoWorker
      <3>2. plug.ptr \in Pointers \cup {-1} /\ 0 \in 0 .. B - 1
        BY ZeroPointer DEF Inv, PcmTyped, PlugTyped
      <3> QED
        BY <2>2, <3>1, <3>2 DEF WorkerTyped, Labels
    <2>6. AppTyped' /\ CountsTyped'
      BY <1>f, <2>2 , <1>c DEF Inv, PcmTyped, AppTyped, CountsTyped, Calling, Command, Idle,
         WorkerAt, WorkerAt, Signal, WorkerAt, NoWorker
    <2>7. ServerTyped'
      BY <1>f, <2>2, FifoTypes , <1>c DEF Inv, PcmTyped, ServerTyped, Fifo, Command, Idle,
         WorkerAt, WorkerAt, Signal, WorkerAt, NoWorker
    <2> QED
      BY <2>1, <2>3, <2>4, <2>5, <2>6, <2>7 DEF PcmTyped
  <1>l. Linked'
    BY <1>f DEF Inv, HwSame, WorkerIs, PlugIs, IoIs, AppIs, ServerIs, Linked, Fallen, Parking
  <1>p. Parking'
    BY <1>f DEF Inv, HwSame, WorkerIs, PlugIs, IoIs, AppIs, ServerIs, Linked, Parking, Fallen,
       Playback, MayPause
  <1>h. (smooth => Phases)'
    BY <1>f DEF Inv, HwSame, WorkerIs, PlugIs, IoIs, AppIs, ServerIs, Linked, Parking, Phases,
       Live, Playback
  <1>d. (smooth => Drains)'
    BY <1>f, <1>t DEF Inv, HwSame, WorkerIs, PlugIs, IoIs, AppIs, ServerIs, Linked, Drains,
       Live, Free, B, Playback, PcmTyped, Pointers
  <1>o. Told'
    <2>1. /\ Free(plug.ptr)' = Free(plug.ptr) /\ plug'.ptr = plug.ptr /\ plug'.event = plug.event
          /\ hw'.min = hw.min /\ hw'.buffer = hw.buffer
      BY <1>f DEF Free, HwSame, WorkerIs, PlugIs, IoIs, AppIs, ServerIs, B
    <2>2. ASSUME smooth', plug.event = {}, ~Raising' PROVE WaitsForAll \/ Free(plug.ptr) < B
      <3>1. ~Raising /\ smooth
        BY <1>f, <2>2 DEF Inv, Linked, Raising, WorkerIs
      <3>2. plug.ptr # -1 => Free(plug.ptr) \in Nat /\ hw.min \in Nat /\ hw.buffer \in Nat
        BY FreeIs DEF Inv, PcmTyped, HwTyped, PlugTyped
      <3> QED
        BY <1>f, <2>2, <3>1, <3>2 DEF Inv, Told, WaitsForAll, B
    <2> QED
      BY <1>f, <2>1, <2>2 DEF Told, WaitsForAll, B, IoIs

  <1>s. Still
    BY <1>f DEF Inv, HwSame, WorkerIs, PlugIs, IoIs, AppIs, ServerIs, Still, Moving, Live,
       Linked, Parking
  <1>b. (smooth => Bounds)'
    BY <1>f, <1>t, <1>p, <1>s, StillBounds DEF AppIs
  <1> QED
    BY <1>t, <1>l, <1>p, <1>h, <1>b, <1>d, <1>s, <1>o, StillPlays, StillRecords DEF Inv

LEMMA Drain4Keeps ==
  ASSUME Inv, NEW block \in BOOLEAN, Drain(block), plug.connected, ~plug.started, server.gone
  PROVE  Inv'
  <1>c.
      /\ Playback /\ Command /\ io.state \in {"PREPARED", "RUNNING"}
      /\ smooth' = (smooth /\ plug.ptr # -1 /\ ~WorkerAt("xrun"))
      /\ UNCHANGED <<made, due>>
      /\ StopStream(plug, server)
      /\ io' = [io EXCEPT !.state = "SETUP"] /\ UNCHANGED app
    BY DEF Drain, Started, CanStart
  <1>f.
      /\ app.pc = "free" /\ Playback /\ io.state \in {"PREPARED", "RUNNING"}
      /\ HwSame
      /\ UNCHANGED <<app, made, due>>
      /\ (smooth' => smooth)
      /\ WorkerIs("none", 0, 0, 0, 0, FALSE)
      /\ PlugIs(0, plug.pause, plug.connected, (IF server.gone THEN plug.event ELSE plug.event \cup {"frames"}), FALSE, plug.ring)
      /\ IoIs("SETUP", io.appl)
      /\ server'.gone = server.gone
    BY <1>c DEF Inv, PcmTyped, HwTyped, IoTyped, PlugTyped, WorkerTyped, AppTyped, ServerTyped,
       CountsTyped, Command, Idle, WorkerAt, WorkerAt, Signal, WorkerAt, NoWorker, WorkerAt,
       StopStream, NoWorker, HwSame, WorkerIs, PlugIs, IoIs, AppIs, ServerIs
  <1>t. PcmTyped'
    <2>1. HwTyped' /\ hw'.buffer = hw.buffer
      BY DEF Inv, PcmTyped, HwTyped, Drain, Command, Idle, WorkerAt, WorkerAt, Signal,
         WorkerAt, NoWorker, WorkerAt, StopStream, NoWorker
    <2>2. Pointers' = Pointers /\ Frames' = Frames /\ B' = B
      BY <2>1 DEF Pointers, Frames, B
    <2>3. IoTyped'
      BY <1>f, <2>2, ZeroPointer , <1>c DEF Inv, PcmTyped, IoTyped, PlugTyped, States, Command,
         Idle, WorkerAt, WorkerAt, Signal, WorkerAt, NoWorker, WorkerAt, StopStream, NoWorker
    <2>4. PlugTyped'
      BY <1>f, <2>2, ZeroPointer , <1>c DEF Inv, PcmTyped, PlugTyped, WorkerTyped, Command,
         Idle, WorkerAt, WorkerAt, Signal, WorkerAt, NoWorker, WorkerAt, StopStream, NoWorker
    <2>5. WorkerTyped'
      BY <1>f, <2>2, ZeroPointer , <1>c DEF Inv, PcmTyped, WorkerTyped, PlugTyped, Labels,
         Command, Idle, WorkerAt, WorkerAt, Signal, WorkerAt, NoWorker, WorkerAt, StopStream,
         NoWorker
    <2>6. AppTyped' /\ CountsTyped'
      BY <1>f, <2>2 , <1>c DEF Inv, PcmTyped, AppTyped, CountsTyped, Calling, Command, Idle,
         WorkerAt, WorkerAt, Signal, WorkerAt, NoWorker, WorkerAt, StopStream, NoWorker
    <2>7. ServerTyped'
      BY <1>c, <2>2, FifoStops DEF Inv, PcmTyped
    <2> QED
      BY <2>1, <2>3, <2>4, <2>5, <2>6, <2>7 DEF PcmTyped
  <1>l. Linked'
    BY <1>f DEF Inv, HwSame, WorkerIs, PlugIs, IoIs, AppIs, ServerIs, Linked, Fallen, Parking
  <1>p. Parking'
    BY <1>f DEF Inv, HwSame, WorkerIs, PlugIs, IoIs, AppIs, ServerIs, Linked, Parking, Fallen,
       Playback, MayPause
  <1>h. (smooth => Phases)'
    BY <1>f DEF Inv, HwSame, WorkerIs, PlugIs, IoIs, AppIs, ServerIs, Linked, Parking, Phases,
       Live, Playback
  <1>d. (smooth => Drains)'
    BY <1>f, <1>t DEF Inv, HwSame, WorkerIs, PlugIs, IoIs, AppIs, ServerIs, Linked, Drains,
       Live, Free, B, Playback, PcmTyped, Pointers
  <1>o. Told'
    BY <1>f, <1>t DEF Inv, HwSame, WorkerIs, PlugIs, IoIs, AppIs, ServerIs, Parking, Told,
       Raising, Free, B, WaitsForAll, Playback, PcmTyped, Pointers
  <1>s. Still
    BY <1>f DEF Inv, HwSame, WorkerIs, PlugIs, IoIs, AppIs, ServerIs, Still, Moving, Live,
       Linked, Parking
  <1>b. (smooth => Bounds)'
    BY <1>f, <1>t, <1>p, <1>s, StillBounds DEF AppIs
  <1> QED
    BY <1>t, <1>l, <1>p, <1>h, <1>b, <1>d, <1>s, <1>o, StillPlays, StillRecords DEF Inv

----------------------------------------------------------------------------
(* The theorems *)

LEMMA InvInit == PcmInit => Inv
  <1> SUFFICES ASSUME PcmInit PROVE Inv
    OBVIOUS
  <1>1. /\ hw \in Setups /\ io = [state |-> "OPEN", appl |-> 0, seen |-> 0]
        /\ plug = [ ptr |-> 0, pause |-> {}, connected |-> FALSE, event |-> {}, started |-> FALSE,
                    ring |-> [i \in 0 .. B - 1 |-> Old] ]
        /\ worker = [pc |-> "none", ptr |-> 0, off |-> 0, left |-> 0, room |-> 0, sig |-> FALSE]
        /\ app = [pc |-> "free", woken |-> FALSE]
        /\ server = [paused |-> FALSE, gone |-> FALSE, fifo |-> << >>]
        /\ made = 0 /\ due = 1 /\ smooth = TRUE
    BY DEF PcmInit, B
  <1>2. HwTyped
    BY <1>1, SetupsAssumption DEF HwTyped
  <1>3. 0 \in Pointers /\ 1 \in Pointers /\ 0 \in 0 .. B - 1 /\ Fwd(B, 0, 1) = 1
    BY <1>2, ZeroPointer DEF HwTyped, B, Fwd
  <1>t. PcmTyped
    <2>1. IoTyped /\ AppTyped /\ CountsTyped /\ WorkerTyped
      BY <1>1, <1>3 DEF IoTyped, AppTyped, CountsTyped, WorkerTyped, States, Calling, Labels
    <2>2. PlugTyped
      <3>1. [i \in 0 .. B - 1 |-> Old] \in [0 .. B - 1 -> Frames]
        BY DEF Frames
      <3> QED
        BY <1>1, <1>3, <3>1 DEF PlugTyped
    <2>3. ServerTyped
      BY <1>1, FifoTypes DEF ServerTyped, Fifo
    <2> QED
      BY <1>2, <2>1, <2>2, <2>3 DEF PcmTyped
  <1>l. Linked /\ Parking
    BY <1>1 DEF Linked, Fallen, Parking
  <1>h. Phases /\ Bounds /\ Drains
    BY <1>1 DEF Phases, Bounds, Drains, Live
  <1>o. Told
    BY <1>1 DEF Told
  <1>y. Plays /\ Records
    BY <1>1, <1>3 DEF Plays, Records, Live
  <1> QED
    BY <1>t, <1>l, <1>h, <1>o, <1>y DEF Inv

LEMMA InvSame == Inv /\ UNCHANGED pcmVars => Inv'
  <1> SUFFICES ASSUME Inv, UNCHANGED pcmVars PROVE Inv'
    OBVIOUS
  <1>1. UNCHANGED <<hw, io, plug, worker, app, server, made, due, smooth>>
    BY DEF pcmVars
  <1>2. UNCHANGED <<B, Pointers, Frames, Playback, Live, Pos>> /\ \A x : Free(x)' = Free(x)
    BY <1>1 DEF B, Pointers, Frames, Playback, Live, Free, Pos
  <1>3. PcmTyped'
    BY <1>1, <1>2 DEF Inv, PcmTyped, HwTyped, IoTyped, PlugTyped, WorkerTyped, AppTyped,
       ServerTyped,
                      CountsTyped
  <1>4. Linked' /\ Parking'
    BY <1>1, <1>2 DEF Inv, Linked, Parking, Fallen
  <1>5. (smooth => Phases /\ Drains)'
    BY <1>1 DEF Inv, Phases, Drains, Live, Playback, Free, B
  <1>6. (smooth => Bounds)'
    BY <1>1 DEF Inv, Bounds, Live, Free, B
  <1>7. Plays' /\ Records'
    BY <1>1, <1>2 DEF Inv, Plays, Records
  <1>8. Told'
    BY <1>1 DEF Inv, Told, Raising, WaitsForAll, Playback, Free, B
  <1> QED
    BY <1>3, <1>4, <1>5, <1>6, <1>7, <1>8 DEF Inv

LEMMA InvStep == Inv /\ [PcmNext]_pcmVars => Inv'
  <1> SUFFICES ASSUME Inv, [PcmNext]_pcmVars PROVE Inv'
    OBVIOUS
  <1>1. CASE UNCHANGED pcmVars
    BY <1>1, InvSame
  <1>2. CASE WorkerStep
    BY <1>2, WorkerCheckKeeps, WorkerPausesKeeps, WorkerResumesKeeps, WorkerAvail1Keeps,
       WorkerAvail2Keeps, WorkerXrunKeeps, WorkerEmptyKeeps, WorkerWritesKeeps,
       WorkerReadsKeeps,
       WorkerFailsKeeps, WorkerFailedKeeps, WorkerPublishesKeeps,
       WorkerNotifiesKeeps DEF WorkerStep
  <1>3. CASE CallStep
    BY <1>3, CommitsKeeps, PauseWakesKeeps, PauseSent1Keeps, PauseSent2Keeps, DrainPollsKeeps,
       DrainLoopEnds1Keeps, DrainLoopEnds2Keeps, DrainReturnsKeeps DEF CallStep
  <1>4. CASE Calls
    <2>1. ASSUME NEW block \in BOOLEAN, Drain(block) PROVE Inv'
      BY <2>1, Drain1Keeps, Drain2Keeps, Drain3Keeps, Drain4Keeps
    <2>2. CASE Poll
      BY <2>2, Poll1Keeps, Poll2Keeps, Poll3Keeps
    <2>3. CASE Prepare
      BY <2>3, PrepareFailsKeeps, PrepareKeeps
    <2>4. CASE Reads
      BY <2>4, ReadsNextKeeps, ReadsNothingKeeps
    <2>5. CASE Start
      BY <2>5, Start1Keeps, Start2Keeps
    <2>6. CASE Resume
      BY <2>6, Resume1Keeps, Resume2Keeps
    <2>7. CASE Writes \/ HwParams \/ HwFree \/ Drop \/ Pause \/ DrainTimesOut
      BY <2>7, WritesKeeps, HwParamsKeeps, HwFreeKeeps, DropKeeps, PauseKeeps,
         DrainTimesOutKeeps
    <2> QED
      BY <1>4, <2>1, <2>2, <2>3, <2>4, <2>5, <2>6, <2>7 DEF Calls
  <1>5. CASE ServerStep \/ ServerGoes
    BY <1>5, ServerPlaysKeeps, ServerRecordsKeeps, ServerGoesKeeps DEF ServerStep
  <1> QED
    BY <1>1, <1>2, <1>3, <1>4, <1>5 DEF PcmNext

\* For every ring, period and avail_min, whatever the order of the steps of the thread,
\* the application and the server: the invariant holds.
THEOREM PcmInvariant == PcmSpec => []Inv
  BY InvInit, InvStep, PTL DEF PcmSpec

LEMMA InvWoken == Inv => PollWoken
  <1> SUFFICES ASSUME Inv, smooth, Idle, plug.event = {},
                      worker.pc \notin {"notify", "empty", "fail"}
               PROVE  CASE io.state = "RUNNING"  ->
                             plug.ptr # -1 /\ (WaitsForAll \/ Avail(plug.ptr, io.appl) < hw.min)
                        [] io.state = "DRAINING" ->
                             plug.ptr # -1 /\ (WaitsForAll \/ ~Drained(io.state))
                        [] io.state \in {"XRUN", "PAUSED"} -> FALSE
                        [] io.state = "PREPARED" -> ~Playback \/ WaitsForAll
                        [] OTHER -> TRUE
    BY DEF PollWoken
  <1>1. /\ io.state = "PREPARED" => ~Playback \/ WaitsForAll
        /\ io.state \notin {"PAUSED", "XRUN"}
        /\ io.state = "RUNNING"  => plug.ptr # -1 /\ (WaitsForAll \/ Free(plug.ptr) < hw.min)
        /\ io.state = "DRAINING" => plug.ptr # -1 /\ (WaitsForAll \/ Free(plug.ptr) < B)
    BY DEF Inv, Told, Raising
  <1>2. plug.ptr # -1 => Avail(plug.ptr, io.appl) = Free(plug.ptr) /\ Free(plug.ptr) \in Nat
    BY FreeIs DEF Inv, PcmTyped, PlugTyped
  <1>3. io.state = "DRAINING" => plug.ptr # -1 /\ (WaitsForAll \/ ~Drained(io.state))
    <2>1. hw.buffer \in Nat
      BY DEF Inv, PcmTyped, HwTyped
    <2> QED
      BY <1>1, <1>2, <2>1 DEF Drained, B
  <1> QED
    BY <1>1, <1>2, <1>3

\* bluealsa_poll_revents() and io_thread(): an application that waits in poll(), with
\* no event pending and no thread about to raise one, has nothing to do.
THEOREM PollIsWoken == PcmSpec => []PollWoken
  BY PcmInvariant, InvWoken, PTL

\* Only the thread that plays puts more frames into the FIFO.
LEMMA FifoGrows ==
  ASSUME Inv, PcmNext, Playback, Len(server'.fifo) > Len(server.fifo)
  PROVE  WorkerWrites
  <1>1. server.fifo \in Seq(Frames) /\ Len(server.fifo) \in Nat
        /\ server \in [paused : BOOLEAN, gone : BOOLEAN, fifo : Seq(Frames)]
    <2>1. server.fifo \in Seq(Frames)
      BY DEF Inv, PcmTyped, ServerTyped
    <2> QED
      BY <2>1 DEF Inv, PcmTyped, ServerTyped
  <1>2. server'.fifo # server.fifo /\ server'.fifo # << >>
    BY <1>1
  <1>3. ASSUME NEW p, StopStream(p, server) PROVE FALSE
    BY <1>1, <1>2, <1>3 DEF StopStream
  <1>4. ASSUME NEW p, NEW v, v.fifo = server.fifo, Prepared(p, v),
               v \in [paused : BOOLEAN, gone : BOOLEAN, fifo : Seq(Frames)]
        PROVE  FALSE
    <2> DEFINE g == [i \in DOMAIN v.fifo |-> Old]
    <2>1. server'.fifo = [i \in DOMAIN v.fifo |-> IF Playback THEN Old ELSE i % Boundary]
      BY <1>4 DEF Prepared
    <2>2. server'.fifo = g
      BY <2>1
    <2>3. DOMAIN v.fifo = 1 .. Len(server.fifo)
      BY <1>1, <1>4
    <2>4. g \in [1 .. Len(server.fifo) -> {Old}]
      BY <2>3
    <2>5. Len(g) = Len(server.fifo)
      BY <1>1, <2>4
    <2> QED
      BY <1>1, <2>2, <2>5
  <1>5. CASE WorkerStep
    BY <1>2, <1>5 DEF WorkerStep, WorkerCheck, WorkerPauses, WorkerResumes, WorkerAvail,
       WorkerXrun,
                      WorkerEmpty, WorkerReads, WorkerFails, WorkerFailed, WorkerPublishes,
                      WorkerNotifies
  <1>6. CASE CallStep
    <2>1. CASE PauseSent
      BY <1>1, <1>2, <2>1 DEF PauseSent
    <2>2. CASE DrainLoopEnds \/ DrainReturns
      BY <1>2, <1>3, <2>2 DEF DrainLoopEnds, DrainReturns
    <2> QED
      BY <1>2, <1>6, <2>1, <2>2 DEF CallStep, Commits, PauseWakes, DrainPolls
  <1>7. CASE Calls
    <2>1. ~\E block \in BOOLEAN : Drain(block)
      BY <1>1, <1>2, <1>3 DEF Drain, Started
    <2>2. ~Poll /\ ~DrainTimesOut /\ ~Drop
      BY <1>2, <1>3 DEF Poll, DrainTimesOut, Drop
    <2>3. ~HwParams
      <3>1. /\ [server EXCEPT !.paused = FALSE].fifo = server.fifo
            /\ [server EXCEPT !.paused = FALSE]
                 \in [paused : BOOLEAN, gone : BOOLEAN, fifo : Seq(Frames)]
        BY <1>1
      <3> QED
        BY <1>4, <3>1 DEF HwParams
    <2>4. ~Prepare
      BY <1>1, <1>2, <1>4 DEF Prepare
    <2>5. ~HwFree
      BY <1>1, <1>2 DEF HwFree
    <2>6. ~Start /\ ~Resume
      BY <1>1, <1>2 DEF Start, Started, Resume
    <2>7. ~Writes /\ ~Reads /\ ~Pause
      BY <1>2 DEF Writes, Reads, Pause
    <2> QED
      BY <1>7, <2>1, <2>2, <2>3, <2>4, <2>5, <2>6, <2>7 DEF Calls
  <1>8. CASE ServerStep \/ ServerGoes
    <2>1. ~ServerPlays
      <3>1. server.fifo # << >> => Len(Tail(server.fifo)) = Len(server.fifo) - 1
        BY <1>1, FifoTypes
      <3>2. ServerPlays => server.fifo # << >> /\ server'.fifo = Tail(server.fifo)
        BY <1>1 DEF ServerPlays
      <3> QED
        BY <1>1, <3>1, <3>2
    <2>2. ~ServerRecords /\ ~ServerGoes
      BY <1>1, <1>2 DEF ServerRecords, ServerGoes
    <2> QED
      BY <1>8, <2>1, <2>2 DEF ServerStep
  <1> QED
    BY <1>5, <1>6, <1>7, <1>8 DEF PcmNext

\* Only a call that reads takes a frame of a recording.
LEMMA ApplMoves ==
  ASSUME Inv, PcmNext, ~Playback, io.state = "RUNNING", io'.appl # io.appl
  PROVE  Reads /\ Transferring
  <1>1. io' # io /\ io \in [state : States, appl : Pointers, seen : Pointers]
    BY DEF Inv, PcmTyped, IoTyped
  <1>2. ~WorkerStep
    BY <1>1 DEF WorkerStep, WorkerCheck, WorkerPauses, WorkerResumes, WorkerAvail, WorkerXrun,
                WorkerEmpty, WorkerWrites, WorkerReads, WorkerFails, WorkerFailed,
                WorkerPublishes,
                WorkerNotifies
  <1>3. ~CallStep
    <2>1. ~Commits
      BY DEF Commits, Inv, Parking
    <2>2. ~PauseSent /\ ~DrainLoopEnds /\ ~DrainReturns
      BY <1>1 DEF PauseSent, DrainLoopEnds, DrainReturns
    <2> QED
      BY <1>1, <2>1, <2>2 DEF CallStep, PauseWakes, DrainPolls
  <1>4. ~ServerStep /\ ~ServerGoes
    BY <1>1 DEF ServerStep, ServerPlays, ServerRecords, ServerGoes
  <1>5. Calls => Reads
    <2>1. ~Writes /\ ~HwParams /\ ~HwFree /\ ~Prepare
      BY DEF Writes, HwParams, HwFree, Prepare
    <2>2. ~Start /\ ~Drop /\ ~Pause /\ ~Resume /\ ~DrainTimesOut
      BY <1>1 DEF Start, Drop, Pause, Resume, DrainTimesOut
    <2>3. ~\E block \in BOOLEAN : Drain(block)
      BY DEF Drain
    <2>4. ~Poll
      BY <1>1 DEF Poll, Synced
    <2> QED
      BY <2>1, <2>2, <2>3, <2>4 DEF Calls
  <1>6. Reads => Transferring
    BY <1>1 DEF Reads, Synced
  <1> QED
    BY <1>2, <1>3, <1>4, <1>5, <1>6 DEF PcmNext

\* The frame a call takes is the one that is due.
LEMMA ReadsDue ==
  ASSUME Inv, smooth, Reads, Transferring
  PROVE  plug.ring[io.appl % hw.buffer] = due
  <1>1. ~Playback /\ io.state = "RUNNING" /\ Live /\ HwTyped /\ IoTyped /\ PlugTyped /\ B \in Nat \ {0}
        /\ io.appl \in Pointers
    BY DEF Reads, Live, Inv, PcmTyped, HwTyped, IoTyped, B
  <1>2. plug.ptr # -1 /\ plug.connected /\ Synced.seen = plug.ptr
    BY <1>1 DEF Transferring, Synced, Drained, Pointed, IoTyped
  <1>3. plug.ptr \in Pointers /\ 0 < Free(plug.ptr)
    BY <1>1, <1>2, FreeIs DEF Transferring, Room, PlugTyped
  <1>4. Pos \in Ptrs(B) /\ 0 < Free(Pos)
    <2>1. Pos \in Pointers /\ Free(plug.ptr) <= Free(Pos)
      BY <1>1, <1>2, PosIs DEF Inv
    <2> QED
      BY <1>1, <1>3, <2>1, FreeIs DEF Pointers
  <1>5. Recorded(hw.stream, B, plug.ring, Pos, io.appl) /\ due = Fwd(B, io.appl, 1)
    BY <1>1, <1>2 DEF Inv, Records
  <1>6. hw.stream # "PLAYBACK" /\ io.appl \in Ptrs(B) /\ 0 < Fill(hw.stream, B, Pos, io.appl)
          /\ B \in Nat \ {0}
    BY <1>1, <1>4 DEF Playback, Pointers, Free
  <1>7. /\ plug.ring[Slot(B, io.appl)] = Fwd(B, io.appl, 1)
        /\ Recorded(hw.stream, B, plug.ring, Pos, Fwd(B, io.appl, 1))
    BY <1>4, <1>5, <1>6, RecordedLess
  <1> QED
    BY <1>1, <1>5, <1>7, WrapIs

\* So is the frame the thread hands over.
LEMMA WritesDue ==
  ASSUME Inv, smooth, WorkerWrites
  PROVE  server'.fifo[Len(server'.fifo)] = due
  <1>1. Playback /\ worker.pc = "transfer" /\ server'.fifo = Append(server.fifo, plug.ring[worker.off])
        /\ server.fifo \in Seq(Frames)
    BY DEF WorkerWrites, WorkerAt, Inv, PcmTyped, ServerTyped
  <1>2. plug.connected /\ Live /\ plug.ptr # -1 /\ io.state # "OPEN"
    BY <1>1 DEF Inv, PcmTyped, IoTyped, States, Linked, Fallen, Phases, Live
  <1>3. /\ Pos \in Ptrs(B) /\ Free(Pos) < B /\ worker.off = Slot(B, Pos) /\ B \in Nat \ {0}
        /\ io.appl \in Ptrs(B)
    BY <1>1, <1>2, PosIs DEF Inv, PcmTyped, IoTyped, Pointers
  <1>4. due = Fwd(B, Pos, 1) /\ Written(hw.stream, B, plug.ring, Pos, io.appl)
    BY <1>1, <1>2 DEF Inv, Plays
  <1>5. plug.ring[worker.off] = due
    BY <1>3, <1>4, WrittenMoves DEF Free
  <1>6. Append(server.fifo, due)[Len(Append(server.fifo, due))] = due
    BY <1>1
  <1> QED
    BY <1>1, <1>5, <1>6

\* What FramesInOrder says of a step.
InOrder ==
  smooth =>
    /\ (Playback /\ Len(server'.fifo) > Len(server.fifo))
         => server'.fifo[Len(server'.fifo)] = due
    /\ (~Playback /\ io.state = "RUNNING" /\ io'.appl # io.appl)
         => plug.ring[io.appl % hw.buffer] = due
    /\ (app.pc = "flushing" /\ app'.pc = "free" /\ ~server.gone) => due = After(made)
    /\ (app.pc = "parked" /\ app.woken /\ server'.paused)
         => worker.pc \notin {"transfer", "publish"}

LEMMA StepInOrder == Inv /\ [PcmNext]_pcmVars => [InOrder]_<<server, io, app>>
  <1> SUFFICES ASSUME Inv, PcmNext, smooth PROVE InOrder
    BY DEF pcmVars, InOrder
  <1>1. (Playback /\ Len(server'.fifo) > Len(server.fifo)) => server'.fifo[Len(server'.fifo)] = due
    BY FifoGrows, WritesDue
  <1>2. (~Playback /\ io.state = "RUNNING" /\ io'.appl # io.appl)
           => plug.ring[io.appl % hw.buffer] = due
    BY ApplMoves, ReadsDue
  <1>3. (app.pc = "flushing" /\ ~server.gone) => due = After(made)
    <2>1. ASSUME app.pc = "flushing", ~server.gone PROVE due = After(made)
      <3>1. due = Fwd(B, io.appl, 1) /\ made = io.appl /\ made \in Pointers
        BY <2>1 DEF Inv, Parking, Drains, Plays, PcmTyped, CountsTyped
      <3> QED
        BY <3>1, AfterIs DEF Inv, PcmTyped
    <2> QED
      BY <2>1
  <1>4. (app.pc = "parked" /\ app.woken) => worker.pc \notin {"transfer", "publish"}
    BY DEF Inv, Parking, Fallen
  <1> QED
    BY <1>1, <1>2, <1>3, <1>4 DEF InOrder

\* io_thread(), bluealsa_drain() and bluealsa_pause(): every frame that reaches the
\* server or the application is the one that is due, a drain that returns has handed
\* over the last one written, and a pause finds no transfer under way.
THEOREM FramesStayInOrder == PcmSpec => FramesInOrder
  <1>1. PcmSpec => [][InOrder]_<<server, io, app>>
    BY PcmInvariant, StepInOrder, PTL DEF PcmSpec
  <1> QED
    BY <1>1 DEF FramesInOrder, InOrder

=============================================================================
