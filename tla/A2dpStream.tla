----------------------------- MODULE A2dpStream -----------------------------
(* The path of the samples: the encoder thread of one daemon, the Bluetooth
   link, the decoder thread of another.  A stream has one codec; every codec
   has its own pair of threads, and each way of packing, fragmenting and
   numbering has its own way of noticing that something is missing.

   Samples are counted in units, numbered from 1 as the client writes them; a
   coded frame stands for stream.frame units and is stream.len bytes, each the
   triple <<first unit of the frame, place in the frame, H2 number>>.  A packet
   carries up to stream.mtu of them after its headers.  The source writes
   stream.total units; stream.most bounds the faults of each kind.  What the
   decoder writes is a sequence of frames, each named by its first unit, and 0
   for one it made up.  The codec libraries are external: they reproduce a
   frame from its bytes, and of other bytes make what they like. *)
EXTENDS Integers, Sequences, SequencesExt, FiniteSets, FiniteSetsExt

CONSTANTS Streams,  \* the instances: [codec, frame, len, mtu, dms, marks, total, most]
          RtpMod    \* RTP sequence numbers are below it

ASSUME RtpModAssumption == RtpMod \in Nat \ {0}

VARIABLES stream,   \* the stream of this behaviour
          enc,      \* the encoder thread
          link,     \* the packets on the way
          dec,      \* the decoder thread
          client,   \* of the decoder: "open", "gone" (not noticed yet) or "none"
          out,      \* what the client has been given
          stale,    \* frames the decoder held for the client before it
          faults    \* packets lost, drops of the source, writes into a full FIFO
                    \* and changes of the client so far

streamVars == <<stream, enc, link, dec, client, out, stale, faults>>

----------------------------------------------------------------------------

(* Frames and packets. *)

\* The bytes of the frame that starts at unit f, with H2 number s.
Frame(f, s) == [k \in 1..stream.len |-> <<f, k, s>>]

Frames(f, n) == FlattenSeq([i \in 1..n |-> Frame(f + (i - 1) * stream.frame, 0)])

Genuine(bytes) == bytes # <<>> /\ bytes = Frame(bytes[1][1], bytes[1][3])

CeilDiv(a, b) == (a + b - 1) \div b

\* A sequence cut into pieces of at most n.
Cut(s, n) == [i \in 1..CeilDiv(Len(s), n) |-> SubSeq(s, (i - 1) * n + 1, Min({i * n, Len(s)}))]

\* A packet of n frames.
Packet(n, bytes) == [seq |-> 0, ts |-> 0, mark |-> TRUE, frag |-> "whole", count |-> n,
                     bytes |-> bytes]

Zeros(n) == [i \in 1..n |-> 0]

\* The slices of length n, in order.
Slices(bytes, n) == [i \in 1..(Len(bytes) \div n) |-> SubSeq(bytes, (i - 1) * n + 1, i * n)]

----------------------------------------------------------------------------

(* Encoders: what one turn of the thread's loop makes of the e.pcm units, from
   unit e.at on, of its linear buffer. *)

\* The room of the buffer, in units.
PcmLen ==
  LET packed == stream.mtu \div stream.len
  IN CASE stream.codec \in {"SBC", "LC3plus"} -> stream.frame * Max({1, packed})
       [] stream.codec = "FastStream" -> stream.frame * 3
       [] stream.codec \in {"aptX", "aptX HD"} -> stream.frame * packed
       [] stream.codec \in {"AAC", "MPEG", "LDAC", "Opus"} -> stream.frame
       [] stream.codec \in {"mSBC", "LC3-SWB"} -> stream.frame * 6
       [] stream.codec = "CVSD" -> stream.mtu * 4

\* The thread has used units and sent raw packets.
Sends(e, used, packets) ==
  [enc |-> [e EXCEPT !.at = @ + used, !.pcm = @ - used], packets |-> packets]

\* The same with RTP: each packet takes the next number and the time of the
\* units before this turn.
SendsRtp(e, used, packets) ==
  [enc |-> [e EXCEPT !.at = @ + used, !.pcm = @ - used, !.ts = @ + used,
                     !.seq = (@ + Len(packets)) % RtpMod],
   packets |-> [i \in DOMAIN packets |->
                 [packets[i] EXCEPT !.seq = (e.seq + i) % RtpMod, !.ts = e.ts]]]

\* SBC packs as many frames as the packet and its 4-bit counter hold.
SbcEncode(e) ==
  LET n == Min({e.pcm \div stream.frame, stream.mtu \div stream.len, 15})
  IN SendsRtp(e, n * stream.frame, IF n = 0 THEN <<>> ELSE <<Packet(n, Frames(e.at, n))>>)

\* Fragments of one coded frame; the last one has the mark.
Fragments(bytes) ==
  LET pieces == Cut(bytes, stream.mtu)
  IN [i \in DOMAIN pieces |-> [Packet(0, pieces[i]) EXCEPT !.mark = stream.marks /\ i = Len(pieces)]]

\* The AAC encoder keeps what is not a frame yet.
AacEncode(e) ==
  LET all == e.held + e.pcm
      r == SendsRtp(e, e.pcm, IF all < stream.frame THEN <<>>
                              ELSE Fragments(Frame(e.at - e.held, 0)))
  IN [r EXCEPT !.enc.held = all % stream.frame]

\* So does LAME, which returns several frames at once.
MpegEncode(e) ==
  LET all == e.held + e.pcm
      r == SendsRtp(e, e.pcm, Fragments(Frames(e.at - e.held, all \div stream.frame)))
  IN [r EXCEPT !.enc.held = all % stream.frame]

\* LC3plus packs frames up to a duration, or fragments one that is too long for
\* a packet; the count of a fragment is the number of those to come with it.
Lc3plusEncode(e) ==
  LET n == Min({e.pcm \div stream.frame, Max({stream.mtu, stream.len}) \div stream.len,
                200 \div stream.dms + 1, 15})
      bytes == Frames(e.at, n)
      pieces == Cut(bytes, stream.mtu)
      part == [i \in DOMAIN pieces |->
                [Packet(Len(pieces) - i + 1, pieces[i]) EXCEPT
                   !.frag = IF i = 1 THEN "first" ELSE IF i = Len(pieces) THEN "last" ELSE "middle"]]
  IN SendsRtp(e, n * stream.frame, IF n = 0 THEN <<>>
                                   ELSE IF Len(pieces) = 1 THEN <<Packet(n, bytes)>> ELSE part)

\* The LDAC library fills packets itself: it may hold the frame back as long as
\* another one fits.
LdacEncode(e) ==
  LET n == e.held \div stream.frame + 1
      r(packets, h) == [SendsRtp(e, stream.frame, packets) EXCEPT !.enc.held = h]
  IN IF e.pcm < stream.frame THEN {Sends(e, 0, <<>>)}
     ELSE {r(<<Packet(n, Frames(e.at - e.held, n))>>, 0)}
            \cup (IF (n + 1) * stream.len <= stream.mtu THEN {r(<<>>, n * stream.frame)} ELSE {})

OpusEncode(e) ==
  LET n == e.pcm \div stream.frame
  IN SendsRtp(e, n * stream.frame, [i \in 1..n |-> Packet(1, Frames(e.at, 1))])

\* apt-X sends its codes with no header at all, apt-X HD with an RTP header.
AptxEncode(e) ==
  LET n == e.pcm \div stream.frame
  IN Sends(e, n * stream.frame,
           [i \in 1..CeilDiv(n, stream.mtu \div stream.len) |-> Packet(0, Frames(e.at, n))])

AptxHdEncode(e) ==
  LET n == e.pcm \div stream.frame
  IN SendsRtp(e, n * stream.frame,
              [i \in 1..CeilDiv(n, stream.mtu \div stream.len) |-> Packet(0, Frames(e.at, n))])

\* Slip: the input buffer is rewound, not shifted.
FastStreamEncodeRewinds(e) ==
  LET n == Min({e.pcm \div stream.frame, stream.mtu \div stream.len, 3})
  IN Sends(e, IF n = 0 THEN 0 ELSE e.pcm, IF n = 0 THEN <<>> ELSE <<Packet(0, Frames(e.at, n))>>)

\* FastStream: at most three frames in a packet, no header.
FastStreamEncode(e) ==
  LET n == Min({e.pcm \div stream.frame, stream.mtu \div stream.len, 3})
  IN Sends(e, n * stream.frame, IF n = 0 THEN <<>> ELSE <<Packet(0, Frames(e.at, n))>>)

\* The voice codecs number their frames modulo 4 and cut the stream of bytes
\* into packets of the link's size; a rest waits for more.
H2Frames(e, n) ==
  FlattenSeq([i \in 1..n |-> Frame(e.at + (i - 1) * stream.frame, (e.h2 + i) % 4)])

\* Slip: what was sent is not shifted out of the buffer.
ScoEncodeUnshifted(e) ==
  LET n == e.pcm \div stream.frame
      bytes == e.bytes \o H2Frames(e, n)
      full == Len(bytes) \div stream.mtu
      r == Sends(e, n * stream.frame,
                 [i \in 1..full |-> Packet(0, SubSeq(bytes, (i - 1) * stream.mtu + 1, i * stream.mtu))])
  IN [r EXCEPT !.enc.h2 = (@ + n) % 4, !.enc.bytes = bytes]

ScoEncode(e) ==
  LET n == e.pcm \div stream.frame
      bytes == e.bytes \o H2Frames(e, n)
      full == Len(bytes) \div stream.mtu
      r == Sends(e, n * stream.frame,
                 [i \in 1..full |-> Packet(0, SubSeq(bytes, (i - 1) * stream.mtu + 1, i * stream.mtu))])
  IN [r EXCEPT !.enc.h2 = (@ + n) % 4,
               !.enc.bytes = SubSeq(bytes, full * stream.mtu + 1, Len(bytes))]

MsbcEncode(e) == ScoEncode(e)

Lc3SwbEncode(e) == ScoEncode(e)

\* CVSD is coded by the controller: the thread sends samples.
CvsdEncode(e) ==
  LET n == e.pcm \div stream.mtu
  IN Sends(e, n * stream.mtu,
           [i \in 1..n |-> Packet(0, Frames(e.at + (i - 1) * stream.mtu, stream.mtu))])

Encodes(e) ==
  CASE stream.codec = "SBC" -> {SbcEncode(e)}
    [] stream.codec = "AAC" -> {AacEncode(e)}
    [] stream.codec = "MPEG" -> {MpegEncode(e)}
    [] stream.codec = "LC3plus" -> {Lc3plusEncode(e)}
    [] stream.codec = "LDAC" -> LdacEncode(e)
    [] stream.codec = "Opus" -> {OpusEncode(e)}
    [] stream.codec = "aptX" -> {AptxEncode(e)}
    [] stream.codec = "aptX HD" -> {AptxHdEncode(e)}
    [] stream.codec = "FastStream" -> {FastStreamEncode(e)}
    [] stream.codec = "mSBC" -> {MsbcEncode(e)}
    [] stream.codec = "LC3-SWB" -> {Lc3SwbEncode(e)}
    [] stream.codec = "CVSD" -> {CvsdEncode(e)}

\* A turn of the loop that reads k units of what the client has written.
EncoderTurn ==
  \E k \in 1..Min({PcmLen - enc.pcm, stream.total + 1 - enc.at - enc.pcm}) :
    \E r \in Encodes([enc EXCEPT !.pcm = @ + k]) :
      /\ enc' = r.enc
      /\ link' = link \o r.packets
      /\ UNCHANGED <<stream, dec, client, out, stale, faults>>

\* The client drops its stream: the FIFO is flushed, k units of it, and the
\* thread empties its buffers; the voice codecs begin to count again.
EncoderDrop ==
  /\ faults.drops < stream.most.drops
  /\ faults' = [faults EXCEPT !.drops = @ + 1]
  /\ \E k \in 0..Min({1, stream.total + 1 - enc.at - enc.pcm}) :
       enc' = [enc EXCEPT !.at = @ + enc.pcm + k, !.pcm = 0, !.held = 0, !.bytes = <<>>, !.h2 = 0]
  /\ UNCHANGED <<stream, link, dec, client, out, stale>>

----------------------------------------------------------------------------

(* Decoders: the threads of the A2DP codecs.  Each takes the state after
   the packet's RTP header was looked at and returns the states it may go to,
   with the frames it writes. *)

\* What the header says: the thread's new state, missing packets and units.
Sync(d, p) ==
  LET expected == (d.seq + 1) % RtpMod
      at == p.ts - d.off
  IN IF ~d.synced
     THEN [dec |-> [d EXCEPT !.synced = TRUE, !.seq = p.seq, !.off = p.ts], packets |-> 0, units |-> 0]
     ELSE [dec |-> [d EXCEPT !.seq = p.seq, !.ts = IF stream.codec = "LC3plus" THEN at ELSE @],
           packets |-> p.seq - expected,
           units |-> IF stream.codec = "LC3plus" THEN at - d.ts ELSE 0]

\* The first units of the frames in the bytes.
Decoded(bytes) == [i \in 1..(Len(bytes) \div stream.len) |-> bytes[(i - 1) * stream.len + 1][1]]

Gives(d, samples) == {[dec |-> d, samples |-> samples]}

SbcDecode(y, p) == Gives(y.dec, SubSeq(Decoded(p.bytes), 1, p.count))

LdacDecode(y, p) == Gives(y.dec, SubSeq(Decoded(p.bytes), 1, p.count))

OpusDecode(y, p) == Gives(y.dec, Decoded(p.bytes))

AptxDecode(y, p) == Gives(y.dec, Decoded(p.bytes))

AptxHdDecode(y, p) == Gives(y.dec, Decoded(p.bytes))

FastStreamDecode(y, p) == Gives(y.dec, Decoded(p.bytes))

\* The places where a frame begins.
Heads(bytes) == {i \in DOMAIN bytes : bytes[i][2] = 1}

From(bytes, i) == SubSeq(bytes, i, Len(bytes))

\* AAC collects fragments until one has the mark, and fills the library's buffer
\* with them; the library decodes one frame and keeps the rest.  When no packet
\* of the first three has the mark, each one is taken for the last.
AacDecode(y, p) ==
  LET d == y.dec
      quirk == IF d.quirk >= 0 THEN d.quirk
               ELSE IF p.mark THEN 0 ELSE IF d.quirk = -1 THEN 1 ELSE d.quirk + 1
      latm == d.data \o p.bytes
      filled == d.inner \o latm
      head == SubSeq(filled, 1, Min({stream.len, Len(filled)}))
      after(rest, samples) == [dec |-> [d EXCEPT !.quirk = quirk, !.data = <<>>, !.inner = rest],
                               samples |-> samples]
  IN IF quirk # 1 /\ ~p.mark THEN Gives([d EXCEPT !.quirk = quirk, !.data = latm], <<>>)
     ELSE IF Genuine(head) THEN {after(From(filled, stream.len + 1), <<head[1][1]>>)}
     ELSE {after(<<>>, <<>>)} \cup {after(From(filled, i), <<>>) : i \in Heads(filled) \ {1}}

\* MPEG audio is fed to the library, which writes the frames it finds whole.
MpegDecode(y, p) ==
  LET feed == y.dec.data \o p.bytes
      at == {i \in Heads(feed) : i + stream.len <= Len(feed) + 1 /\ Genuine(SubSeq(feed, i, i + stream.len - 1))}
      last == {i \in Heads(feed) : \A j \in Heads(feed) : j <= i} \ at
  IN Gives([y.dec EXCEPT !.data = IF last = {} THEN <<>> ELSE From(feed, Max(last))],
           LET s == SetToSortSeq(at, <) IN [i \in DOMAIN s |-> feed[s[i]][1]])

\* LC3plus: the fragments of a frame whose beginning is missing are skipped, and
\* frames that the time stamps miss are made up.  A payload of other
\* bytes is concealed by the library, or ends the loop over the packet's frames.
SkipsFrom(y, p) == y.packets > 0 /\ p.frag \in {"middle", "last"}

Lc3plusDecode(y, p) ==
  LET skip == IF SkipsFrom(y, p) THEN TRUE ELSE y.dec.skip /\ p.frag \in {"middle", "last"}
      cap == IF p.frag = "first" THEN Max({y.dec.cap, p.count * stream.mtu}) ELSE y.dec.cap
      old == IF SkipsFrom(y, p) THEN <<>> ELSE y.dec.data
      data == IF Len(old) + Len(p.bytes) <= cap THEN old \o p.bytes ELSE old
      conceal == Zeros(CeilDiv(Max({0, y.units}), stream.frame))
      slices == Slices(data, Max({1, Len(data) \div p.count}))
      frames == [i \in 1..Min({p.count, Len(slices)}) |->
                  IF Genuine(slices[i]) THEN slices[i][1][1] ELSE 0]
      bad == {i \in DOMAIN frames : frames[i] = 0}
      ends == {Len(frames)} \cup {Min(bad) - 1 : b \in bad}
      d == [y.dec EXCEPT !.skip = skip, !.cap = cap]
  IN IF skip THEN Gives([y.dec EXCEPT !.skip = skip, !.data = old], conceal)
     ELSE IF p.frag \in {"first", "middle"} THEN Gives([d EXCEPT !.data = data], conceal)
     ELSE {[dec |-> [d EXCEPT !.data = <<>>, !.ts = @ + n * stream.frame],
            samples |-> conceal \o SubSeq(frames, 1, n)] : n \in ends}

A2dpDecodes(y, p) ==
  CASE stream.codec = "SBC" -> SbcDecode(y, p)
    [] stream.codec = "AAC" -> AacDecode(y, p)
    [] stream.codec = "MPEG" -> MpegDecode(y, p)
    [] stream.codec = "LC3plus" -> Lc3plusDecode(y, p)
    [] stream.codec = "LDAC" -> LdacDecode(y, p)
    [] stream.codec = "Opus" -> OpusDecode(y, p)
    [] stream.codec = "aptX" -> AptxDecode(y, p)
    [] stream.codec = "aptX HD" -> AptxHdDecode(y, p)
    [] stream.codec = "FastStream" -> FastStreamDecode(y, p)

\* The threads of apt-X and FastStream see no RTP header.
RtpStream == stream.codec \notin {"aptX", "FastStream"}

\* Without a client the thread forgets where the stream was; what it collected
\* stays, except that LC3plus still notices a frame it has to skip.
A2dpIdle(y, p) ==
  IF stream.codec = "LC3plus" /\ SkipsFrom(y, p)
  THEN [y.dec EXCEPT !.synced = FALSE, !.skip = TRUE, !.data = <<>>]
  ELSE [y.dec EXCEPT !.synced = FALSE]

----------------------------------------------------------------------------

(* Decoders: the threads of the voice codecs read into a buffer of their own,
   decode what is whole in it one frame a time, and then write. *)

VoiceStream == stream.codec \in {"mSBC", "LC3-SWB", "CVSD"}

\* The first header, and what follows it.
H2Find(bytes) == IF Heads(bytes) = {} THEN <<>> ELSE From(bytes, Min(Heads(bytes)))

\* Slip: counted from the number of the last frame, not of the one expected.
MissingFromLast(d, seq) == IF d.counting THEN (seq + 4 - d.h2) % 4 ELSE 0

\* The frames missing before the one numbered seq, as far as the number tells.
Missing(d, seq) == IF d.counting THEN (seq + 4 - ((d.h2 + 1) % 4)) % 4 ELSE 0

\* A call that decodes the frame at the head of rest.  Missing frames are made
\* up; of a damaged frame n bytes are left behind, n in bad.
H2Decode(d, rest, bad) ==
  LET seq == rest[1][3]
      goesTo(frame, n) == [d EXCEPT !.counting = TRUE, !.h2 = seq, !.data = From(rest, n + 1),
                                    !.pcm = @ \o Zeros(Missing(d, seq)) \o <<frame>>]
  IN IF Genuine(SubSeq(rest, 1, stream.len)) THEN {goesTo(rest[1][1], stream.len)}
     ELSE {goesTo(0, n) : n \in bad}

\* An mSBC frame that does not decode is concealed, and the next header looked
\* for one byte on; if its damage shows nowhere it is decoded.
MsbcDecode(d, rest) == H2Decode(d, rest, {1, stream.len})

\* The LC3 library conceals a damaged frame itself.
Lc3SwbDecode(d, rest) == H2Decode(d, rest, {stream.len})

\* Room for one frame and three made up ones, of the six of the buffer.
Decodable(d) == Len(H2Find(d.data)) >= stream.len /\ 6 - Len(d.pcm) >= 4

VoiceDecode ==
  /\ dec.at = "decode"
  /\ LET rest == H2Find(dec.data)
     IN dec' \in IF ~Decodable(dec) THEN {[dec EXCEPT !.data = rest, !.at = "write"]}
                 ELSE IF stream.codec = "mSBC" THEN MsbcDecode(dec, rest) ELSE Lc3SwbDecode(dec, rest)
  /\ UNCHANGED <<stream, enc, link, client, out, stale, faults>>

\* A packet is read into the room that is left; without a client all is
\* forgotten but the frames decoded before.
VoiceRead(p) ==
  LET cvsd == stream.codec = "CVSD"
      kept == IF cvsd THEN dec.pcm ELSE dec.data
      room == IF cvsd THEN stream.mtu * 3 ELSE stream.len * 3
      got == SubSeq(p.bytes, 1, Min({Len(p.bytes), room - Len(kept)}))
  IN IF client = "none"
     THEN dec' = [dec EXCEPT !.data = <<>>, !.pcm = IF cvsd THEN <<>> ELSE @]
     ELSE dec' = IF cvsd THEN [dec EXCEPT !.pcm = @ \o Decoded(got), !.at = "write"]
                 ELSE [dec EXCEPT !.data = @ \o got, !.at = "decode"]

----------------------------------------------------------------------------

(* Writing to the client. *)

\* The samples reach the client; or they are dropped since its FIFO is full; or
\* the thread learns that the client has gone.
Written(samples) ==
  \/ /\ client = "open" /\ out' = out \o samples
     /\ UNCHANGED <<client, faults>>
  \/ /\ client = "open" /\ samples # <<>> /\ faults.overruns < stream.most.overruns
     /\ faults' = [faults EXCEPT !.overruns = @ + 1]
     /\ UNCHANGED <<client, out>>
  \/ /\ client = "gone" /\ client' = (IF samples = <<>> THEN "gone" ELSE "none")
     /\ UNCHANGED <<out, faults>>

\* A voice thread keeps what it could not write because the client had gone.
VoiceWrite ==
  /\ dec.at = "write"
  /\ \/ Written(dec.pcm)
     \/ client = "none" /\ UNCHANGED <<client, out, faults>>
  /\ dec' = [dec EXCEPT !.at = "read", !.pcm = IF client = "gone" THEN @ ELSE <<>>]
  /\ UNCHANGED <<stream, enc, link, stale>>

DecoderTurn ==
  /\ link # <<>> /\ dec.at = "read"
  /\ link' = Tail(link)
  /\ LET p == Head(link)
         y == IF RtpStream THEN Sync(dec, p) ELSE [dec |-> dec, packets |-> 0, units |-> 0]
     IN IF VoiceStream THEN VoiceRead(p) /\ UNCHANGED <<client, out, faults>>
        ELSE IF client = "none"
        THEN dec' = (IF RtpStream THEN A2dpIdle(y, p) ELSE dec) /\ UNCHANGED <<client, out, faults>>
        ELSE \E r \in A2dpDecodes(y, p) : dec' = r.dec /\ Written(r.samples)
  /\ UNCHANGED <<stream, enc, stale>>

----------------------------------------------------------------------------

(* The link and the receiving client. *)

\* The link delivers in order and may lose packets.
Lose ==
  /\ link # <<>> /\ faults.lost < stream.most.lost
  /\ link' = Tail(link)
  /\ faults' = [faults EXCEPT !.lost = @ + 1]
  /\ UNCHANGED <<stream, enc, dec, client, out, stale>>

\* The client closes its end; the daemon may see that on the control socket
\* before the next write tells it.
ClientLeaves ==
  /\ client = "open" /\ faults.opens < stream.most.opens
  /\ client' = "gone"
  /\ UNCHANGED <<stream, enc, link, dec, out, stale, faults>>

ControllerHup ==
  /\ client = "gone"
  /\ client' = "none"
  /\ UNCHANGED <<stream, enc, link, dec, out, stale, faults>>

ClientOpens ==
  /\ client = "none"
  /\ client' = "open"
  /\ out' = <<>>
  /\ stale' = Len(dec.pcm)
  /\ faults' = [faults EXCEPT !.opens = @ + 1]
  /\ UNCHANGED <<stream, enc, link, dec>>

----------------------------------------------------------------------------

\* The first RTP number is random.
StreamInit ==
  /\ stream \in Streams
  /\ \E n \in IF RtpStream /\ ~VoiceStream THEN {0, RtpMod - 2} ELSE {0} :
       enc = [at |-> 1, pcm |-> 0, held |-> 0, bytes |-> <<>>, h2 |-> 0, seq |-> n, ts |-> 0]
  /\ link = <<>>
  /\ dec = [at |-> "read", synced |-> FALSE, seq |-> 0, off |-> 0, ts |-> 0, data |-> <<>>,
            inner |-> <<>>, quirk |-> -3, skip |-> FALSE, cap |-> stream.mtu, pcm |-> <<>>,
            counting |-> FALSE, h2 |-> 0]
  /\ client = "open" /\ out = <<>> /\ stale = 0
  /\ faults = [lost |-> 0, drops |-> 0, overruns |-> 0, opens |-> 0]

StreamNext ==
  \/ EncoderTurn \/ EncoderDrop
  \/ DecoderTurn \/ VoiceDecode \/ VoiceWrite
  \/ Lose \/ ClientLeaves \/ ControllerHup \/ ClientOpens

----------------------------------------------------------------------------

(* Properties. *)

\* The frames the decoder did not make up.
Real == {i \in DOMAIN out : out[i] # 0}

\* Whatever is lost, dropped or torn apart on the way, no frame is written twice
\* and none before an earlier one: every thread's buffers, shifted, rewound and
\* joined as they are, keep the order of the stream.
FramesInOrder == \A i, j \in Real : i < j => out[i] < out[j]

\* As long as nothing interferes, what the client wrote is what the other client
\* is given: its frames one after another from the first unit, and every unit
\* that is not there yet is in one of the buffers or on the way.
Interfered == faults.lost + faults.drops + faults.overruns + faults.opens > 0 \/ client # "open"

BytesOnTheWay ==
  Len(enc.bytes) + FoldSeq(LAMBDA p, n : Len(p.bytes) + n, 0, link) + Len(dec.data) + Len(dec.inner)

NothingMissing ==
  ~Interfered =>
    /\ \A i \in DOMAIN out : out[i] = 1 + (i - 1) * stream.frame
    /\ enc.at + enc.pcm - 1 =
         enc.pcm + enc.held
           + stream.frame * (Len(out) + Len(dec.pcm) + BytesOnTheWay \div stream.len)

\* The codecs that make up what is missing keep the time: between two frames
\* lie as many frames, made up or not, as the stream has between them, for all
\* that the link loses.  (Not across frames left over from the client before,
\* and for LC3plus not after the client has changed: its clock is not set anew.)
KeepsTime ==
  /\ stream.codec \in {"mSBC", "LC3-SWB", "LC3plus"}
  /\ faults.drops = 0 /\ faults.overruns = 0
  /\ stream.codec = "LC3plus" => faults.opens = 0

Aligned ==
  KeepsTime =>
    \A i, j \in Real : stale < i /\ i < j => out[j] - out[i] = (j - i) * stream.frame

\* The linear buffer of an encoder has room when the thread reads again: it
\* would take a read of nothing for the end of its client.
RoomToRead == enc.pcm < PcmLen

\* Nothing is missing, and no thread stops reading for want of room.
StreamComplete == NothingMissing /\ RoomToRead

============================================================================
