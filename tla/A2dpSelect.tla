----------------------------- MODULE A2dpSelect -----------------------------
(* The configuration of an A2DP stream.  Each end offers capabilities of a
   codec, a bit mask per field; one end selects a configuration out of what
   both offer, and every end that is this daemon checks it and derives the PCM
   from it.  The daemon's capabilities depend on the options it was started
   with and on what the codec library can do.

   A bit mask is the set of its bits.  The ranges of the SBC bit pool and the
   AAC bit rate (in hi) are the two numbers of a capability. *)
EXTENDS Integers, Sequences, SequencesExt, FiniteSets, FiniteSetsExt, TLC

CONSTANTS Codec,          \* the codecs of the instance
          ForeignRates    \* the rates foreign devices differ in

Field == {"samplings", "voice", "channels", "blocks", "subbands", "allocation",
          "object", "layer", "duration", "directions", "flags"}

\* A capability, or a configuration, with the given bits.
Cap(bits, lo, hi) ==
  [bits |-> [f \in Field |-> IF f \in DOMAIN bits THEN bits[f] ELSE {}], lo |-> lo, hi |-> hi]

VARIABLES codec,    \* the codec of the stream
          options,  \* the options and library features of this daemon
          end,      \* the role "source" or "sink" |-> [ours, caps]
          stage,    \* how far the configuration has come
          by,       \* who chose it: a role, or "user"
          conf,     \* the set with the configuration, {} before there is one
          pcms      \* the PCMs each end of ours has derived from it

selVars == <<codec, options, end, stage, by, conf, pcms>>

Role == {"source", "sink"}

Other(e) == CHOOSE x \in Role : x # e

----------------------------------------------------------------------------

(* Tables: the bits of a field in the order the code walks them. *)

SbcChannels == <<"mono", "dual", "stereo", "joint">>

SbcSamplings == <<16000, 32000, 44100, 48000>>

AacChannels == <<"mono", "stereo", "5.1", "7.1">>

AacSamplings == <<8000, 11025, 12000, 16000, 22050, 24000, 32000, 44100, 48000,
                  64000, 88200, 96000>>

MpegChannels == <<"mono", "dual", "stereo", "joint">>

MpegSamplings == <<16000, 22050, 24000, 32000, 44100, 48000>>

Lc3plusChannels == <<"mono", "stereo">>

Lc3plusSamplings == <<48000, 96000>>

LdacChannels == <<"mono", "dual", "stereo">>

LdacSamplings == <<44100, 48000, 88200, 96000, 176400, 192000>>

OpusChannels == <<"mono", "dual", "stereo">>

OpusSamplings == <<48000>>

AptxChannels == <<"mono", "stereo">>

AptxSamplings == <<16000, 32000, 44100, 48000>>

AptxHdChannels == <<"mono", "stereo">>

AptxHdSamplings == <<16000, 32000, 44100, 48000>>

FastStreamMusic == <<44100, 48000>>

FastStreamVoice == <<16000>>

\* The number of channels of a mode.
Count(mode) ==
  CASE mode = "mono" -> 1
    [] mode \in {"dual", "stereo", "joint"} -> 2
    [] mode = "5.1" -> 6
    [] mode = "7.1" -> 8

\* The walk over the bits of a table that are in the mask: a bit beyond the
\* usual ends it once there is a choice, a forced one ends it with that bit, and
\* otherwise the last bit is chosen.  {} when the mask has none of the bits.
Foreach(table, mask, Beyond(_), Forced(_)) ==
  LET seen  == SelectSeq(table, LAMBDA b : b \in mask)
      skips == {i \in 2 .. Len(seen) : Beyond(seen[i])}
      stops == skips \cup {i \in DOMAIN seen : Forced(seen[i])}
      i     == Min(stops)
  IN IF seen = <<>> THEN {}
     ELSE IF stops = {} THEN {Last(seen)}
     ELSE {seen[IF i \in skips THEN i - 1 ELSE i]}

BestChannels(table, mask, o) ==
  Foreach(table, mask, LAMBDA b : Count(b) > 2, LAMBDA b : "mono" \in o /\ Count(b) = 1)

\* Slip: 48 kHz counts as beyond the usual.
BestSamplingBelow(table, mask, o) ==
  Foreach(table, mask, LAMBDA b : b >= 48000, LAMBDA b : "44100" \in o /\ b = 44100)

BestSampling(table, mask, o) ==
  Foreach(table, mask, LAMBDA b : b > 48000, LAMBDA b : "44100" \in o /\ b = 44100)

\* The value of the one bit of a mask, 0 when it is not one bit of the table.
Lookup(table, mask, Value(_)) ==
  IF \E b \in ToSet(table) : mask = {b} THEN Value(CHOOSE b \in mask : TRUE) ELSE 0

Rate(table, mask) == Lookup(table, mask, LAMBDA r : r)

\* The first bit of a sequence that is in the mask.
First(preferred, mask) ==
  LET seen == SelectSeq(preferred, LAMBDA b : b \in mask)
  IN IF seen = <<>> THEN {} ELSE {Head(seen)}

----------------------------------------------------------------------------

(* What every codec has: filter, select, check and transport_init. *)

And(caps, mask) == [f \in Field |-> caps.bits[f] \cap mask.bits[f]]

FilterSbc(mask, caps) ==
  Cap(And(caps, mask), Max({caps.lo, mask.lo}), Min({caps.hi, mask.hi}))

FilterAac(mask, caps) == Cap(And(caps, mask), caps.lo, Min({caps.hi, mask.hi}))

Filter(mask, caps) ==
  CASE codec = "SBC" -> FilterSbc(mask, caps)
    [] codec = "AAC" -> FilterAac(mask, caps)
    [] OTHER -> Cap(And(caps, mask), caps.lo, caps.hi)

\* A selection fails when a field is left without a bit.
Whole(c, fields) == \A f \in fields : c.bits[f] # {}

Single(c, fields) == \A f \in fields : Cardinality(c.bits[f]) = 1

Choose(c, chosen) == [c EXCEPT !.bits = chosen @@ @]

SbcFields == {"samplings", "channels", "blocks", "subbands", "allocation"}

SelectSbc(ours, caps, o) ==
  LET c == FilterSbc(ours, caps)
      b == c.bits
      s == Choose(c,
             [samplings  |-> IF "xq" \in o /\ 44100 \in b.samplings THEN {44100}
                             ELSE BestSampling(SbcSamplings, b.samplings, o),
              channels   |-> IF "xq" \in o /\ "dual" \in b.channels THEN {"dual"}
                             ELSE BestChannels(SbcChannels, b.channels, o),
              blocks     |-> First(<<16, 12, 8, 4>>, b.blocks),
              subbands   |-> First(<<8, 4>>, b.subbands),
              allocation |-> First(<<"loudness", "snr">>, b.allocation)])
  IN {t \in {s} : Whole(t, SbcFields) /\ t.lo <= t.hi}

CheckSbc(ours, c) ==
  LET v == FilterSbc(ours, c) IN Single(v, SbcFields) /\ v.lo <= v.hi

InitSbc(c) == [main |-> <<"S16", Lookup(SbcChannels, c.bits.channels, Count),
                          Rate(SbcSamplings, c.bits.samplings)>>]

AacFields == {"object", "samplings", "channels"}

SelectAac(ours, caps, o) ==
  LET c == FilterAac(ours, caps)
      b == c.bits
      s == Choose(c,
             [object    |-> First(<<"HE2", "HE", "ELD2", "SCA", "LTP", "LC", "MPEG2">>, b.object),
              samplings |-> BestSampling(AacSamplings, b.samplings, o),
              channels  |-> BestChannels(AacChannels, b.channels, o),
              flags     |-> IF "vbr" \in o THEN b.flags ELSE b.flags \ {"vbr"}])
  IN {t \in {[s EXCEPT !.hi = IF @ = 0 THEN ours.hi ELSE @]} : Whole(t, AacFields)}

CheckAac(ours, c) == Single(FilterAac(ours, c), AacFields)

InitAac(c) == [main |-> <<"S16", Lookup(AacChannels, c.bits.channels, Count),
                          Rate(AacSamplings, c.bits.samplings)>>]

MpegFields == {"layer", "channels", "samplings"}

SelectMpeg(ours, caps, o) ==
  LET c == Filter(ours, caps)
      b == c.bits
      s == Choose(c,
             [layer     |-> First(<<3, 2, 1>>, b.layer),
              channels  |-> BestChannels(MpegChannels, b.channels, o),
              samplings |-> BestSampling(MpegSamplings, b.samplings, o),
              flags     |-> b.flags \ {"crc", "mpf"}])
  IN {t \in {s} : Whole(t, MpegFields)}

CheckMpeg(ours, c) == Single(Filter(ours, c), MpegFields)

InitMpeg(c) == [main |-> <<"S16", Lookup(MpegChannels, c.bits.channels, Count),
                           Rate(MpegSamplings, c.bits.samplings)>>]

Lc3plusFields == {"duration", "channels", "samplings"}

SelectLc3plus(ours, caps, o) ==
  LET c == Filter(ours, caps)
      b == c.bits
      s == Choose(c,
             [duration  |-> First(<<100, 50, 25>>, b.duration),
              channels  |-> BestChannels(Lc3plusChannels, b.channels, o),
              samplings |-> BestSampling(Lc3plusSamplings, b.samplings, o)])
  IN {t \in {s} : Whole(t, Lc3plusFields)}

CheckLc3plus(ours, c) == Single(Filter(ours, c), Lc3plusFields)

InitLc3plus(c) == [main |-> <<"S24", Lookup(Lc3plusChannels, c.bits.channels, Count),
                              Rate(Lc3plusSamplings, c.bits.samplings)>>]

\* LDAC, aptX and aptX HD have a rate and a channel mode only.
PlainFields == {"samplings", "channels"}

SelectPlain(ours, caps, o, samplings, channels) ==
  LET c == Filter(ours, caps)
      s == Choose(c, [samplings |-> BestSampling(samplings, c.bits.samplings, o),
                      channels  |-> BestChannels(channels, c.bits.channels, o)])
  IN {t \in {s} : Whole(t, PlainFields)}

SelectLdac(ours, caps, o) == SelectPlain(ours, caps, o, LdacSamplings, LdacChannels)

CheckLdac(ours, c) == Single(Filter(ours, c), PlainFields)

InitLdac(c) == [main |-> <<"S32", Lookup(LdacChannels, c.bits.channels, Count),
                           Rate(LdacSamplings, c.bits.samplings)>>]

OpusFields == {"samplings", "duration", "channels"}

SelectOpus(ours, caps, o) ==
  LET c == Filter(ours, caps)
      b == c.bits
      s == Choose(c,
             [samplings |-> BestSampling(OpusSamplings, b.samplings, o),
              duration  |-> First(<<200, 100>>, b.duration),
              channels  |-> BestChannels(OpusChannels, b.channels, o)])
  IN {t \in {s} : Whole(t, OpusFields)}

CheckOpus(ours, c) == Single(Filter(ours, c), OpusFields)

InitOpus(c) == [main |-> <<"S16", Lookup(OpusChannels, c.bits.channels, Count),
                           Rate(OpusSamplings, c.bits.samplings)>>]

SelectAptx(ours, caps, o) == SelectPlain(ours, caps, o, AptxSamplings, AptxChannels)

CheckAptx(ours, c) == Single(Filter(ours, c), PlainFields)

InitAptx(c) == [main |-> <<"S16", Lookup(AptxChannels, c.bits.channels, Count),
                           Rate(AptxSamplings, c.bits.samplings)>>]

SelectAptxHd(ours, caps, o) == SelectPlain(ours, caps, o, AptxHdSamplings, AptxHdChannels)

CheckAptxHd(ours, c) == Single(Filter(ours, c), PlainFields)

InitAptxHd(c) == [main |-> <<"S24", Lookup(AptxHdChannels, c.bits.channels, Count),
                             Rate(AptxHdSamplings, c.bits.samplings)>>]

\* FastStream carries music one way and voice the other; selecting needs both.
SelectFastStream(ours, caps, o) ==
  LET c == Filter(ours, caps)
      b == c.bits
      s == Choose(c, [voice     |-> BestSampling(FastStreamVoice, b.voice, o),
                      samplings |-> BestSampling(FastStreamMusic, b.samplings, o)])
  IN {t \in {s} : {"music", "voice"} \subseteq b.directions /\ Whole(t, {"voice", "samplings"})}

CheckFastStream(ours, c) ==
  LET v == Filter(ours, c)
  IN /\ v.bits.directions # {}
     /\ "voice" \in v.bits.directions => Single(v, {"voice"})
     /\ "music" \in v.bits.directions => Single(v, {"samplings"})

InitFastStream(c) ==
  [d \in c.bits.directions |->
    IF d = "music" THEN <<"S16", 2, Rate(FastStreamMusic, c.bits.samplings)>>
    ELSE <<"S16", 1, Rate(FastStreamVoice, c.bits.voice)>>]

----------------------------------------------------------------------------

(* The capabilities of this daemon's endpoints.  Options narrow a source. *)

All(table) == ToSet(table)

ForcedMono(o, S) == IF "mono" \in o THEN {"mono"} ELSE S

Forced44100(o, S) == IF "44100" \in o THEN {44100} ELSE S

SbcSink(o) ==
  Cap([samplings |-> All(SbcSamplings), channels |-> All(SbcChannels),
       blocks |-> {4, 8, 12, 16}, subbands |-> {4, 8},
       allocation |-> {"snr", "loudness"}], 2, 250)

SbcSource(o) ==
  LET S == IF "xq" \in o THEN {44100} ELSE All(SbcSamplings)
      C == IF "xq" \in o THEN {"dual"} ELSE All(SbcChannels)
  IN Choose(SbcSink(o), [samplings |-> Forced44100(o, S), channels |-> ForcedMono(o, C)])

\* The object types and the range control that the library adds.
AacLibrary(o) ==
  [object |-> {"MPEG2", "LC"} \cup (o \cap {"SCA", "HE", "HE2", "ELD2"}), flags |-> o \cap {"drc"}]

AacSource(o) ==
  Cap([object    |-> AacLibrary(o).object,
       samplings |-> Forced44100(o, All(AacSamplings)),
       channels  |-> ForcedMono(o, All(AacChannels)),
       flags     |-> AacLibrary(o).flags \cup (o \cap {"vbr"})], 0, 220000)

AacSink(o) ==
  Cap([object    |-> AacLibrary(o).object,
       samplings |-> All(AacSamplings),
       channels  |-> {"mono", "stereo"} \cup (o \cap {"5.1", "7.1"}),
       flags     |-> AacLibrary(o).flags \cup {"vbr"}], 0, 220000)

MpegSource(o) ==
  Cap([layer     |-> {3},
       samplings |-> Forced44100(o, All(MpegSamplings)),
       channels  |-> ForcedMono(o, {"mono", "stereo", "joint"}),
       flags     |-> {"crc", "vbr"}], 0, 0)

\* With the option "mpg123" the decoder is that library's, LAME's otherwise.
MpegSink(o) ==
  LET full == "mpg123" \in o
  IN Cap([layer     |-> IF full THEN {1, 2, 3} ELSE {3},
          samplings |-> All(MpegSamplings),
          channels  |-> IF full THEN All(MpegChannels) ELSE {"mono", "stereo", "joint"},
          flags     |-> {"crc", "vbr"}], 0, 0)

Lc3plusSink(o) ==
  Cap([duration |-> {25, 50, 100}, samplings |-> All(Lc3plusSamplings),
       channels |-> All(Lc3plusChannels)], 0, 0)

Lc3plusSource(o) ==
  Cap([duration |-> {25, 50, 100}, samplings |-> All(Lc3plusSamplings),
       channels |-> ForcedMono(o, All(Lc3plusChannels))], 0, 0)

LdacSink(o) ==
  Cap([samplings |-> {44100, 48000, 88200, 96000}, channels |-> All(LdacChannels)], 0, 0)

LdacSource(o) ==
  Cap([samplings |-> Forced44100(o, {44100, 48000, 88200, 96000}),
       channels  |-> ForcedMono(o, All(LdacChannels))], 0, 0)

OpusSink(o) ==
  Cap([samplings |-> {48000}, duration |-> {100, 200}, channels |-> {"mono", "stereo"}], 0, 0)

OpusSource(o) ==
  Cap([samplings |-> {48000}, duration |-> {100, 200},
       channels  |-> ForcedMono(o, {"mono", "stereo"})], 0, 0)

AptxSink(o) == Cap([samplings |-> All(AptxSamplings), channels |-> {"stereo"}], 0, 0)

AptxSource(o) ==
  Cap([samplings |-> Forced44100(o, All(AptxSamplings)), channels |-> {"stereo"}], 0, 0)

AptxHdSink(o) == Cap([samplings |-> All(AptxHdSamplings), channels |-> {"stereo"}], 0, 0)

AptxHdSource(o) ==
  Cap([samplings |-> Forced44100(o, All(AptxHdSamplings)), channels |-> {"stereo"}], 0, 0)

FastStreamSink(o) ==
  Cap([directions |-> {"music", "voice"}, samplings |-> All(FastStreamMusic),
       voice |-> All(FastStreamVoice)], 0, 0)

FastStreamSource(o) ==
  Cap([directions |-> {"music", "voice"}, voice |-> All(FastStreamVoice),
       samplings  |-> Forced44100(o, All(FastStreamMusic))], 0, 0)

----------------------------------------------------------------------------

(* The endpoints by codec. *)

Ours(e, o, k) ==
  CASE k = "SBC"        -> IF e = "source" THEN SbcSource(o) ELSE SbcSink(o)
    [] k = "AAC"        -> IF e = "source" THEN AacSource(o) ELSE AacSink(o)
    [] k = "MPEG"       -> IF e = "source" THEN MpegSource(o) ELSE MpegSink(o)
    [] k = "LC3plus"    -> IF e = "source" THEN Lc3plusSource(o) ELSE Lc3plusSink(o)
    [] k = "LDAC"       -> IF e = "source" THEN LdacSource(o) ELSE LdacSink(o)
    [] k = "Opus"       -> IF e = "source" THEN OpusSource(o) ELSE OpusSink(o)
    [] k = "aptX"       -> IF e = "source" THEN AptxSource(o) ELSE AptxSink(o)
    [] k = "aptX HD"    -> IF e = "source" THEN AptxHdSource(o) ELSE AptxHdSink(o)
    [] k = "FastStream" -> IF e = "source" THEN FastStreamSource(o) ELSE FastStreamSink(o)

SelectConfiguration(ours, caps, o) ==
  CASE codec = "SBC"        -> SelectSbc(ours, caps, o)
    [] codec = "AAC"        -> SelectAac(ours, caps, o)
    [] codec = "MPEG"       -> SelectMpeg(ours, caps, o)
    [] codec = "LC3plus"    -> SelectLc3plus(ours, caps, o)
    [] codec = "LDAC"       -> SelectLdac(ours, caps, o)
    [] codec = "Opus"       -> SelectOpus(ours, caps, o)
    [] codec = "aptX"       -> SelectAptx(ours, caps, o)
    [] codec = "aptX HD"    -> SelectAptxHd(ours, caps, o)
    [] codec = "FastStream" -> SelectFastStream(ours, caps, o)

CheckConfiguration(ours, c) ==
  CASE codec = "SBC"        -> CheckSbc(ours, c)
    [] codec = "AAC"        -> CheckAac(ours, c)
    [] codec = "MPEG"       -> CheckMpeg(ours, c)
    [] codec = "LC3plus"    -> CheckLc3plus(ours, c)
    [] codec = "LDAC"       -> CheckLdac(ours, c)
    [] codec = "Opus"       -> CheckOpus(ours, c)
    [] codec = "aptX"       -> CheckAptx(ours, c)
    [] codec = "aptX HD"    -> CheckAptxHd(ours, c)
    [] codec = "FastStream" -> CheckFastStream(ours, c)

TransportInit(c) ==
  CASE codec = "SBC"        -> InitSbc(c)
    [] codec = "AAC"        -> InitAac(c)
    [] codec = "MPEG"       -> InitMpeg(c)
    [] codec = "LC3plus"    -> InitLc3plus(c)
    [] codec = "LDAC"       -> InitLdac(c)
    [] codec = "Opus"       -> InitOpus(c)
    [] codec = "aptX"       -> InitAptx(c)
    [] codec = "aptX HD"    -> InitAptxHd(c)
    [] codec = "FastStream" -> InitFastStream(c)

\* The options a daemon may be started with, and what its libraries can do.
Options(k) ==
  LET relevant == CASE k = "SBC"  -> {"mono", "44100", "xq"}
                    [] k = "AAC"  -> {"mono", "44100", "vbr", "HE", "ELD2", "5.1"}
                    [] k = "MPEG" -> {"mono", "44100", "mpg123"}
                    [] OTHER -> {"mono", "44100"}
  IN {o \in SUBSET relevant : Cardinality(o) <= 2}

----------------------------------------------------------------------------

(* A foreign device offers what its maker chose: here the whole codec but for
   two fields, which have at most two bits, and for the numbers. *)

WholeCodec(k) ==
  LET c == Ours("sink", {"mpg123", "5.1", "7.1", "HE", "HE2", "ELD2", "SCA"}, k)
  IN Choose(c, [samplings |-> (IF k = "LDAC" THEN All(LdacSamplings) ELSE c.bits.samplings)
                                \cap ForeignRates])

Narrowings(k) ==
  LET full == WholeCodec(k)
      Most == [f \in Field |-> IF f \in {"samplings", "channels"} THEN 2 ELSE 1]
      Few(f) == {S \in SUBSET full.bits[f] : Cardinality(S) <= Most[f]} \cup {full.bits[f]}
      Fields == {f \in Field : full.bits[f] # {}} \ {"flags"}
  IN UNION {{Choose(full, [x \in {f, g} |-> IF x = f THEN S ELSE T]) : S \in Few(f), T \in Few(g)}
              : <<f, g>> \in {p \in Fields \X Fields : p[1] # p[2] \/ Cardinality(Fields) = 1}}

Foreign(k) ==
  LET Pools == CASE k = "SBC" -> {<<2, 53>>, <<20, 40>>, <<40, 20>>}
                 [] k = "AAC" -> {<<0, 0>>, <<0, 320000>>}
                 [] OTHER -> {<<0, 0>>}
      With(c, p) == [c EXCEPT !.lo = p[1], !.hi = p[2]]
  IN {With(WholeCodec(k), p) : p \in Pools}
     \cup {With(c, CHOOSE p \in Pools : p[1] <= p[2]) : c \in Narrowings(k)}

SelInit ==
  /\ codec \in Codec
  /\ options \in Options(codec)
  /\ \E mine \in SUBSET Role \ {{}} :
       \/ /\ mine # Role
          /\ \E caps \in Foreign(codec) :
               end = [e \in Role |-> IF e \in mine
                                     THEN [ours |-> TRUE, caps |-> Ours(e, options, codec)]
                                     ELSE [ours |-> FALSE, caps |-> caps]]
       \/ /\ mine = Role
          /\ \E o \in Options(codec) :   \* another machine with its own options
               end = [e \in Role |-> [ours |-> TRUE,
                        caps |-> Ours(e, IF e = "source" THEN options ELSE o, codec)]]
  /\ stage = "idle" /\ by = "none"
  /\ conf = {}
  /\ pcms = [e \in Role |-> <<>>]

Selects(e) == end[e].ours /\ (e = "source" \/ ~end["source"].ours)

\* BlueZ asks an endpoint of this daemon for a configuration.
EndpointSelect(e) ==
  /\ stage = "idle" /\ Selects(e)
  /\ conf' = SelectConfiguration(end[e].caps, end[Other(e)].caps, options)
  /\ stage' = IF conf' = {} THEN "failed" ELSE "chosen"
  /\ by' = e
  /\ UNCHANGED <<codec, options, end, pcms>>

\* The configurations a device or a user asks for: any rate and channel mode
\* of the codec, with one bit of each other field.
Wishes ==
  LET full == WholeCodec(codec)
      One(f) == IF f \in {"flags", "directions"} \/ full.bits[f] = {} THEN full.bits[f]
                ELSE {CHOOSE b \in full.bits[f] : TRUE}
  IN {Choose([full EXCEPT !.bits = [f \in Field |-> One(f)]],
             [samplings |-> {r}] @@ (IF m = "none" THEN <<>> ELSE [channels |-> {m}]))
        : r \in full.bits.samplings,
          m \in IF full.bits.channels = {} THEN {"none"} ELSE full.bits.channels}

Within(c, caps) ==
  /\ \A f \in Field \ {"flags"} : c.bits[f] \subseteq caps.bits[f]
  /\ codec = "SBC" => c.lo >= caps.lo /\ c.hi <= caps.hi

\* The foreign device initiates: any configuration both ends offer.
ForeignChooses(e) ==
  /\ stage = "idle" /\ ~end[e].ours
  /\ \E w \in Wishes :
       /\ Within(Filter(end[Other(e)].caps, Filter(end[e].caps, w)), end[e].caps)
       /\ conf' = {Filter(end[Other(e)].caps, Filter(end[e].caps, w))}
       /\ \A f \in Field \ {"flags"} : WholeCodec(codec).bits[f] # {} =>
            \A c \in conf' : c.bits[f] # {}
       /\ \A c \in conf' : c.lo <= c.hi \/ codec # "SBC"
  /\ stage' = "chosen" /\ by' = e
  /\ UNCHANGED <<codec, options, end, pcms>>

\* SelectCodec with a configuration: it is filtered with what the remote end
\* offers and then checked.
SelectCodec(e) ==
  /\ stage = "set" /\ Selects(e)
  /\ \E w \in Wishes :
       LET c == Filter(end[Other(e)].caps, w)
       IN IF CheckConfiguration(end[e].caps, c)
          THEN /\ conf' = {c} /\ stage' = "chosen" /\ by' = "user"
               /\ pcms' = [x \in Role |-> <<>>]
          ELSE UNCHANGED <<conf, stage, by, pcms>>
  /\ UNCHANGED <<codec, options, end>>

\* The encoder of MPEG is for layer 3 only: starting it for another one aborts.
CanStart(e, c) == codec = "MPEG" /\ e = "source" => c.bits.layer = {3}

\* BlueZ gives the configuration to the endpoint: it is checked, and the new
\* transport derives its PCMs.
SetConfiguration(e) ==
  /\ stage = "chosen" /\ end[e].ours /\ pcms[e] = <<>>
  /\ \A c \in conf :
       IF CheckConfiguration(end[e].caps, c)
       THEN /\ pcms' = [pcms EXCEPT ![e] = TransportInit(c)]
            /\ stage' = IF \A x \in Role : end[x].ours => pcms'[x] # <<>> THEN "set" ELSE stage
       ELSE stage' = "refused" /\ UNCHANGED pcms
  /\ UNCHANGED <<codec, options, end, by, conf>>

SelNext ==
  \E e \in Role :
     EndpointSelect(e) \/ ForeignChooses(e) \/ SelectCodec(e) \/ SetConfiguration(e)

----------------------------------------------------------------------------

(* What an end chooses is a configuration of every end: each daemon's check
   passes it, so BlueZ's SetConfiguration is not refused after the choice,
   the encoder can be started, and a foreign device is asked for nothing it
   did not offer.  The options of the
   daemon that chooses, the narrowed capabilities of its endpoints and the
   walks over the tables have to agree for this. *)
SelectedAccepted ==
  /\ stage # "refused"
  /\ \A c \in conf, e \in Role :
       IF end[e].ours THEN CheckConfiguration(end[e].caps, c) /\ CanStart(e, c)
       ELSE Within(c, end[e].caps)

Common(f) == end["source"].caps.bits[f] \cap end["sink"].caps.bits[f]

\* The best of the values S: the one that is asked for, else the greatest that
\* is not beyond the limit, else the least.
Best(S, asked, limit) ==
  IF asked \in S THEN asked
  ELSE IF \E x \in S : x <= limit THEN Max({x \in S : x <= limit}) ELSE Min(S)

\* No configuration suits both ends, or FastStream lacks one of the directions.
Barred ==
  \/ \E f \in Field \ {"flags"} : end[by].caps.bits[f] # {} /\ Common(f) = {}
  \/ codec = "SBC" /\ Max({end[e].caps.lo : e \in Role}) > Min({end[e].caps.hi : e \in Role})
  \/ codec = "FastStream" /\ Common("directions") # {"music", "voice"}

(* A selection succeeds whenever the two ends have a configuration in common,
   and it takes the best one: the rate and the number of channels the options
   ask for when both ends have them, otherwise the most up to 48 kHz and two
   channels, which more are only taken for want of less.  An AAC bit rate the
   other end leaves open is not left at zero. *)
SelectionBest ==
  by \in Role /\ end[by].ours /\ stage # "idle" =>
    /\ conf = {} => Barred
    /\ \A c \in conf :
         LET quality == codec = "SBC" /\ "xq" \in options
         IN /\ ~Barred
            /\ codec = "AAC" => c.hi > 0
            /\ c.bits.samplings =
                 {Best(Common("samplings"),
                       IF quality \/ "44100" \in options THEN 44100 ELSE 0, 48000)}
            /\ {Count(m) : m \in c.bits.channels} =
                 {Best({Count(m) : m \in C}, IF "mono" \in options /\ ~(quality /\ "dual" \in C)
                                             THEN 1 ELSE 0, 2)
                    : C \in {Common("channels")} \ {{}}}
            /\ quality /\ "dual" \in Common("channels") => c.bits.channels = {"dual"}

(* The transports of the two ends derive the same PCMs from the configuration,
   and derive them completely: a failure of transport_init is looked at by
   nobody, it would leave a PCM without channels. *)
PcmsAgree ==
  /\ \A e \in Role : \A p \in DOMAIN pcms[e] : pcms[e][p][2] > 0 /\ pcms[e][p][3] > 0
  /\ \A e, x \in Role : pcms[e] # <<>> /\ pcms[x] # <<>> => pcms[e] = pcms[x]

\* The choice is acceptable to both ends, the best there is, and means the same
\* to both.
SelectionRight == SelectedAccepted /\ SelectionBest /\ PcmsAgree

=============================================================================
