------------------------------ MODULE MCAsound ------------------------------
(* The two plug-ins of bluez-alsa for alsa-lib.  An instance is the sum of the
   two: each behaviour is one of a single part, named by the variable `part`,
   while the other stays where it begins. *)
EXTENDS BaPcm, BaCtl

VARIABLE part

vars == <<part, pcmVars, ctlVars>>

Init ==
  \/ part = "pcm" /\ PcmInit /\ CtlInit /\ events = (CHOOSE s \in CtlSetups : TRUE).most
  \/ part = "ctl" /\ CtlInit /\ PcmInit /\ hw = CHOOSE s \in Setups : TRUE

Pcm == part = "pcm" /\ PcmNext /\ UNCHANGED <<part, ctlVars>>
Ctl == part = "ctl" /\ CtlNext /\ UNCHANGED <<part, pcmVars>>

Next == Pcm \/ Ctl

Spec == Init /\ [][Next]_vars /\ PcmFairness

----------------------------------------------------------------------------

Setup(s, b, p, c) ==
  [stream |-> s, buffer |-> b, period |-> p, min |-> p, commands |-> c]

\* Two periods, and the sizes powers of two.  Periods of one frame under four
\* commands, and of two frames, which may lie at the end and at the start of the
\* ring, under two.
MCSetups ==
  { Setup("PLAYBACK", 2, 1, 4), Setup("CAPTURE", 2, 1, 4),
    Setup("PLAYBACK", 4, 2, 2), Setup("CAPTURE", 4, 2, 2) }

P(d, l, source, sink) == [dev |-> d, link |-> l, source |-> source, sink |-> sink]

\* A headset with both directions, whose A2DP profile is of playback, a telephone
\* that sends music too, and two more devices.
Play1 == P(1, "A2DP", TRUE, TRUE)
Music1 == P(1, "A2DP", FALSE, FALSE)
Speaker1 == P(1, "SCO", TRUE, TRUE)
Microphone1 == P(1, "SCO", TRUE, FALSE)
Play2 == P(2, "A2DP", TRUE, TRUE)
Play3 == P(3, "A2DP", TRUE, TRUE)

MCSounds == {Play1, Music1, Speaker1, Microphone1, Play2, Play3}

\* "A", "B", and "A #1"
MCAliases == {<<10>>, <<11>>, <<10, 1>>}

Opened(of, dynamic, btt, show, sounds) ==
  [of |-> of, dynamic |-> dynamic, btt |-> btt, show |-> show, sounds |-> sounds]

M(adds, removes, changes, ends, levels, renames, disconnects, opens, writes, refusals) ==
  [adds |-> adds, removes |-> removes, changes |-> changes, ends |-> ends, levels |-> levels,
   renames |-> renames, disconnects |-> disconnects, opens |-> opens, writes |-> writes,
   refusals |-> refusals]

With(setup, third, most) ==
  [of |-> setup.of, dynamic |-> setup.dynamic, btt |-> setup.btt, show |-> setup.show,
   sounds |-> setup.sounds, alias |-> (1 :> <<10>> @@ 2 :> <<10>> @@ 3 :> third), most |-> most]

\* Two devices with one alias, of which one may be renamed; three, of which one
\* may be called by the number of another; a codec chosen while another PCM comes
\* or goes; two profiles of a device with codecs, with and without their names; one
\* device with a battery, and the daemon ending; mixers that keep their elements;
\* a delay and a volume changed from two sides.
MCCtlSetups ==
  { With(Opened(All, TRUE, FALSE, {}, {Play1, Play2}), <<11>>,
         M(3, 1, 0, 0, 0, 1, 0, 1, 0, 0)),
    With(Opened(All, TRUE, FALSE, {}, {Play1, Play2, Play3}), <<10, 1>>,
         M(3, 0, 0, 0, 0, 0, 0, 1, 0, 0)),
    With(Opened(All, TRUE, FALSE, {"codec"}, {Play1, Play2}), <<11>>,
         M(2, 1, 0, 0, 0, 0, 0, 1, 1, 1)),
    With(Opened(All, TRUE, FALSE, {"codec"}, {Play1, Music1}), <<11>>,
         M(2, 1, 0, 0, 0, 0, 0, 1, 0, 0)),
    With(Opened(1, TRUE, TRUE, {"codec"}, {Play1, Music1, Play2}), <<11>>,
         M(3, 1, 0, 0, 0, 0, 0, 1, 1, 0)),
    With(Opened(1, TRUE, FALSE, {"battery"}, {Play1, Speaker1, Play2}), <<11>>,
         M(2, 1, 0, 1, 1, 0, 0, 1, 0, 0)),
    With(Opened(Latest, FALSE, FALSE, {"mode"}, {Speaker1, Microphone1, Play2}), <<11>>,
         M(2, 1, 0, 0, 0, 0, 0, 1, 1, 0)),
    With(Opened(1, FALSE, FALSE, {}, {Play1, Play2}), <<11>>,
         M(1, 1, 1, 0, 0, 0, 1, 1, 1, 0)),
    With(Opened(All, TRUE, FALSE, {"sync"}, {Play1, Music1}), <<11>>,
         M(1, 0, 1, 1, 0, 0, 0, 1, 1, 1)) }

=============================================================================
