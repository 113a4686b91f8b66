------------------------------ MODULE BaRfcomm ------------------------------
(***************************************************************************)
(* bluez-alsa: the AT commands that two ends of a headset connection send  *)
(* each other (src/ba-rfcomm.c, with ba_transport_select_codec_sco() of    *)
(* src/ba-transport.c).  Each end has a thread, rfcomm_thread():           *)
(*                                                                         *)
(*   "hf"  the hands-free unit or headset, which asks                      *)
(*   "ag"  the audio gateway, which answers; a telephone that is not this  *)
(*         program may also ignore a command, or refuse it                 *)
(*                                                                         *)
(* One turn of the loop is one action: what the poll reported, the         *)
(* callback, and the beginning of the next turn up to its poll.  A turn    *)
(* that ends a codec selection is two, since a client may run before       *)
(* rfcomm_finalize_codec_selection() has the mutex.                        *)
(***************************************************************************)
EXTENDS Naturals, Sequences, FiniteSetsExt, Functions

Ends == {"ag", "hf"}
Peer(e) == IF e = "ag" THEN "hf" ELSE "ag"

CONSTANTS
  Links,    \* bound: kinds of connection, each with its number of events
  Retries   \* BA_RFCOMM_SLC_RETRIES

ASSUME RfcommAssumption ==
  /\ Retries \in Nat
  /\ Links \subseteq
       [ hsp : BOOLEAN, battery : BOOLEAN, selects : Nat, updates : Nat, refusals : Nat,
         ignores : Nat, up : {TRUE}, loss : BOOLEAN, own : [Ends -> {{1}, {1, 2}, {1, 3}, {1, 2, 3}}] ]

\* hfp_slc_state: 1 BRSF_SET, 2 BRSF_SET_OK, 3 BAC_SET_OK, 4 CIND_TEST,
\* 5 CIND_TEST_OK, 6 CIND_GET, 7 CIND_GET_OK, 8 CMER_SET_OK
Connected == 9
SetupComplete == 5    \* HFP_SETUP_COMPLETE; 4 is HFP_SETUP_SELECT_CODEC
Undefined == 0
Cvsd == 1
Wideband == {2, 3}    \* mSBC, LC3-SWB
None == "none"

\* Signals of the pipe; a signal for a codec is the codec.
Volume == 10
Battery == 11

VARIABLES
  link,    \* the kind of connection, and what is left of its events
  end,     \* struct ba_rfcomm and the codec and volume of its transport
  wire,    \* the messages on their way to each end
  sig,     \* the notification pipe of each thread
  client,  \* the caller of SelectCodec(), one at a time: codec_select_client_mtx
  done,    \* codec_selection_done of each end
  crossed  \* history: the choices of codec, or the gains, that met on their way

vars == <<link, end, wire, sig, client, done, crossed>>

\* The codecs an end is configured for, as ba_rfcomm_new notes them, and whether
\* ba_adapter_get_hfp_features_ag, _hf therefore offer codec negotiation.
Own(e) == link.own[e]
Wide(e) == Own(e) \cap Wideband # {}

\* ba_transport_new_sco, ba_rfcomm_new; codecs holds hf_codecs of the gateway and
\* ag_codecs of the unit, which is what each knows of the other; feat is whether
\* the features of each end, as this end knows them, have codec negotiation.
NewEnd(e) ==
  [ state |-> 0, prev |-> 0, setup |-> 0, handler |-> None, new |-> 0, retries |-> 0,
    codec |-> IF link.hsp \/ ~Wide(e) THEN Cvsd ELSE Undefined,
    codecId |-> Undefined, codecs |-> IF link.hsp THEN {Cvsd} ELSE {},
    feat |-> IF Wide(e) THEN {e} ELSE {},
    gain |-> 1, level |-> 1, xapl |-> FALSE, cmer |-> FALSE,
    pc |-> "start", reader |-> << >>, out |-> << >> ]

Init ==
  /\ link \in Links
  /\ end = [e \in Ends |-> NewEnd(e)]
  /\ wire = [e \in Ends |-> << >>]
  /\ sig = [e \in Ends |-> << >>]
  /\ client = [at |-> "idle", end |-> "ag", codec |-> Cvsd]
  /\ done = [e \in Ends |-> FALSE]
  /\ crossed = {}

----------------------------------------------------------------------------
(* Helpers: the end s is e; what a callback writes is gathered in out. *)

Write(s, m, v) == [s EXCEPT !.out = Append(@, [m |-> m, v |-> v])]
Ask(s, m, v, h) == [Write(s, m, v) EXCEPT !.handler = h]

\* if (r->state < n) rfcomm_set_hfp_state(r, n)
Raise(s, n) == [s EXCEPT !.state = IF @ < n THEN n ELSE @]

SetCodec(s, c) == [s EXCEPT !.codec = c]

\* The callback is over but for rfcomm_finalize_codec_selection.
Finalize(s) == [s EXCEPT !.pc = "final"]

\* Slip: the codec that the answer must name is not noted.
HfpSetCodecUnnoted(e, s, c) ==
  IF s.state # Connected \/ e # "ag" THEN Finalize(s) ELSE Ask(s, "+BCS", c, "bcsSet")

\* rfcomm_hfp_set_codec
HfpSetCodec(e, s, c) ==
  IF s.state # Connected \/ e # "ag" THEN Finalize(s)
  ELSE [Ask(s, "+BCS", c, "bcsSet") EXCEPT !.codecId = c]

\* rfcomm_hfp_setup_codec_connection: the best codec of both.
SetupCodec(e, s) ==
  IF s.state # Connected \/ s.codec # Undefined THEN s
  ELSE IF e = "hf" THEN Ask(s, "AT+BCC", 0, "ok")
  ELSE IF Own(e) \cap s.codecs = {} THEN s
  ELSE HfpSetCodec(e, s, Max(Own(e) \cap s.codecs))

\* rfcomm_notify_volume_change_mic, _spk; only the gain of the microphone has a
\* value here, the other one is sent once.
NotifyMic(e, s, force) ==
  IF ~force /\ s.gain = s.level THEN s
  ELSE IF e = "ag" THEN Write([s EXCEPT !.gain = s.level], "+VGM", s.level)
  ELSE Ask([s EXCEPT !.gain = s.level], "AT+VGM", s.level, "ok")

NotifySpk(s) == Ask(s, "AT+VGS", 0, "ok")

\* rfcomm_notify_battery_level_change
NotifyBattery(e, s) ==
  IF ~link.battery THEN s
  ELSE IF e = "ag" THEN IF ~link.hsp /\ s.cmer THEN Write(s, "+CIEV", 0) ELSE s
  ELSE IF s.xapl THEN Ask(s, "AT+IPHONEACCEV", 0, "ok") ELSE s

----------------------------------------------------------------------------
(* The beginning of a turn *)

\* The unit asks for the next thing the connection needs, or waits for the OK
\* that ends an answer.
SlcUnit(s) ==
  LET Ok(n) == [s EXCEPT !.handler = "ok", !.new = n]
  IN  CASE s.state = 0 -> Ask(s, "AT+BRSF", Wide("hf"), "brsf")
        [] s.state = 1 -> Ok(2)
        [] s.state = 2 /\ s.feat = Ends -> [Ask(s, "AT+BAC", Own("hf"), "ok") EXCEPT !.new = 3]
        [] s.state \in {2, 3} /\ ~(s.state = 2 /\ s.feat = Ends) -> Ask(s, "AT+CIND=?", 0, "cindTest")
        [] s.state = 4 -> Ok(5)
        [] s.state = 5 -> Ask(s, "AT+CIND?", 0, "cindGet")
        [] s.state = 6 -> Ok(7)
        [] s.state = 7 -> [Ask(s, "AT+CMER", 0, "ok") EXCEPT !.new = 8]
        [] s.state = 8 -> [s EXCEPT !.state = Connected]

\* The gateway waits until it has been asked everything.
SlcGateway(s) == IF s.state = 8 THEN [s EXCEPT !.state = Connected] ELSE s

SetupUnit(s, idle) ==
  CASE s.setup = 0 -> [NotifyMic("hf", s, TRUE) EXCEPT !.setup = 1]
    [] s.setup = 1 -> [NotifySpk(s) EXCEPT !.setup = 2]
    [] s.setup = 2 -> [Ask(s, "AT+XAPL", 0, "xapl") EXCEPT !.setup = 3]
    [] s.setup = 3 -> [NotifyBattery("hf", s) EXCEPT !.setup = 4]
    [] s.setup = 4 -> IF idle THEN [SetupCodec("hf", s) EXCEPT !.setup = SetupComplete] ELSE s
    [] s.setup = 5 -> s

SetupGateway(s, idle) ==
  IF link.hsp \/ s.codec # Undefined THEN [s EXCEPT !.setup = SetupComplete]
  ELSE IF idle THEN [SetupCodec("ag", s) EXCEPT !.setup = SetupComplete] ELSE s

Setup(e, s, idle) ==
  IF s.setup = SetupComplete THEN s
  ELSE IF e = "hf" THEN SetupUnit(s, idle) ELSE SetupGateway(s, idle)

\* Some progress has been made: the retries are counted anew.
Progress(s) == IF s.state # s.prev THEN [s EXCEPT !.prev = s.state, !.retries = 0] ELSE s

Slc(e, s, idle) ==
  IF s.retries > Retries THEN [s EXCEPT !.pc = "end"]
  ELSE IF link.hsp THEN Setup(e, [s EXCEPT !.state = Connected], idle)
  ELSE IF e = "hf" THEN SlcUnit(s) ELSE SlcGateway(s)

Begun(e, s, idle) ==
  IF s.handler # None THEN s
  ELSE IF s.state # Connected THEN Slc(e, Progress(s), idle) ELSE Setup(e, s, idle)

\* process: what is waited for counts as a try.  The counter is read until the
\* connection is there, and is left alone here afterwards and above its bound.
Count(s) ==
  IF s.handler = None \/ s.state = Connected THEN s
  ELSE [s EXCEPT !.retries = IF @ > Retries + 1 THEN @ ELSE @ + 1]

----------------------------------------------------------------------------
(* The callbacks *)

\* rfcomm_handler_resp_ok_cb
RespOk(s, m) ==
  IF m.m = "ERROR" THEN [s EXCEPT !.handler = None]
  ELSE IF s.state # Connected THEN [s EXCEPT !.state = s.new] ELSE s

\* rfcomm_handler_resp_bcs_ok_cb
RespBcsOk(s, m) ==
  IF m.m = "ERROR" THEN Finalize(SetCodec(RespOk(s, m), Undefined)) ELSE RespOk(s, m)

\* rfcomm_handler_brsf_resp_cb
RespBrsf(s, m) ==
  LET s1 == [s EXCEPT !.feat = IF m.v THEN @ \cup {"ag"} ELSE @ \ {"ag"},
                      !.codec = IF m.v THEN @ ELSE Cvsd,
                      !.codecs = @ \cup IF m.v THEN {Cvsd} \cup Wideband ELSE {Cvsd}]
  IN  Raise(s1, 1)

\* rfcomm_handler_vgm_resp_cb; rfcomm_handler_vgm_set_cb then answers.
SetGain(s, m) == [s EXCEPT !.gain = m.v, !.level = m.v]

\* rfcomm_handler_bcs_resp_cb: a codec the unit has not is answered with those it
\* has, any other is chosen at once.
RespBcs(s, m) ==
  IF m.v \notin Own("hf") THEN Ask(s, "AT+BAC", Own("hf"), "ok")
  ELSE LET s1 == Ask([s EXCEPT !.codecId = m.v], "AT+BCS", m.v, "bcsOk")
       IN  Finalize(SetCodec(s1, m.v))

\* The callbacks of the unit; h is the handler, when it waits for this message.
UnitCall(s, m, h) ==
  CASE h = "bcsOk"    -> RespBcsOk(s, m)
    [] h = "brsf"     -> RespBrsf(s, m)
    [] h = "cindTest" -> Raise(s, 4)
    [] h = "cindGet"  -> Raise(s, 6)
    [] OTHER ->
         CASE m.m \in {"OK", "ERROR"} -> RespOk(s, m)
           [] m.m = "+VGM"  -> SetGain(s, m)
           [] m.m = "+XAPL" -> [s EXCEPT !.xapl = TRUE, !.handler = "ok"]
           [] m.m = "+BCS"  -> RespBcs(s, m)
           [] OTHER -> s

Ok(s) == Write(s, "OK", 0)

\* Slip: the features are sent, and no OK.
SetBrsfAlone(s, m) == Raise(Write(s, "+BRSF", Wide("ag")), 2)

\* rfcomm_handler_brsf_set_cb
SetBrsf(s, m) ==
  LET s1 == [s EXCEPT !.feat = IF m.v THEN @ \cup {"hf"} ELSE @ \ {"hf"},
                      !.codec = IF m.v THEN @ ELSE Cvsd,
                      !.codecs = @ \cup (IF m.v /\ Wide("ag") THEN {} ELSE {Cvsd})
                                   \cup (IF m.v /\ ~Wide("ag") THEN Wideband ELSE {})]
  IN  Raise(Ok(Write(s1, "+BRSF", Wide("ag"))), 2)

\* Slip: other codecs of the unit are no answer to a codec selection.
SetBacOnly(s, m) == Raise(Ok([s EXCEPT !.codecs = m.v]), 3)

\* rfcomm_handler_bac_set_cb
SetBac(s, m) ==
  LET s1 == Raise(Ok([s EXCEPT !.codecs = m.v]), 3)
  IN  IF s1.state = Connected THEN Finalize(s1) ELSE s1

\* rfcomm_handler_bcs_set_cb
SetBcs(s, m) ==
  IF m.v # s.codecId THEN Finalize(Write(s, "ERROR", 0))
  ELSE Finalize(SetCodec(Ok(s), m.v))

\* The callbacks of the gateway.
GatewayCall(s, m) ==
  CASE m.m = "AT+BRSF"   -> SetBrsf(s, m)
    [] m.m = "AT+BAC"    -> SetBac(s, m)
    [] m.m = "AT+CIND=?" -> Raise(Ok(Write(s, "+CIND", 0)), 5)
    [] m.m = "AT+CIND?"  -> Raise(Ok(Write(s, "+CIND", 0)), 7)
    [] m.m = "AT+CMER"   -> Raise(Ok([s EXCEPT !.cmer = TRUE]), 8)
    [] m.m = "AT+VGM"    -> Ok(SetGain(s, m))
    [] m.m = "AT+XAPL"   -> Ok(Write(s, "+XAPL", 0))
    [] m.m = "AT+BCC"    -> SetupCodec("ag", Ok(s))
    [] m.m = "AT+BCS"    -> SetBcs(s, m)
    [] OTHER -> Ok(s)

\* The messages each handler waits for.
Awaited(h) ==
  CASE h \in {"ok", "bcsOk"} -> {"OK", "ERROR"}
    [] h = "brsf" -> {"+BRSF"}
    [] h \in {"cindTest", "cindGet"} -> {"+CIND"}
    [] h = "xapl" -> {"+XAPL"}
    [] h = "bcsSet" -> {"AT+BCS"}
    [] OTHER -> {}

Call(e, s, m) ==
  LET hit == m.m \in Awaited(s.handler)
      s1 == IF hit THEN [s EXCEPT !.handler = None] ELSE s
  IN  IF e = "ag" THEN GatewayCall(s1, m)
      ELSE UnitCall(s1, m, IF hit THEN s.handler ELSE None)

\* The signals of the pipe.
Signalled(e, s, g) ==
  CASE g = Volume -> NotifyMic(e, s, FALSE)
    [] g = Battery -> NotifyBattery(e, s)
    [] OTHER -> IF g \notin Own(e) \/ s.feat # Ends THEN Finalize(s)
                 ELSE HfpSetCodec(e, s, g)

----------------------------------------------------------------------------
(* The thread *)

\* What has met on its way: two choices of different codecs, two gains.  The end
\* is e, and w is what is still on its way to it.
Meetings(e, s, w) ==
  LET to == [x \in Ends |-> IF x = e THEN Range(w \o s.reader)
                            ELSE Range(wire[x] \o end[x].reader)]
      codecs == \E m \in Range(s.out), n \in to["ag"] \cup to["hf"] :
                  m.m = "+BCS" /\ n.m \in {"+BCS", "AT+BCS"} /\ n.v # m.v
      gains == \E m \in Range(s.out), n \in to[e] : {m.m, n.m} = {"+VGM", "AT+VGM"}
  IN  (IF codecs THEN {"codec"} ELSE {}) \cup (IF gains THEN {"gain"} ELSE {})

\* The action ends with the end as s: the messages are written, or cannot be, which
\* ends the thread (a codec selection is finalized first); a thread that ends closes
\* the socket.  w is what is still on its way to e.
Done(e, s, w) ==
  LET fails == ~link.up /\ s.out # << >>
      to == IF ~fails THEN s.pc
            ELSE IF e = "ag" /\ (s.pc = "final" \/ Head(s.out).m = "+BCS") THEN "finalEnd"
            ELSE "end"
      up == link.up /\ to # "end"
  IN  /\ end' = [end EXCEPT ![e] = [s EXCEPT !.out = << >>, !.pc = to]]
      /\ link' = [link EXCEPT !.up = up]
      /\ wire' = IF up THEN [wire EXCEPT ![e] = w, ![Peer(e)] = @ \o s.out]
                 ELSE [x \in Ends |-> << >>]
      /\ crossed' = crossed \cup Meetings(e, s, w)

\* From s on, up to the poll of the next turn.
ToPoll(e, s, idle, w) == \E s1 \in {Begun(e, s, idle)} : \E s2 \in {Count(s1)} : Done(e, s2, w)

\* The callback has returned s.
Returned(e, s, w) == IF s.pc = "final" THEN Done(e, s, w) ELSE ToPoll(e, s, FALSE, w)

At(e, labels) == end[e].pc \in labels
Polls(e) == At(e, {"poll"}) /\ end[e].reader = << >>

Start(e) ==
  /\ At(e, {"start"})
  /\ ToPoll(e, [end[e] EXCEPT !.pc = "poll"], FALSE, wire[e])
  /\ UNCHANGED <<sig, client, done>>

\* poll: nothing has happened for BA_RFCOMM_TIMEOUT_ACK or _IDLE milliseconds.
Timeout(e) ==
  /\ Polls(e) /\ link.up /\ wire[e] = << >> /\ sig[e] = << >>
  /\ end[e].handler # None \/ end[e].state # Connected \/ end[e].setup # SetupComplete
  /\ ToPoll(e, end[e], TRUE, << >>)
  /\ UNCHANGED <<sig, client, done>>

\* A read gets one or more of the messages that are there; the others of them are
\* looked at before the next poll.
Read(e) ==
  /\ (Polls(e) /\ sig[e] = << >>) \/ At(e, {"read"})
  /\ \E k \in 1..Len(wire[e]) :
       \E s \in {[end[e] EXCEPT !.pc = "poll", !.reader = SubSeq(wire[e], 2, k)]} :
       \E s1 \in {Call(e, s, Head(wire[e]))} :
         Returned(e, s1, SubSeq(wire[e], k + 1, Len(wire[e])))
  /\ UNCHANGED <<sig, client, done>>

ReadRest(e) ==
  /\ At(e, {"poll"}) /\ end[e].reader # << >>
  /\ \E s \in {[end[e] EXCEPT !.reader = Tail(@)]} :
     \E s1 \in {Call(e, s, Head(end[e].reader))} : Returned(e, s1, wire[e])
  /\ UNCHANGED <<sig, client, done>>

\* A signal is dispatched, and then the message read that the same poll reported.
Dispatch(e) ==
  /\ Polls(e) /\ sig[e] # << >>
  /\ \E s \in {Signalled(e, end[e], Head(sig[e]))} :
       IF wire[e] = << >> THEN Returned(e, s, << >>)
       ELSE Done(e, [s EXCEPT !.pc = IF @ = "final" THEN "finalRead" ELSE "read"], wire[e])
  /\ sig' = [sig EXCEPT ![e] = Tail(@)]
  /\ UNCHANGED <<client, done>>

\* rfcomm_finalize_codec_selection, and the rest of the turn.
Finish(e) ==
  /\ At(e, {"final", "finalRead", "finalEnd"})
  /\ done' = [done EXCEPT ![e] = TRUE]
  /\ \/ At(e, {"final"}) /\ ToPoll(e, [end[e] EXCEPT !.pc = "poll"], FALSE, wire[e])
     \/ At(e, {"finalRead"}) /\ Done(e, [end[e] EXCEPT !.pc = "read"], wire[e])
     \/ At(e, {"finalEnd"}) /\ Done(e, [end[e] EXCEPT !.pc = "end"], wire[e])
  /\ UNCHANGED <<sig, client>>

\* The poll or the read reports that the link is gone: rfcomm_thread_cleanup.
HangUp(e) ==
  /\ ~link.up
  /\ (Polls(e) /\ sig[e] = << >>) \/ At(e, {"read"})
  /\ end' = [end EXCEPT ![e].pc = "end"]
  /\ UNCHANGED <<link, wire, sig, client, done, crossed>>

Thread(e) ==
  Start(e) \/ Timeout(e) \/ Read(e) \/ ReadRest(e) \/ Dispatch(e) \/ Finish(e) \/ HangUp(e)

----------------------------------------------------------------------------
(* Clients of the daemon, and the world *)

\* ba_transport_select_codec_sco, up to the wait on the condition.
SelectCodec(e, c) ==
  /\ link.selects > 0 /\ ~link.hsp /\ client.at = "idle" /\ end[e].pc # "end"
  /\ link' = [link EXCEPT !.selects = @ - 1]
  /\ IF end[e].codec = c THEN UNCHANGED <<sig, client, done>>
     ELSE /\ done' = [done EXCEPT ![e] = FALSE]
          /\ sig' = [sig EXCEPT ![e] = Append(@, c)]
          /\ client' = [at |-> "wait", end |-> e, codec |-> c]
  /\ UNCHANGED <<end, wire, crossed>>

\* The condition has been signalled: success is that the codec is the one asked for.
Selected ==
  /\ client.at = "wait" /\ done[client.end]
  /\ client' = [client EXCEPT !.at = "idle"]
  /\ UNCHANGED <<link, end, wire, sig, done, crossed>>

\* A client changes the volume, and ba_transport_pcm_volume_update follows; or
\* UPower reports the battery.
Update(e) ==
  /\ link.updates > 0 /\ end[e].pc # "end"
  /\ link' = [link EXCEPT !.updates = @ - 1]
  /\ \/ /\ end' = [end EXCEPT ![e].level = link.updates + 1]
        /\ sig' = [sig EXCEPT ![e] = Append(@, Volume)]
     \/ /\ link.battery /\ UNCHANGED end
        /\ sig' = [sig EXCEPT ![e] = Append(@, Battery)]
  /\ UNCHANGED <<wire, client, done, crossed>>

\* A telephone does not react to a command, or refuses it.
Ignore ==
  /\ link.ignores > 0 /\ link.up /\ wire["ag"] # << >>
  /\ link' = [link EXCEPT !.ignores = @ - 1]
  /\ wire' = [wire EXCEPT !["ag"] = Tail(@)]
  /\ crossed' = crossed \cup {"ignored"}
  /\ UNCHANGED <<end, sig, client, done>>

Refuse ==
  /\ link.refusals > 0 /\ link.up /\ wire["ag"] # << >>
  /\ link' = [link EXCEPT !.refusals = @ - 1]
  /\ wire' = [ag |-> Tail(wire["ag"]), hf |-> Append(wire["hf"], [m |-> "ERROR", v |-> 0])]
  /\ crossed' = crossed \cup {"refused"}
  /\ UNCHANGED <<end, sig, client, done>>

\* The device is switched off, or out of reach.
Lose ==
  /\ link.loss /\ link.up
  /\ link' = [link EXCEPT !.up = FALSE]
  /\ wire' = [e \in Ends |-> << >>]
  /\ UNCHANGED <<end, sig, client, done, crossed>>

Next ==
  \/ \E e \in Ends : Thread(e) \/ Update(e)
  \/ \E e \in Ends, c \in {Cvsd} \cup Wideband : SelectCodec(e, c)
  \/ Selected \/ Ignore \/ Refuse \/ Lose

Spec ==
  Init /\ [][Next]_vars /\ WF_vars(Selected) /\ \A e \in Ends : WF_vars(Thread(e))

----------------------------------------------------------------------------
(* Properties *)

\* Nothing is on its way.
Silent ==
  /\ link.up
  /\ \A e \in Ends :
       end[e].pc = "poll" /\ end[e].reader = << >> /\ wire[e] = << >> /\ sig[e] = << >>

\* Neither is anything left to do.
Quiet == Silent /\ \A e \in Ends : end[e].state = Connected /\ end[e].setup = SetupComplete

\* Once all is said, both ends use the same codec, unless two choices of different
\* codecs met on their way, and they have the same gain, unless two changes met; or
\* the telephone did not answer properly.
EndsAgree ==
  Quiet /\ crossed \cap {"ignored", "refused"} = {} =>
    /\ "codec" \notin crossed =>
         end["ag"].codec = end["hf"].codec /\ end["ag"].codec # Undefined
    /\ "gain" \notin crossed => end["ag"].level = end["hf"].level

\* The unit awaits no reply that will not come, however its commands and its
\* changes of handler overlap with those of the gateway.
NothingAwaited == Silent /\ "ignored" \notin crossed => end["hf"].handler = None

\* The unit never takes for answered what the gateway has not even been sent: at
\* the most the command is still on its way, when the OK to another one came first.
UnitFollows ==
  \A a \in {<<2, "AT+BRSF">>, <<5, "AT+CIND=?">>, <<7, "AT+CIND?">>, <<8, "AT+CMER">>} :
    link.up /\ ~link.hsp /\ end["hf"].state >= a[1]
      => \/ end["ag"].state >= a[1]
         \/ \E m \in Range(end["ag"].reader \o wire["ag"]) : m.m = a[2]

\* The ends agree when all is said; until then, what the unit waits for is on its
\* way, and what it went past was asked.
EndsInStep == EndsAgree /\ NothingAwaited /\ UnitFollows

\* A refused command is repeated a bounded number of times; then, or when all
\* commands have been answered, the setting up of the connection ends.
SetUpEnds ==
  <>(\/ "ignored" \in crossed
     \/ \A e \in Ends : end[e].pc = "end" \/ end[e].state = Connected)

\* A client that selects a codec gets an answer, whatever the other end thinks of
\* the codec, as long as the link lasts and the other end answers.
SelectAnswered ==
  client.at = "wait" ~> client.at = "idle" \/ ~link.up \/ "ignored" \in crossed

\* "If the maximal number of retries has been reached, terminate the connection."
RetriesBounded == \A e \in Ends : end[e].pc # "end" => end[e].retries <= Retries + 1

============================================================================
