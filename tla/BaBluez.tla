------------------------------- MODULE BaBluez -------------------------------
(***************************************************************************)
(* bluez-alsa and BlueZ (src/bluez.c): the A2DP endpoints that the daemon  *)
(* exports for one adapter, the stream end-points (SEPs) of the devices    *)
(* around, the hands-free profile, and a client that selects another codec *)
(* (SelectCodec in src/bluealsa-dbus.c) while all of that changes.         *)
(*                                                                         *)
(* BlueZ's calls and signals reach the main loop in their order, `inbox`;  *)
(* the call of the client runs in a thread of its own.  Codecs are numbers *)
(* in the order of a2dp_codec_id_cmp; the daemon is the source of streams. *)
(* How a configuration is chosen is in A2dpSelect, references and the end  *)
(* of structures are in BaDevices, the threads of a stream in BaTransport. *)
(***************************************************************************)
EXTENDS Naturals, Sequences, FiniteSets, SequencesExt

CONSTANTS
  Peer,        \* remote devices
  LocalCodecs, \* codecs of the enabled local SEPs
  RemoteSeps,  \* remote SEPs [codec, id]
  Offers,      \* Peer -> the SEPs that it has
  Budgets      \* bound: how many events of each kind a behaviour has

ASSUME BluezAssumption ==
  /\ LocalCodecs \subseteq Nat
  /\ \A r \in RemoteSeps : r.codec \in Nat
  /\ Offers \in [Peer -> SUBSET RemoteSeps]

Configs == {0, 1}  \* configurations of a codec: the chosen one and another

VARIABLES
  daemon,  \* up, ep, seps, transports, profile: see NoDaemon
  blocked, \* the transport whose codec_id_mtx main waits for, or 0
  call,    \* the call of SelectCodec: see NoCall
  inbox,   \* calls and signals of BlueZ on their way to main
  bz,      \* running, adapter, app, profile, seps, session, paths: see NoBluez
  budget,  \* what is left of the events
  moved    \* history: the SEPs changed while a call held a pointer to one

bluezVars == <<daemon, blocked, call, inbox, bz, budget, moved>>

\* bluez_adapters[0] with device_sep_map, dbus_object_data_map by codec and
\* index, and the transports of the adapter.
NoDaemon ==
  [ up |-> FALSE, ep |-> [c \in LocalCodecs |-> << >>], seps |-> [x \in Peer |-> << >>],
    transports |-> {}, profile |-> "none" ]

NoCall == [at |-> "idle"]

NoSession == [stage |-> "none", ep |-> <<0, 0>>, path |-> 0, config |-> 0, asked |-> FALSE]

NoBluez(paths) ==
  [ running |-> FALSE, adapter |-> FALSE, app |-> FALSE, profile |-> FALSE,
    seps |-> [x \in Peer |-> {}], session |-> [x \in Peer |-> NoSession], paths |-> paths ]

BluezInit ==
  /\ daemon = NoDaemon
  /\ blocked = 0
  /\ call = NoCall
  /\ inbox = << >>
  /\ bz = NoBluez(0)
  /\ budget \in Budgets
  /\ moved = FALSE

Pay(kind) == budget[kind] > 0 /\ budget' = [budget EXCEPT ![kind] = @ - 1]
Sent(messages) == inbox' = inbox \o messages

----------------------------------------------------------------------------
(* BlueZ *)

Clear(x) ==
  LET s == bz.session[x] IN [do |-> "clear", ep |-> s.ep, path |-> s.path]
Set(x, s) ==
  [do |-> "set", ep |-> s.ep, path |-> s.path, peer |-> x, config |-> s.config]

\* Endpoints of the application, and those that BlueZ has given to a stream.
Known == UNION {{<<c, i>> : i \in DOMAIN daemon.ep[c]} : c \in LocalCodecs}
Taken == {bz.session[x].ep : x \in {y \in Peer : bz.session[y].stage # "none"}}

\* The call of the client is answered when the session it asked for ends or opens.
Answered(x, how) ==
  IF bz.session[x].asked /\ call.at = "wait" THEN [call EXCEPT !.reply = how] ELSE call

BzStarts ==
  /\ ~bz.running
  /\ Pay("starts")
  /\ bz' = [bz EXCEPT !.running = TRUE]
  /\ Sent(<<[do |-> "bluez"]>>)
  /\ UNCHANGED <<daemon, blocked, call, moved>>

BzAdapter ==
  /\ bz.running /\ ~bz.adapter
  /\ Pay("adapters")
  /\ bz' = [bz EXCEPT !.adapter = TRUE]
  /\ Sent(<<[do |-> "adapter"]>>)
  /\ UNCHANGED <<daemon, blocked, call, moved>>

BzDiscovers(x, r) ==
  /\ bz.adapter /\ r \in Offers[x] \ bz.seps[x]
  /\ bz' = [bz EXCEPT !.seps[x] = @ \cup {r}]
  /\ Sent(<<[do |-> "sep", peer |-> x, sep |-> r]>>)
  /\ UNCHANGED <<daemon, blocked, call, budget, moved>>

BzForgets(x, r) ==
  /\ r \in bz.seps[x] /\ bz.session[x].stage = "none"
  /\ Pay("forgets")
  /\ bz' = [bz EXCEPT !.seps[x] = @ \ {r}]
  /\ Sent(<<[do |-> "unsep", peer |-> x, sep |-> r]>>)
  /\ UNCHANGED <<daemon, blocked, call, moved>>

\* A device gets a stream on an endpoint of the codec that is not taken.
BzConnects(x, r, e) ==
  LET s == [stage |-> "setting", ep |-> e, path |-> bz.paths + 1, config |-> 0, asked |-> FALSE]
  IN /\ bz.app /\ r \in bz.seps[x] /\ bz.session[x].stage = "none"
     /\ e \in Known \ Taken /\ e[1] = r.codec
     /\ Pay("connects")
     /\ bz' = [bz EXCEPT !.session[x] = s, !.paths = @ + 1]
     /\ Sent(<<Set(x, s)>>)
     /\ UNCHANGED <<daemon, blocked, call, moved>>

BzDisconnects(x) ==
  /\ bz.session[x].stage = "open"
  /\ Pay("disconnects")
  /\ bz' = [bz EXCEPT !.session[x] = NoSession]
  /\ Sent(<<Clear(x)>>)
  /\ UNCHANGED <<daemon, blocked, call, moved>>

BzDelays(x) ==
  /\ bz.session[x].stage = "open"
  /\ Pay("delays")
  /\ Sent(<<[do |-> "delay", path |-> bz.session[x].path]>>)
  /\ UNCHANGED <<daemon, blocked, call, bz, moved>>

\* SetConfiguration is not answered in time.
BzGivesUp(x) ==
  /\ bz.session[x].stage = "setting"
  /\ Pay("timeouts")
  /\ bz' = [bz EXCEPT !.session[x] = NoSession]
  /\ call' = Answered(x, "error")
  /\ Sent(<<Clear(x)>>)
  /\ UNCHANGED <<daemon, blocked, moved>>

\* SetConfiguration of a client: the stream is closed, then opened anew.
BzRequested ==
  LET x == call.peer
      s == [stage |-> "closing", ep |-> call.ep, path |-> bz.paths + 1, config |-> call.config,
            asked |-> TRUE]
  IN /\ call.at = "asked"
     /\ IF /\ bz.app /\ call.sep \in bz.seps[x] /\ call.ep \in Known
           /\ bz.session[x].stage = "open"
           /\ call.ep \notin Taken \ {bz.session[x].ep}
          THEN /\ bz' = [bz EXCEPT !.session[x] = s, !.paths = @ + 1]
               /\ call' = [call EXCEPT !.at = "wait"]
               /\ Sent(<<Clear(x)>>)
          ELSE /\ call' = [call EXCEPT !.at = "wait", !.reply = "error"]
               /\ UNCHANGED <<bz, inbox>>
     /\ UNCHANGED <<daemon, blocked, budget, moved>>

\* The device takes the configuration, or refuses it.
BzReopens(x) ==
  /\ bz.session[x].stage = "closing"
  /\ \/ /\ bz' = [bz EXCEPT !.session[x].stage = "setting"]
        /\ Sent(<<Set(x, bz.session[x])>>)
        /\ UNCHANGED <<call, budget>>
     \/ /\ Pay("refusals")
        /\ bz' = [bz EXCEPT !.session[x] = NoSession]
        /\ call' = Answered(x, "error")
        /\ UNCHANGED inbox
  /\ UNCHANGED <<daemon, blocked, moved>>

Farewell ==
  SetToSeq({Clear(x) : x \in {y \in Peer : bz.session[y].stage \in {"setting", "open"}}})
    \o SetToSeq({[do |-> "release", ep |-> e] : e \in Known})

\* The adapter is removed, bluetoothd ends, or is killed.
BzGone ==
  /\ bz.running
  /\ Pay("ends")
  /\ \/ /\ bz.adapter
        /\ bz' = [NoBluez(bz.paths) EXCEPT !.running = TRUE, !.profile = bz.profile]
        /\ Sent(Farewell \o <<[do |-> "down"]>>)
     \/ /\ bz' = NoBluez(bz.paths)
        /\ \/ Sent(Farewell \o <<[do |-> "releaseProfile"], [do |-> "disappeared"]>>)
           \/ Sent(<<[do |-> "disappeared"]>>)
  /\ call' = IF call.at = "wait" /\ call.reply = "" THEN [call EXCEPT !.reply = "error"] ELSE call
  /\ UNCHANGED <<daemon, blocked, moved>>

BzStep ==
  \/ BzStarts \/ BzAdapter \/ BzRequested \/ BzGone
  \/ \E x \in Peer :
       \/ BzDisconnects(x) \/ BzDelays(x) \/ BzGivesUp(x) \/ BzReopens(x)
       \/ \E r \in RemoteSeps : BzDiscovers(x, r) \/ BzForgets(x, r)
       \/ \E r \in RemoteSeps, e \in Known : BzConnects(x, r, e)

----------------------------------------------------------------------------
(* The main loop: one handler for each call or signal. *)

\* bluez_export_a2dp: two endpoints more than are connected.
FreshEndpoint == [connected |-> FALSE, registered |-> TRUE]

Export(eps) ==
  LET connected == Cardinality({i \in DOMAIN eps : eps[i].connected})
  IN eps \o [i \in 1 .. (IF Len(eps) < connected + 2 THEN connected + 2 - Len(eps) ELSE 0)
               |-> FreshEndpoint]

\* bluez_register_a2dp_all
ExportAll(ep) == [c \in LocalCodecs |-> Export(ep[c])]

Message(kind) == blocked = 0 /\ inbox # << >> /\ Head(inbox).do = kind /\ inbox' = Tail(inbox)

\* A thread has a pointer to a SEP between its look at the list and its request.
Points(x) == call.at \in {"lock", "choose"} /\ call.peer = x

\* bluez_register_hfp_all with "/org/bluez": BlueZ refuses what it has already.
HandleBluez ==
  LET accepted == bz.running /\ ~bz.profile
  IN /\ Message("bluez")
     /\ IF daemon.profile = "registered" THEN UNCHANGED <<daemon, bz>>
        ELSE /\ daemon' = [daemon EXCEPT !.profile = IF accepted THEN "registered" ELSE "exported"]
             /\ bz' = IF accepted THEN [bz EXCEPT !.profile = TRUE] ELSE bz
     /\ UNCHANGED <<blocked, call, budget, moved>>

\* bluez_signal_interfaces_added with an adapter, bluez_adapter_new
HandleAdapter ==
  /\ Message("adapter")
  /\ daemon' = [daemon EXCEPT !.up = TRUE, !.ep = ExportAll(@), !.seps = [x \in Peer |-> << >>]]
  /\ bz' = [bz EXCEPT !.app = bz.adapter]
  /\ UNCHANGED <<blocked, call, budget, moved>>

\* a2dp_sep_cmp
Ordered(seps) == SortSeq(seps, LAMBDA a, b : a.codec < b.codec)

\* bluez_signal_interfaces_added with a media endpoint
HandleSep ==
  LET x == Head(inbox).peer
  IN /\ Message("sep")
     /\ daemon' = IF daemon.up THEN [daemon EXCEPT !.seps[x] = Ordered(Append(@, Head(inbox).sep))]
                  ELSE daemon
     /\ moved' = (moved \/ Points(x))
     /\ UNCHANGED <<blocked, call, bz, budget>>

\* g_array_remove_index_fast: the last one takes the place.
RemoveFast(s, i) == SubSeq([s EXCEPT ![i] = s[Len(s)]], 1, Len(s) - 1)

\* bluez_signal_interfaces_removed with a media endpoint
HandleUnsep ==
  LET x == Head(inbox).peer
      at == {i \in DOMAIN daemon.seps[x] : daemon.seps[x][i] = Head(inbox).sep}
  IN /\ Message("unsep")
     /\ daemon' = IF daemon.up /\ at # {}
                  THEN [daemon EXCEPT !.seps[x] = RemoveFast(@, CHOOSE i \in at : TRUE)]
                  ELSE daemon
     /\ moved' = (moved \/ Points(x))
     /\ UNCHANGED <<blocked, call, bz, budget>>

\* What the reply to SetConfiguration does in BlueZ, if it still waits for it.
Replied(m, how) ==
  LET x == m.peer
      mine == bz.session[x].stage = "setting" /\ bz.session[x].path = m.path
  IN /\ bz' = IF ~mine THEN bz
              ELSE IF how = "ok" THEN [bz EXCEPT !.session[x].stage = "open", !.session[x].asked = FALSE]
              ELSE [bz EXCEPT !.session[x] = NoSession]
     /\ call' = IF mine THEN Answered(x, how) ELSE call

\* bluez_endpoint_set_configuration with ba_transport_new_a2dp
HandleSet ==
  LET m == Head(inbox)
      c == m.ep[1]
      t == [path |-> m.path, peer |-> m.peer, ep |-> m.ep, config |-> m.config]
      found == \E u \in daemon.transports : u.path = m.path
  IN /\ Message("set")
     /\ IF daemon.up /\ m.ep[2] \in DOMAIN daemon.ep[c] /\ ~found
          THEN \/ /\ daemon' = [daemon EXCEPT !.transports = @ \cup {t},
                                  !.ep = ExportAll([@ EXCEPT ![c][m.ep[2]].connected = TRUE])]
                  /\ Replied(m, "ok")
                  /\ UNCHANGED budget
               \/ /\ Pay("refusals") \* a configuration that a2dp_check_configuration refuses
                  /\ Replied(m, "error")
                  /\ UNCHANGED daemon
          ELSE Replied(m, "error") /\ UNCHANGED <<daemon, budget>>
     /\ UNCHANGED <<blocked, moved>>

\* Slip: the endpoint stays marked as connected.
HandleClearMarked ==
  LET m == Head(inbox)
  IN /\ Message("clear")
     /\ daemon' = IF daemon.up /\ m.ep[2] \in DOMAIN daemon.ep[m.ep[1]]
                  THEN [daemon EXCEPT !.transports = {t \in @ : t.path # m.path}]
                  ELSE daemon
     /\ UNCHANGED <<blocked, call, bz, budget, moved>>

\* bluez_endpoint_clear_configuration; without its object the call is refused.
HandleClear ==
  LET m == Head(inbox)
      c == m.ep[1]
  IN /\ Message("clear")
     /\ daemon' = IF daemon.up /\ m.ep[2] \in DOMAIN daemon.ep[c]
                  THEN [daemon EXCEPT !.ep[c][m.ep[2]].connected = FALSE,
                                      !.transports = {t \in @ : t.path # m.path}]
                  ELSE daemon
     /\ UNCHANGED <<blocked, call, bz, budget, moved>>

\* bluez_endpoint_release
HandleRelease ==
  LET m == Head(inbox)
      c == m.ep[1]
  IN /\ Message("release")
     /\ daemon' = IF m.ep[2] \in DOMAIN daemon.ep[c]
                  THEN [daemon EXCEPT !.ep[c][m.ep[2]] = [connected |-> FALSE, registered |-> FALSE]]
                  ELSE daemon
     /\ UNCHANGED <<blocked, call, bz, budget, moved>>

\* bluez_profile_release
HandleReleaseProfile ==
  /\ Message("releaseProfile")
  /\ daemon' = [daemon EXCEPT !.profile = IF @ = "none" THEN @ ELSE "exported"]
  /\ UNCHANGED <<blocked, call, bz, budget, moved>>

\* bluez_signal_interfaces_removed with an adapter: its objects, bluez_adapter_free
HandleDown ==
  /\ Message("down")
  /\ daemon' = [NoDaemon EXCEPT !.profile = daemon.profile]
  /\ moved' = (moved \/ \E x \in Peer : Points(x))
  /\ UNCHANGED <<blocked, call, bz, budget>>

\* bluez_disappeared
HandleDisappeared ==
  /\ Message("disappeared")
  /\ daemon' = NoDaemon
  /\ moved' = (moved \/ \E x \in Peer : Points(x))
  /\ UNCHANGED <<blocked, call, bz, budget>>

\* bluez_signal_transport_changed with a delay: the D-Bus property is the sum
\* with an adjustment of the codec, read under codec_id_mtx.
Held(p) == call.at \in {"choose", "asked", "wait"} /\ call.path = p

HandleDelay ==
  LET p == Head(inbox).path
  IN /\ Message("delay")
     /\ blocked' = IF Held(p) /\ \E t \in daemon.transports : t.path = p THEN p ELSE 0
     /\ UNCHANGED <<daemon, call, bz, budget, moved>>

DelayRead ==
  /\ blocked # 0 /\ ~Held(blocked)
  /\ blocked' = 0
  /\ UNCHANGED <<daemon, call, inbox, bz, budget, moved>>

MainHandles ==
  \/ HandleBluez \/ HandleAdapter \/ HandleSep \/ HandleUnsep \/ HandleSet \/ HandleClear
  \/ HandleRelease \/ HandleReleaseProfile \/ HandleDown \/ HandleDisappeared
  \/ HandleDelay \/ DelayRead

----------------------------------------------------------------------------
(* A client's call of SelectCodec. *)

Step(from) == call.at = from /\ UNCHANGED <<daemon, blocked, inbox, bz, moved>>
Ends == call' = NoCall

SelectCalled(t, c, f) ==
  /\ Step("idle") /\ t \in daemon.transports
  /\ Pay("selects")
  /\ call' = [at |-> "find", path |-> t.path, peer |-> t.peer, own |-> t.ep, had |-> t.config,
              codec |-> c, config |-> f, pos |-> 0, sep |-> CHOOSE r \in RemoteSeps : TRUE,
              ep |-> <<0, 0>>, reply |-> ""]

\* bluealsa_pcm_select_codec: the first SEP of the list with the codec.
SelectFinds ==
  LET seps == daemon.seps[call.peer]
      at == {i \in DOMAIN seps : seps[i].codec = call.codec}
      first == CHOOSE i \in at : \A j \in at : i <= j
  IN /\ Step("find") /\ UNCHANGED budget
     /\ IF at = {} \/ call.codec \notin LocalCodecs THEN Ends
        ELSE call' = [call EXCEPT !.at = "lock", !.pos = first, !.sep = seps[first]]

\* What the pointer shows: memory behind the end of the list is as it was.
Pointed ==
  LET seps == daemon.seps[call.peer]
  IN IF call.pos \in DOMAIN seps THEN seps[call.pos] ELSE call.sep

\* ba_transport_select_codec_a2dp up to bluez_a2dp_set_configuration
SelectLocks ==
  /\ Step("lock") /\ UNCHANGED budget
  /\ IF Pointed.codec = call.own[1] /\ call.config = call.had THEN Ends
     ELSE call' = [call EXCEPT !.at = "choose", !.sep = Pointed]

\* bluez_a2dp_set_configuration: the endpoint of the stream itself, or the first
\* one that is not connected.
Spare(c) == {i \in DOMAIN daemon.ep[c] : daemon.ep[c][i].registered /\ ~daemon.ep[c][i].connected}

\* Slip: the endpoint of the stream is used again, whatever its codec.
EndpointAgain(c) ==
  IF call.own[2] \in DOMAIN daemon.ep[call.own[1]] THEN {call.own}
  ELSE {<<c, i>> : i \in {j \in Spare(c) : \A k \in Spare(c) : j <= k}}

Endpoint(c) ==
  IF c = call.own[1] /\ call.own[2] \in DOMAIN daemon.ep[c] /\ daemon.ep[c][call.own[2]].registered
    THEN {call.own}
  ELSE {<<c, i>> : i \in {j \in Spare(c) : \A k \in Spare(c) : j <= k}}

SelectAsks ==
  LET c == Pointed.codec
  IN /\ Step("choose") /\ UNCHANGED budget
     /\ IF c \notin LocalCodecs \/ Endpoint(c) = {} THEN Ends
        ELSE \E e \in Endpoint(c) :
               call' = [call EXCEPT !.at = "asked", !.sep = Pointed, !.ep = e]

SelectReturns ==
  /\ Step("wait") /\ UNCHANGED budget
  /\ call.reply # ""
  /\ Ends

\* Slip: the request has no time limit.
SelectWaitsOn ==
  /\ Step("wait") /\ UNCHANGED budget
  /\ call.reply # "" /\ blocked # 0
  /\ Ends

\* The reply does not come in the time of D-Bus, because main waits for the
\* mutex that this thread holds.
SelectTimesOut ==
  /\ Step("wait") /\ UNCHANGED budget
  /\ call.reply = "" /\ blocked # 0
  /\ Ends

CallStep == SelectFinds \/ SelectLocks \/ SelectAsks \/ SelectReturns \/ SelectTimesOut

BluezNext ==
  \/ BzStep \/ MainHandles \/ CallStep
  \/ \E t \in daemon.transports, c \in LocalCodecs, f \in Configs : SelectCalled(t, c, f)

\* The threads of the daemon go on, and BlueZ answers what it is asked.
BluezFairness ==
  /\ WF_bluezVars(MainHandles)
  /\ WF_bluezVars(CallStep)
  /\ WF_bluezVars(BzRequested)
  /\ \A x \in Peer : WF_bluezVars(BzReopens(x))

BluezSpec == BluezInit /\ [][BluezNext]_bluezVars /\ BluezFairness

----------------------------------------------------------------------------
(* Properties *)

Caught == inbox = << >> /\ blocked = 0

\* An endpoint is marked as connected exactly while one transport runs on it,
\* whatever order streams are set, cleared, refused and given up in.
EndpointsAgree ==
  \A c \in LocalCodecs : \A i \in DOMAIN daemon.ep[c] :
    LET on == {t \in daemon.transports : t.ep = <<c, i>>}
    IN daemon.ep[c][i].registered =>
         /\ Cardinality(on) <= 1
         /\ daemon.ep[c][i].connected <=> on # {}

\* A device that wants a stream finds an endpoint, unless two others are just
\* being configured ("we've got at least N not connected endpoints").
FreeEndpoint ==
  bz.app /\ daemon.up =>
    \A c \in LocalCodecs :
      \/ \E e \in Known \ Taken : e[1] = c
      \/ 2 <= Cardinality({x \in Peer : /\ bz.session[x].stage \in {"setting", "closing"}
                                       /\ bz.session[x].ep[1] = c})

\* A client that is told of success has the codec and the configuration that it
\* asked for, unless the list of SEPs moved under its pointer.
SelectedIsAsked ==
  [][ call.at = "wait" /\ call.reply = "" /\ call'.at = "wait" /\ call'.reply = "ok" /\ ~moved =>
        \E t \in daemon'.transports :
          t.peer = call.peer /\ t.ep[1] = call.codec /\ t.config = call.config ]_bluezVars

\* The SEPs that GetCodecs and SelectCodec see are those that BlueZ has, each
\* once, when all is said.
SepsAgree ==
  Caught /\ daemon.up =>
    \A x \in Peer :
      /\ Range(daemon.seps[x]) = bz.seps[x]
      /\ Len(daemon.seps[x]) = Cardinality(bz.seps[x])

\* However often BlueZ ends and starts, it knows the hands-free profile.
ProfileKept == Caught /\ bz.running => bz.profile /\ daemon.profile # "none"

\* The daemon and BlueZ agree about endpoints, SEPs and profiles.
BlueZAgrees == EndpointsAgree /\ FreeEndpoint /\ SepsAgree /\ ProfileKept

\* A call of SelectCodec returns, though main may wait for its mutex.
SelectAnswered == call.at # "idle" ~> call.at = "idle"

=============================================================================
