------------------------------- MODULE BaCtl -------------------------------
(***************************************************************************)
(* The control plug-in of bluez-alsa (src/asound/bluealsa-ctl.c), which    *)
(* shows the daemon's PCMs as the elements of a mixer, in a program with   *)
(* one thread: the list of PCMs, the cache of devices, the elements with   *)
(* their names and numbers, the events that the program has not read yet,  *)
(* and the pipe that wakes it.                                             *)
(*                                                                         *)
(* The daemon exports PCMs and takes them back, changes what they say of   *)
(* themselves, ends and starts; BlueZ renames and disconnects devices.     *)
(* Their signals are on the `bus` until the plug-in dispatches them, which *)
(* it does only inside snd_ctl_read() and inside a write that had to wait. *)
(* libdbus reads them off the socket before that, with every answer that   *)
(* it waits for, and only those on the socket wake poll().                 *)
(*                                                                         *)
(* Addresses of devices are numbers in their order.  A name is a sequence  *)
(* of words: a number up to the number of devices is the ending " #n", the *)
(* greater ones are other words, in their order.  The length of names is   *)
(* left out.                                                               *)
(***************************************************************************)
EXTENDS Naturals, Sequences, FiniteSets, SequencesExt

CONSTANTS
  Sounds,    \* the PCMs that there may be: [dev, link, source, sink], where
             \* source is the role of the host in the profile (A2DP source, audio
             \* gateway) and sink the direction of playback
  Aliases,   \* names of devices
  CtlSetups  \* how the mixer is opened, and how many events there are, see MCAsound

Mixed == {p.dev : p \in Sounds}

Profile(p) == [dev |-> p.dev, link |-> p.link, source |-> p.source]

ASSUME CtlAssumption ==
  /\ Mixed = 1 .. Cardinality(Mixed) /\ Aliases \subseteq Seq(Nat)
  /\ \A p \in Sounds : p.link \in {"A2DP", "SCO"} /\ {p.source, p.sink} \subseteq BOOLEAN
  \* bluealsa_elem_cmp does not order the elements of two PCMs of one profile when
  \* codecs are shown with another enumeration: left out.
  /\ \A s \in CtlSetups : {"codec", "sync"} \subseteq s.show =>
       \A p, o \in s.sounds : Profile(p) = Profile(o) => p = o

Nobody == 0      \* no device
Unknown == 0     \* no battery level
All == 0         \* the mixer of all devices
Latest == 99     \* the mixer of the device that connected last

VARIABLES
  service,  \* up, pcm, seq, battery of the daemon, alias of BlueZ
  bus,      \* signals that the plug-in has not dispatched
  sets,     \* calls of Set that the daemon has not handled
  ctl,      \* struct bluealsa_ctl: see NoCtl; queued: how many signals at the head of
            \* the bus libdbus has read
  mixer,    \* at: what the program does; shown: the elements that it shows; key and
            \* want: a write that was not answered, or refused before the last poll()
  events,   \* what is left of the events
  missed,   \* history: the PCMs of whose changes no signal told the plug-in, or no element
  dropped   \* history: the program was not told of a change, or not of which element

ctlVars == <<service, bus, sets, ctl, mixer, events, missed, dropped>>

\* What a PCM says of itself; Gone when it is not exported.
Fresh == [volume |-> 1, muted |-> 0, soft |-> 0, codec |-> 1, sync |-> 0]
Gone == [volume |-> 0]
Exported == {p \in Sounds : service.pcm[p] # Gone}

NoCtl(setup) ==
  [ open |-> FALSE, single |-> Nobody, dynamic |-> setup.dynamic, show |-> setup.show,
    btt |-> setup.btt, subscribed |-> FALSE, queued |-> 0, mem |-> << >>, pcms |-> {}, freed |-> {},
    devs |-> [d \in Mixed |-> [cached |-> FALSE, name |-> << >>, battery |-> Unknown]],
    elems |-> << >>, updates |-> << >>, pipe |-> "none" ]

CtlInit ==
  \E setup \in CtlSetups :
    /\ service = [up |-> TRUE, pcm |-> [p \in Sounds |-> Gone], seq |-> [d \in Mixed |-> 0],
                  battery |-> [d \in Mixed |-> Unknown], alias |-> setup.alias,
                  sounds |-> setup.sounds]
    /\ bus = << >>
    /\ sets = << >>
    /\ ctl = NoCtl(setup)
    /\ mixer = [at |-> "closed", shown |-> {}, of |-> setup.of, key |-> 0, want |-> 0]
    /\ events = setup.most
    /\ missed = {}
    /\ dropped = FALSE

\* What a program writes to the elements, and what the volume becomes.
Values == [switch |-> {0, 1}, volume |-> {1, 2}, mode |-> {0, 1}, codec |-> {1, 2},
           sync |-> {0, 1}, battery |-> {}]

Use(kind) == events[kind] > 0 /\ events' = [events EXCEPT ![kind] = @ - 1]

----------------------------------------------------------------------------
(* Elements *)

Rank == [switch |-> 0, volume |-> 1, mode |-> 2, codec |-> 3, sync |-> 4, battery |-> 5]

At(c, q) == c.mem[q].pcm

\* BA_PCM_A2DP_MAIN_CHANNEL, BA_PCM_SCO_SPEAKER_CHANNEL
MainChannel(p) == p.source = p.sink

\* bluealsa_elem_list_add_pcm_elems: the elements of the PCM at address q.  A
\* codec is of the main direction, the battery level of one playback to a headset.
Kinds(c, q) ==
  LET p == At(c, q)
  IN {"switch", "volume"} \cup (c.show \cap {"mode", "sync"})
       \cup (IF MainChannel(p) THEN c.show \cap {"codec"} ELSE {})
       \cup (IF /\ p.sink /\ p.link = "SCO" /\ c.devs[p.dev].battery # Unknown
                /\ \A r \in c.pcms : At(c, r) = p => q <= r
             THEN c.show \cap {"battery"} ELSE {})

\* What alsa-lib identifies an element by, the name of bluealsa_elem_set_name with
\* the words of its device and the index.  In the mixer of one device there are no
\* such words, and a codec is neither of playback nor of capture.
Label(c, p, k, words) ==
  [ alias   |-> IF c.single = Nobody THEN words ELSE << >>,
    link    |-> IF k = "battery" THEN "Battery" ELSE p.link,
    profile |-> IF c.btt /\ k # "battery" THEN {p.source} ELSE {},
    kind    |-> k,
    sink    |-> p.sink \/ k = "codec",
    index   |-> IF k \in {"mode", "sync"} /\ ~p.sink THEN 1 ELSE 0 ]

\* strcmp() of two names
Precedes(a, b) ==
  \E n \in 0 .. Len(b) - 1 :
    /\ n <= Len(a) /\ SubSeq(a, 1, n) = SubSeq(b, 1, n)
    /\ n = Len(a) \/ a[n + 1] < b[n + 1]

\* bluealsa_elem_cmp; equal ones keep the order of the list.
Before(c, a, b) ==
  LET p == At(c, a.pcm)
      o == At(c, b.pcm)
      alias == [d \in Mixed |-> c.devs[d].name]
      apart == {a.kind, b.kind} \cap {"codec", "battery"} = {}
  IN IF p.dev # o.dev
       THEN Precedes(alias[p.dev], alias[o.dev]) \/ (alias[p.dev] = alias[o.dev] /\ p.dev < o.dev)
     ELSE IF p.link # o.link THEN p.link = "A2DP"
     ELSE IF p.source # o.source THEN p.source
     ELSE IF apart /\ p.sink # o.sink THEN p.sink
     ELSE Rank[a.kind] < Rank[b.kind] \/ (a.kind = b.kind /\ a.pcm < b.pcm)

\* bluealsa_dev_get_id: the place in the sorted list of all devices seen so far.
DevId(c, d) == Cardinality({e \in Mixed : c.devs[e].cached /\ e <= d})

\* The names that elements of several devices have get the number of the device,
\* one element of the list after the other.
Numbered(c, es) ==
  LET dev(e) == At(c, e.pcm).dev
      number(e) == [e EXCEPT !.name.alias = Append(c.devs[dev(e)].name, DevId(c, dev(e)))]
      step(list, i) ==
        LET same == {j \in i + 1 .. Len(list) :
                       dev(list[j]) # dev(list[i]) /\ list[j].name = list[i].name}
        IN [j \in DOMAIN list |->
              IF j \in same \/ (j = i /\ same # {}) THEN number(list[j]) ELSE list[j]]
  IN FoldLeft(step, es, [i \in DOMAIN es |-> i])

\* bluealsa_dev_get and bluealsa_dev_fetch_battery: BlueZ is asked for a name
\* once, the daemon for the level each time, which it knows with a SCO link.
Fetched(c) ==
  [d \in Mixed |->
     LET dev == c.devs[d]
     IN IF \A q \in c.pcms : At(c, q).dev # d THEN dev
        ELSE [ cached  |-> TRUE,
               name    |-> IF dev.cached THEN dev.name ELSE service.alias[d],
               battery |-> IF "battery" \in c.show /\ \E p \in Exported : p.dev = d /\ p.link = "SCO"
                           THEN service.battery[d] ELSE dev.battery ]]

\* bluealsa_create_elem_list
Created(c) ==
  LET f == [c EXCEPT !.devs = Fetched(c)]
      name(q, k) == Label(f, At(f, q), k, f.devs[At(f, q).dev].name)
      es == {e \in {[pcm |-> q, kind |-> k, active |-> TRUE, name |-> name(q, k)] :
                       q \in f.pcms, k \in DOMAIN Rank} : e.kind \in Kinds(f, e.pcm)}
      place(e) == Cardinality({o \in es : Before(f, o, e)}) + 1
      sorted == [i \in 1 .. Cardinality(es) |-> CHOOSE e \in es : place(e) = i]
  IN [f EXCEPT !.elems = IF f.single = Nobody THEN Numbered(f, sorted) ELSE sorted]

\* Two elements with one name
Twins(c) == \E i, j \in DOMAIN c.elems : i # j /\ c.elems[i].name = c.elems[j].name

\* The value of an element: inactive ones are zero, but for enumerations.
Reading(c, e) ==
  LET data == c.mem[e.pcm].data
  IN CASE e.kind = "codec"   -> data.codec
       [] e.kind = "mode"    -> data.soft
       [] e.kind = "sync"    -> data.sync
       [] e.kind = "switch"  -> IF e.active THEN 1 - data.muted ELSE 0
       [] e.kind = "volume"  -> IF e.active THEN data.volume ELSE 0
       [] e.kind = "battery" -> IF e.active THEN c.devs[At(c, e.pcm).dev].battery ELSE 0

\* bluealsa_elem_update_list_add
Notice(c, do, i) == [do |-> do, numid |-> i, name |-> c.elems[i].name, pcm |-> c.elems[i].pcm]
Notices(c, do, S) ==
  [k \in 1 .. Cardinality(S) |->
     Notice(c, do, CHOOSE i \in S : Cardinality({j \in S : j < i}) = k - 1)]

----------------------------------------------------------------------------
(* The handling of signals, bluealsa_dbus_msg_filter. *)

\* What makes bluealsa_create_elem_list wait for an answer: the name of a device
\* that it does not know, the codecs of a PCM, a battery level.
Asks(c) ==
  \E q \in c.pcms :
    \/ ~c.devs[At(c, q).dev].cached \/ "battery" \in c.show
    \/ "codec" \in c.show /\ MainChannel(At(c, q))

\* The elements made anew while a signal is handled: with the answers libdbus reads
\* the signals that came before them.
Renewed(c) == [Created(c) EXCEPT !.queued = IF Asks(c) THEN Len(bus) - 1 ELSE @]

\* Slip: the program is told of new elements only.
RemoveAddQuiet(c) ==
  LET new == Renewed(c)
      r == IF ~c.dynamic THEN c
           ELSE [new EXCEPT !.updates = @ \o Notices(new, "add", DOMAIN new.elems)]
  IN IF r.single # Nobody /\ r.pcms = {} THEN [r EXCEPT !.pipe = "closed"] ELSE r

\* remove_add: all elements go and come again; without a PCM the mixer of one
\* device is unplugged.
RemoveAdd(c) ==
  LET new == Renewed(c)
      r == IF ~c.dynamic THEN c
           ELSE [new EXCEPT !.updates = @ \o Notices(c, "remove", DOMAIN c.elems)
                                          \o Notices(new, "add", DOMAIN new.elems)]
  IN IF r.single # Nobody /\ r.pcms = {} THEN [r EXCEPT !.pipe = "closed"] ELSE r

\* bluealsa_pcm_add at the address q, fresh or used before
Placed(c, q, p, data) ==
  LET cell == [pcm |-> p, data |-> data]
  IN [c EXCEPT !.mem = IF q > Len(@) THEN Append(@, cell) ELSE [@ EXCEPT ![q] = cell],
               !.pcms = @ \cup {q}, !.freed = @ \ {q}]

Addresses(c) == c.freed \cup {Len(c.mem) + 1}

\* bluealsa_pcm_activate: with the first PCM of that path, if there is one
Activated(c, p, data) ==
  LET q == {r \in c.pcms : At(c, r) = p}
      on == {i \in DOMAIN c.elems : c.elems[i].pcm \in q}
  IN [c EXCEPT !.mem = [r \in DOMAIN @ |-> IF r \in q THEN [@[r] EXCEPT !.data = data] ELSE @[r]],
               !.elems = [i \in DOMAIN @ |-> IF i \in on THEN [@[i] EXCEPT !.active = TRUE] ELSE @[i]],
               !.updates = @ \o Notices(c, "value", on)]

\* bluealsa_pcm_remove: the pending events of the address are cleared.
Removed(c, p) ==
  LET q == {r \in c.pcms : At(c, r) = p}
  IN [c EXCEPT !.updates = [i \in DOMAIN @ |->
                              IF @[i].pcm \in q THEN [@[i] EXCEPT !.do = "none"] ELSE @[i]],
               !.pcms = @ \ q, !.freed = @ \cup q]

\* bluealsa_pcm_deactivate
Deactivated(c, p) ==
  LET off == {i \in DOMAIN c.elems : At(c, c.elems[i].pcm) = p}
  IN [c EXCEPT !.elems = [i \in DOMAIN @ |-> IF i \in off THEN [@[i] EXCEPT !.active = FALSE] ELSE @[i]],
               !.updates = @ \o Notices(c, "value", off)]

\* Events of elements that are gone are cleared with those of a PCM that got the
\* address after them.
Reused(c, p) ==
  \E q \in c.pcms : At(c, q) = p /\ \E i \in DOMAIN c.updates :
    /\ c.updates[i].pcm = q /\ c.updates[i].do = "remove"
    /\ ~\E j \in DOMAIN c.updates :
         j > i /\ c.updates[j].name = c.updates[i].name /\ c.updates[j].do = "add"

Dispatching == mixer.at \in {"dispatch", "drain"}

Takes(kind) ==
  /\ Dispatching /\ ctl.queued > 0 /\ Head(bus).do = kind
  /\ bus' = Tail(bus)
  /\ UNCHANGED <<service, sets, mixer, events>>

Taken == [ctl EXCEPT !.queued = @ - 1]

\* Events are thrown away where a write waited, see EventsDropped; those of two
\* elements with one name are not told apart.
Drops == dropped \/ (mixer.at = "drain" /\ ~Head(bus).own) \/ Twins(ctl')

HandleAdded ==
  LET p == Head(bus).pcm
      data == Head(bus).data
  IN /\ Takes("added")
     /\ \E q \in Addresses(ctl) :
          ctl' = RemoveAdd(IF ctl.dynamic THEN Placed(Taken, q, p, data)
                           ELSE Activated(Taken, p, data))
     /\ dropped' = Drops
     /\ UNCHANGED missed

HandleRemoved ==
  LET p == Head(bus).pcm
  IN /\ Takes("removed")
     /\ ctl' = RemoveAdd(IF ctl.dynamic THEN Removed(Taken, p) ELSE Deactivated(Taken, p))
     /\ dropped' = (Drops \/ (ctl.dynamic /\ Reused(ctl, p)))
     /\ UNCHANGED missed

\* The properties of a PCM
HandleProps ==
  LET p == Head(bus).pcm
      new == Head(bus).data
      of == {i \in DOMAIN ctl.elems : At(ctl, ctl.elems[i].pcm) = p /\ ctl.elems[i].kind # "battery"}
      at == {ctl.elems[i].pcm : i \in of}
      change(data) == [f \in DOMAIN data |-> IF f \in DOMAIN new THEN new[f] ELSE data[f]]
  IN /\ Takes("props")
     /\ ctl' = [Taken EXCEPT
          !.mem = [q \in DOMAIN @ |-> IF q \in at THEN [@[q] EXCEPT !.data = change(@)] ELSE @[q]],
          !.updates = @ \o Notices(ctl, "value", of)]
     /\ dropped' = Drops
     /\ UNCHANGED missed

Of(d) == {p \in Sounds : p.dev = d}
Seen(d) == \E i \in DOMAIN ctl.elems : At(ctl, ctl.elems[i].pcm).dev = d

\* The RFCOMM link of a device tells its battery level.
HandleBattery ==
  LET d == Head(bus).dev
      c == [Taken EXCEPT !.devs[d].battery = Head(bus).level]
      of == {i \in DOMAIN ctl.elems : At(ctl, ctl.elems[i].pcm).dev = d /\ ctl.elems[i].kind = "battery"}
  IN /\ Takes("battery")
     /\ ctl' = IF ~Seen(d) THEN Taken
               ELSE IF ctl.dynamic /\ ctl.devs[d].battery = Unknown THEN RemoveAdd(c)
               ELSE [c EXCEPT !.updates = @ \o Notices(c, "value", of)]
     /\ dropped' = Drops
     /\ UNCHANGED missed

\* BlueZ renames a device; without an element its new name is not kept.
HandleAlias ==
  LET d == Head(bus).dev
  IN /\ Takes("alias")
     /\ ctl' = IF Seen(d) THEN RemoveAdd([Taken EXCEPT !.devs[d].name = Head(bus).name])
               ELSE Taken
     /\ missed' = IF ~Seen(d) /\ ctl.devs[d].cached THEN missed \cup Of(d) ELSE missed
     /\ dropped' = Drops

\* BlueZ has disconnected a device.
HandleDisconnected ==
  /\ Takes("disconnected")
  /\ ctl' = IF Seen(Head(bus).dev) /\ ctl.single # Nobody
            THEN RemoveAdd([Taken EXCEPT !.pcms = {}]) ELSE Taken
  /\ dropped' = Drops
  /\ UNCHANGED missed

\* The daemon has ended.
HandleOwner ==
  /\ Takes("owner")
  /\ ctl' = RemoveAdd([Taken EXCEPT !.pcms = {}])
  /\ dropped' = Drops
  /\ UNCHANGED missed

Handles ==
  \/ HandleAdded \/ HandleRemoved \/ HandleProps \/ HandleBattery \/ HandleAlias
  \/ HandleDisconnected \/ HandleOwner

----------------------------------------------------------------------------
(* The program, and the plug-in's functions that it calls. *)

Showing(c) ==
  {[name |-> c.elems[i].name, numid |-> i, value |-> Reading(c, c.elems[i])] : i \in DOMAIN c.elems}

\* The plug-in is opened: it asks the daemon for the PCMs and keeps those of its
\* device; without one the mixer of a device is not opened.
Target ==
  IF mixer.of # Latest THEN mixer.of
  ELSE CHOOSE d \in {p.dev : p \in Exported} :
         \A e \in {p.dev : p \in Exported} : service.seq[e] <= service.seq[d]

CtlOpen ==
  LET kept == {p \in Exported : Target = All \/ p.dev = Target}
      cells == SetToSeq({[pcm |-> p, data |-> service.pcm[p]] : p \in kept})
  IN /\ mixer.at = "closed" /\ service.up
     /\ Use("opens")
     /\ mixer.of = Latest => Exported # {}
     /\ IF Target # All /\ kept = {} THEN UNCHANGED <<ctl, mixer>>
        ELSE /\ mixer' = [mixer EXCEPT !.at = "open"]
             /\ ctl' = Created([ctl EXCEPT !.open = TRUE, !.mem = cells, !.pcms = DOMAIN cells,
                                  !.single = Target,
                                  !.pipe = IF Target = All THEN "none" ELSE "empty"])
     /\ missed' = {}
     /\ dropped' = Twins(ctl')
     /\ UNCHANGED <<service, bus, sets>>

\* The program lists the elements, reads them, and then subscribes to events.
SubscribeEvents ==
  /\ mixer.at = "open"
  /\ mixer' = [mixer EXCEPT !.at = "idle", !.shown = Showing(ctl)]
  /\ ctl' = [ctl EXCEPT !.subscribed = TRUE]
  /\ UNCHANGED <<service, bus, sets, events, missed, dropped>>

CtlClose ==
  /\ mixer.at \in {"idle", "unplugged"}
  /\ mixer' = [mixer EXCEPT !.at = "closed", !.shown = {}, !.key = 0, !.want = 0]
  /\ ctl' = NoCtl(ctl)
  /\ bus' = << >>
  /\ UNCHANGED <<service, sets, events, missed, dropped>>

\* bluealsa_find_elem: by the number, if there is such an element, or by name.
FindElem(c, numid, name) ==
  IF numid \in DOMAIN c.elems THEN numid
  ELSE LET named == {i \in DOMAIN c.elems : c.elems[i].name = name}
       IN IF named = {} THEN 0 ELSE CHOOSE i \in named : \A j \in named : i <= j

\* What the program makes of an event: it reads the value of the element.
Heard(shown, u) ==
  LET old == {s \in shown : s.name = u.name}
      fresh(numid) ==
        LET key == FindElem(ctl, numid, u.name)
        IN [name |-> u.name, numid |-> numid,
            value |-> IF key = 0 THEN 0 ELSE Reading(ctl, ctl.elems[key])]
  IN CASE u.do = "none"   -> shown
       [] u.do = "remove" -> shown \ old
       [] u.do = "add"    -> (shown \ old) \cup {fresh(u.numid)}
       [] u.do = "value"  -> (shown \ old) \cup {fresh(s.numid) : s \in old}

\* poll() on the descriptors of the plug-in: the socket, with what libdbus has not
\* read, and the pipe
Readable == Len(bus) > ctl.queued \/ ctl.pipe \in {"ping", "closed"}

Wakes ==
  /\ mixer.at = "idle" /\ Readable
  /\ mixer' = [mixer EXCEPT !.at = "read"]
  /\ UNCHANGED <<service, bus, sets, ctl, events, missed, dropped>>

\* bluealsa_read_event, called until it has no more: the events of the list, and
\* then the signals, with those that are on the socket by then.
ReadEvent ==
  /\ mixer.at = "read"
  /\ IF ctl.pipe = "closed"
       THEN mixer' = [mixer EXCEPT !.at = "unplugged"] /\ UNCHANGED ctl
       ELSE /\ mixer' = [mixer EXCEPT !.at = "dispatch", !.key = 0, !.want = 0,
                                      !.shown = FoldLeft(Heard, @, ctl.updates)]
            /\ ctl' = [ctl EXCEPT !.updates = << >>, !.queued = Len(bus)]
  /\ UNCHANGED <<service, bus, sets, events, missed, dropped>>

DispatchEnds ==
  /\ mixer.at = "dispatch" /\ ctl.queued = 0
  /\ mixer' = [mixer EXCEPT !.at = IF ctl.updates # << >> THEN "read" ELSE "idle"]
  /\ ctl' = [ctl EXCEPT !.pipe = IF @ = "ping" THEN "empty" ELSE @]
  /\ UNCHANGED <<service, bus, sets, events, missed, dropped>>

Told(s, v) == [mixer EXCEPT !.shown = (@ \ {s}) \cup {[s EXCEPT !.value = v]}]

\* bluealsa_write_integer, and bluealsa_write_enumerated for the volume mode: the
\* PCM is changed here and the daemon told, which is not waited for.
WriteValue(s, v) ==
  LET key == FindElem(ctl, s.numid, s.name)
      e == ctl.elems[key]
      f == CASE e.kind = "switch" -> [muted |-> 1 - v] [] e.kind = "volume" -> [volume |-> v]
             [] OTHER -> [soft |-> v]
      old == ctl.mem[e.pcm].data
      new == [g \in DOMAIN old |-> IF g \in DOMAIN f THEN f[g] ELSE old[g]]
  IN /\ mixer.at = "idle" /\ s \in mixer.shown
     /\ key # 0 /\ e.kind \in {"switch", "volume", "mode"} /\ v \in Values[e.kind]
     /\ Use("writes")
     /\ IF ~e.active /\ e.kind # "mode"
          THEN /\ ctl' = [ctl EXCEPT !.updates = Append(@, Notice(ctl, "value", key)),
                                     !.pipe = IF @ = "empty" THEN "ping" ELSE @]
               /\ mixer' = Told(s, v)
               /\ UNCHANGED sets
        ELSE IF old = new THEN UNCHANGED <<ctl, mixer, sets>>
        ELSE /\ ctl' = [ctl EXCEPT !.mem[e.pcm].data = new]
             /\ mixer' = Told(s, v)
             /\ sets' = Append(sets, [pcm |-> At(ctl, e.pcm),
                  data |-> IF e.kind = "mode" THEN f ELSE [volume |-> new.volume, muted |-> new.muted]])
     /\ UNCHANGED <<service, bus, missed, dropped>>

\* bluealsa_write_enumerated for the codec and the delay: the daemon is waited for.
WriteWaits(s, v) ==
  LET key == FindElem(ctl, s.numid, s.name)
      e == ctl.elems[key]
  IN /\ mixer.at = "idle" /\ s \in mixer.shown
     /\ key # 0 /\ e.kind \in {"codec", "sync"} /\ v \in Values[e.kind]
     /\ v # Reading(ctl, e)
     /\ Use("writes")
     /\ mixer' = [mixer EXCEPT !.at = "waits", !.key = key, !.want = v]
     /\ UNCHANGED <<service, bus, sets, ctl, missed, dropped>>

\* The write returns, and the program reads the value of the element.
Returns ==
  mixer' = [mixer EXCEPT !.at = "idle", !.key = 0, !.want = 0,
    !.shown = {IF s.numid = mixer.key /\ mixer.key \in DOMAIN ctl.elems
               THEN [s EXCEPT !.value = Reading(ctl, ctl.elems[mixer.key])] ELSE s : s \in @}]

\* process_events after each round of dispatching: what there is to be read is read
\* and thrown away, until there is nothing or the device is unplugged.
EventsDropped ==
  /\ mixer.at = "drain" /\ ctl.queued = 0
  /\ LET c == [ctl EXCEPT !.pipe = IF @ = "ping" THEN "empty" ELSE @]
     IN IF c.updates # << >> /\ c.pipe # "closed"
          THEN /\ ctl' = [c EXCEPT !.updates = << >>, !.queued = Len(bus)]
               /\ UNCHANGED mixer
          ELSE ctl' = c /\ Returns
  /\ UNCHANGED <<service, bus, sets, events, missed, dropped>>

AppStep == Wakes \/ ReadEvent \/ DispatchEnds \/ EventsDropped \/ Handles

----------------------------------------------------------------------------
(* The daemon and BlueZ *)

Emit(signals) == bus' = IF ctl.subscribed THEN bus \o signals ELSE bus
Misses(S) == IF ctl.open /\ ~ctl.subscribed THEN missed \cup S ELSE missed

Event(do, p, data, own) == [do |-> do, pcm |-> p, data |-> data, own |-> own]

\* A profile connects: its PCM is exported, with what is stored about it.
SvcAdds(p) ==
  /\ service.up /\ p \in service.sounds \ Exported
  /\ Use("adds")
  /\ service' = [service EXCEPT !.pcm[p] = Fresh,
       !.seq[p.dev] = IF \E o \in Exported : o.dev = p.dev THEN @
                      ELSE 1 + Cardinality({d \in Mixed : service.seq[d] > 0})]
  /\ Emit(<<Event("added", p, Fresh, FALSE)>>)
  /\ missed' = Misses({p})
  /\ UNCHANGED <<sets, ctl, mixer, dropped>>

SvcRemoves(p) ==
  /\ p \in Exported
  /\ Use("removes")
  /\ service' = [service EXCEPT !.pcm[p] = Gone,
       !.battery[p.dev] = IF \E o \in Exported \ {p} : o.dev = p.dev THEN @ ELSE Unknown]
  /\ Emit(<<Event("removed", p, Gone, FALSE)>>)
  /\ missed' = Misses({p})
  /\ UNCHANGED <<sets, ctl, mixer, dropped>>

\* Another client, or the device, changes the volume.
SvcChanges(p, v) ==
  /\ p \in Exported /\ v # service.pcm[p].volume
  /\ Use("changes")
  /\ service' = [service EXCEPT !.pcm[p].volume = v]
  /\ Emit(<<Event("props", p, [volume |-> v, muted |-> service.pcm[p].muted], FALSE)>>)
  /\ missed' = Misses({p})
  /\ UNCHANGED <<sets, ctl, mixer, dropped>>

\* bluealsa_pcm_set_property
SvcSets ==
  LET m == Head(sets)
      data == service.pcm[m.pcm]
  IN /\ sets # << >>
     /\ sets' = Tail(sets)
     /\ IF m.pcm \in Exported
          THEN /\ service' = [service EXCEPT !.pcm[m.pcm] =
                    [f \in DOMAIN data |-> IF f \in DOMAIN m.data THEN m.data[f] ELSE data[f]]]
               /\ Emit(<<Event("props", m.pcm, m.data, FALSE)>>)
          ELSE UNCHANGED <<service, bus>>
     /\ missed' = IF m.pcm \in Exported THEN Misses({m.pcm}) ELSE missed
     /\ UNCHANGED <<ctl, mixer, events, dropped>>

\* The daemon has done what it was asked: a codec of A2DP makes the transport anew,
\* another one or a delay is a property.  libdbus reads all that comes before the
\* answer, and process_events throws away what the program has not read.
SvcAnswers ==
  LET e == ctl.elems[mixer.key]
      p == At(ctl, e.pcm)
      data == [service.pcm[p] EXCEPT ![e.kind] = mixer.want]
  IN /\ mixer.at = "waits" /\ sets = << >> /\ p \in Exported
     /\ service' = [service EXCEPT !.pcm[p] = data]
     /\ Emit(IF e.kind = "codec" /\ p.link = "A2DP"
               THEN <<Event("removed", p, Gone, TRUE), Event("added", p, data, TRUE)>>
               ELSE <<Event("props", p, [f \in {e.kind} |-> mixer.want], TRUE)>>)
     /\ IF ctl.pipe = "closed"
          THEN ctl' = [ctl EXCEPT !.queued = Len(bus')] /\ Returns /\ UNCHANGED dropped
          ELSE /\ ctl' = [ctl EXCEPT !.queued = Len(bus'), !.updates = << >>]
               /\ mixer' = [mixer EXCEPT !.at = "drain"]
               /\ dropped' = (dropped \/ ctl.updates # << >>)
     /\ UNCHANGED <<sets, events, missed>>

\* The PCM has gone, or the daemon refuses: the write fails, and the signals that
\* libdbus has read on the way are not dispatched, nor do they wake poll().
SvcRefuses ==
  /\ mixer.at = "waits" /\ sets = << >>
  /\ At(ctl, ctl.elems[mixer.key].pcm) \in Exported => Use("refusals")
  /\ At(ctl, ctl.elems[mixer.key].pcm) \notin Exported => UNCHANGED events
  /\ mixer' = [mixer EXCEPT !.at = "idle"]
  /\ ctl' = [ctl EXCEPT !.queued = Len(bus)]
  /\ UNCHANGED <<service, bus, sets, missed, dropped>>

SvcEnds ==
  /\ service.up
  /\ Use("ends")
  /\ service' = [service EXCEPT !.up = FALSE, !.pcm = [p \in Sounds |-> Gone],
                                !.seq = [d \in Mixed |-> 0], !.battery = [d \in Mixed |-> Unknown]]
  /\ Emit(<<[do |-> "owner", own |-> FALSE]>>)
  /\ missed' = Misses(Exported)
  /\ sets' = << >>
  /\ UNCHANGED <<ctl, mixer, dropped>>

SvcStarts ==
  /\ ~service.up
  /\ service' = [service EXCEPT !.up = TRUE]
  /\ UNCHANGED <<bus, sets, ctl, mixer, events, missed, dropped>>

SvcBattery(d, level) ==
  /\ \E p \in Exported : p.dev = d /\ p.link = "SCO"
  /\ level # service.battery[d]
  /\ Use("levels")
  /\ service' = [service EXCEPT !.battery[d] = level]
  /\ Emit(<<[do |-> "battery", dev |-> d, level |-> level, own |-> FALSE]>>)
  /\ missed' = Misses(Of(d))
  /\ UNCHANGED <<sets, ctl, mixer, dropped>>

BluezRenames(d, name) ==
  /\ name # service.alias[d] /\ Of(d) \cap service.sounds # {}
  /\ Use("renames")
  /\ service' = [service EXCEPT !.alias[d] = name]
  /\ Emit(<<[do |-> "alias", dev |-> d, name |-> name, own |-> FALSE]>>)
  /\ missed' = Misses(Of(d))
  /\ UNCHANGED <<sets, ctl, mixer, dropped>>

BluezDisconnects(d) ==
  /\ Of(d) \cap service.sounds # {} /\ Of(d) \cap Exported = {}
  /\ Use("disconnects")
  /\ Emit(<<[do |-> "disconnected", dev |-> d, own |-> FALSE]>>)
  /\ UNCHANGED <<service, sets, ctl, mixer, missed, dropped>>

SvcStep ==
  \/ \E p \in Sounds : SvcAdds(p) \/ SvcRemoves(p)
  \/ \E p \in Sounds, v \in Values.volume : SvcChanges(p, v)
  \/ SvcSets \/ SvcAnswers \/ SvcRefuses \/ SvcEnds \/ SvcStarts
  \/ \E d \in Mixed, level \in {1, 2} : SvcBattery(d, level)
  \/ \E d \in Mixed, name \in Aliases : BluezRenames(d, name)
  \/ \E d \in Mixed : BluezDisconnects(d)

CtlNext ==
  \/ CtlOpen \/ SubscribeEvents \/ CtlClose \/ AppStep \/ SvcStep
  \/ \E s \in mixer.shown, v \in 0 .. 2 : WriteValue(s, v) \/ WriteWaits(s, v)

CtlSpec == CtlInit /\ [][CtlNext]_ctlVars

----------------------------------------------------------------------------
(* What the mixer promises *)

Ours(p) == ctl.single \in {Nobody, p.dev}

\* The PCMs of which a mixer has been told all.
Followed == {p \in Sounds : Ours(p)} \ missed

\* The elements of a mixer that adds and removes them are those of the PCMs.
MembersAgree ==
  ctl.dynamic =>
    /\ {At(ctl, q) : q \in ctl.pcms} \cap Followed = Exported \cap Followed
    /\ \A i \in DOMAIN ctl.elems :
         LET e == ctl.elems[i]
             p == At(ctl, e.pcm)
         IN /\ e.pcm \in ctl.pcms
            /\ p \in Followed =>
                 /\ ctl.devs[p.dev].name = service.alias[p.dev]
                 /\ e.kind = "battery" => Reading(ctl, e) = service.battery[p.dev]

\* The elements of one that does not are active while their PCM is there.
ActivesAgree ==
  ~ctl.dynamic =>
    \A i \in DOMAIN ctl.elems :
      LET p == At(ctl, ctl.elems[i].pcm)
      IN p \in Followed => (ctl.elems[i].active <=> p \in Exported)

\* What the plug-in keeps of a PCM is what the daemon has.
DataAgree ==
  \A q \in ctl.pcms : At(ctl, q) \in Exported \ missed =>
                        ctl.mem[q].data = service.pcm[At(ctl, q)]

\* Nothing is under way, no signal waits and the program is not woken.
CaughtUp == mixer.at = "idle" /\ bus = << >> /\ sets = << >> /\ ~Readable

\* Once no signal and no call is under way the plug-in has the PCMs of the daemon,
\* except those whose signals came before it subscribed, and a program that has
\* read all it was woken for shows the elements of the plug-in with their values,
\* unless a write threw its events away: however signals, answers, refusals and
\* codec changes interleave with what the program does.
MixerAgrees ==
  CaughtUp =>
    /\ MembersAgree /\ ActivesAgree /\ DataAgree
    /\ ~dropped => mixer.shown = Showing(ctl)

EndsInNumber(words) == words # << >> /\ Last(words) \in Mixed

\* alsa-lib identifies an element by its name, and the manual (bluealsa-plugins(7),
\* BTT) says when two have the same one: of two profiles of a device, unless BTT
\* is on.  A name may also be that of another device with its number.  In no other
\* case are there two, also when devices have the same alias or are renamed.
NamesUnique ==
  \A i, j \in DOMAIN ctl.elems :
    LET p == At(ctl, ctl.elems[i].pcm)
        o == At(ctl, ctl.elems[j].pcm)
    IN i # j /\ Ours(p) /\ Ours(o) /\ ctl.elems[i].name = ctl.elems[j].name =>
         \/ p = o /\ p \in missed
         \/ p.dev = o.dev /\ Profile(p) # Profile(o) /\ ~ctl.btt
         \/ p.dev # o.dev /\ \E d \in {p.dev, o.dev} : EndsInNumber(ctl.devs[d].name)

\* A program that waits in poll() is woken when the device is gone, and when the
\* plug-in has an event that no signal brought, of a write that was ignored because
\* the element is not active.  Only a refused write leaves signals undispatched that
\* do not wake it.
AppWoken ==
  mixer.at = "idle" =>
    /\ ctl.pipe = "closed" \/ ctl.updates # << >> => Readable
    /\ bus # << >> /\ mixer.key = 0 => Readable

\* The program is woken for what it does not know, and then knows all, by names
\* that tell the elements apart.
MixerInStep == AppWoken /\ MixerAgrees /\ NamesUnique

\* The mixer of one device shows the controls of that device only.
OneDevice ==
  ctl.single # Nobody => \A i \in DOMAIN ctl.elems : At(ctl, ctl.elems[i].pcm).dev = ctl.single

=============================================================================
