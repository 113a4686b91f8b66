------------------------------ MODULE BaDevices ------------------------------
(***************************************************************************)
(* bluez-alsa: the life of one Bluetooth adapter, the devices that connect *)
(* to it and their headset transports (src/ba-adapter.c, src/ba-device.c,  *)
(* src/ba-transport.c), what is stored about a device (src/storage.c), the *)
(* battery it reports (src/bluez.c), and the threads that hold them:       *)
(*                                                                         *)
(*   main        the handlers of BlueZ's calls and signals, one at a time  *)
(*   the thread  of each transport's RFCOMM link (src/ba-rfcomm.c)         *)
(*   worker      a call of a client on an exported PCM, in GDBus's thread  *)
(*   dispatcher  of incoming SCO links, one per adapter (src/sco.c)        *)
(*                                                                         *)
(* Structures are numbered as they are allocated and freed when their      *)
(* count falls to zero.  A transport has both PCMs in one, and no IO       *)
(* threads: BaTransport has those.                                         *)
(***************************************************************************)
EXTENDS Naturals, Sequences, FiniteSets

CONSTANTS
  Address,     \* remote devices
  DeviceLoads  \* bound: how many events of each kind a behaviour has

ASSUME DevicesAssumption ==
  /\ IsFiniteSet(Address)
  /\ DeviceLoads \subseteq
       [adapters : Nat, connections : Nat, calls : Nat, links : Nat, settings : Nat, batteries : Nat]

None == 0
NoEntry == 10     \* nothing in storage_map, or no file
Empty == 11       \* a key file without the group of the PCM
Default == 0        \* config.volume_init_level
Levels == {Default, 1, 2}

VARIABLES
  heap,     \* the structures: see NoHeap
  bluez,    \* bluez_adapters[0].adapter
  main,     \* the functions that main is in, the innermost first
  load,     \* what is left of the events
  wished,   \* history: the volume last set for each device
  overlap,  \* history: devices with two structures, or two transports, at a time
  crossed   \* history: RFCOMM links that two threads tore down

devVars == <<heap, bluez, main, load, wished, overlap, crossed>>

\* The threads; NoOne has an adapter that is in use, Freed one that is not.
Main == <<"main", 0>>
Worker == <<"worker", 0>>
Thread(t) == <<"thread", t>>
Dispatcher(a) == <<"dispatcher", a>>
NoOne == <<"none", 0>>
Freed == <<"freed", 0>>

\* listed is config.adapters[0], store and file are storage_map and the files;
\* stale says that a thread has used what was freed.
NoHeap ==
  [ listed |-> None, adapter |-> << >>, device |-> << >>, transport |-> << >>,
    store |-> [x \in Address |-> NoEntry], file |-> [x \in Address |-> NoEntry],
    stale |-> FALSE ]

DevInit ==
  /\ heap = NoHeap
  /\ bluez = None
  /\ main = << >>
  /\ load \in DeviceLoads
  /\ wished = [x \in Address |-> Default]
  /\ overlap = {}
  /\ crossed = {}

----------------------------------------------------------------------------
(* What the functions do to the structures h, each with its mutex held. *)

Spend(kind) == load[kind] > 0 /\ load' = [load EXCEPT ![kind] = @ - 1]

Used(h, count) == IF count = 0 THEN [h EXCEPT !.stale = TRUE] ELSE h
Less(count) == IF count = 0 THEN 0 ELSE count - 1

\* ba_adapter_unref by the thread `by`: with the last reference the dispatcher
\* is cancelled, and joined unless it is the one who asks.
AdapterUnref(h, a, by) ==
  LET g == [Used(h, h.adapter[a].refs) EXCEPT !.adapter[a].refs = Less(@)]
      joins == g.adapter[a].dispatcher # "none" /\ by # Dispatcher(a)
  IN IF g.adapter[a].refs > 0 THEN g
     ELSE [g EXCEPT !.listed = None,
                    !.adapter[a].cancelled = TRUE,
                    !.adapter[a].reaper = IF joins THEN by ELSE Freed]

\* storage_device_save
Saved(h, x) ==
  IF h.store[x] = NoEntry THEN h
  ELSE [h EXCEPT !.file[x] = h.store[x], !.store[x] = NoEntry]

\* ba_device_unref: the table is searched by address.
DeviceUnref(h, d, by) ==
  LET g == [Used(h, h.device[d].refs) EXCEPT !.device[d].refs = Less(@)]
      x == h.device[d].addr
      a == h.device[d].adapter
  IN IF g.device[d].refs > 0 THEN g
     ELSE AdapterUnref(Saved([g EXCEPT !.adapter[a].devices[x] = None], x), a, by)

\* storage_pcm_data_update
Stored(h, t) == [h EXCEPT !.store[h.device[h.transport[t].device].addr] = h.transport[t].volume]

\* ba_transport_unref: the last reference takes the transport out of the table;
\* what follows is done without a mutex, see TransportFreed.
TransportUnref(h, t, by) ==
  LET g == [Used(h, h.transport[t].refs) EXCEPT !.transport[t].refs = Less(@)]
  IN IF g.transport[t].refs > 0 THEN g
     ELSE [g EXCEPT !.device[h.transport[t].device].transport = None, !.transport[t].freer = by]

\* storage_device_load: the file replaces what is in memory.
Loaded(h, x) ==
  IF h.file[x] # NoEntry THEN h.file[x]
  ELSE IF h.store[x] = NoEntry THEN Empty ELSE h.store[x]

\* ba_device_new
NewDevice(h, x) ==
  [h EXCEPT !.device = Append(@, [addr |-> x, adapter |-> h.listed, refs |-> 1,
                                  transport |-> None, battery |-> FALSE]),
            !.adapter[h.listed].refs = @ + 1,
            !.adapter[h.listed].devices[x] = Len(h.device) + 1,
            !.store[x] = Loaded(h, x)]

\* storage_pcm_data_sync
Synced(h, x) == IF h.store[x] \in Levels THEN h.store[x] ELSE Default

\* transport_new, bluealsa_dbus_pcm_register: the PCMs and the caller hold it.
FreshTransport(d, level) ==
  [ device |-> d, refs |-> 2, exported |-> TRUE, calls |-> 0, client |-> FALSE, volume |-> level,
    rfcomm |-> FALSE, thread |-> "ended", quirk |-> FALSE, sco |-> FALSE, hup |-> FALSE,
    cancelled |-> FALSE, freed |-> FALSE, freer |-> NoOne ]

\* ba_rfcomm_new: the link holds the transport.
WithRfcomm(t) ==
  [t EXCEPT !.rfcomm = TRUE, !.thread = "run", !.quirk = TRUE, !.sco = TRUE, !.refs = @ + 1]

\* ba_transport_new_sco
NewTransport(h, d) ==
  [h EXCEPT !.transport = Append(@, WithRfcomm(FreshTransport(d, Synced(h, h.device[d].addr)))),
            !.device[d].refs = @ + 1,
            !.device[d].transport = Len(h.transport) + 1]

\* bluealsa_dbus_pcm_unregister: GDBus gives the reference back when no call is
\* in progress.
Unregistered(h, t, by) ==
  LET g == [h EXCEPT !.transport[t].exported = FALSE]
  IN IF h.transport[t].exported /\ h.transport[t].calls = 0 THEN TransportUnref(g, t, by) ELSE g

\* ba_transport_pcm_release of the client's controller.
ClientGone(h, t, by) ==
  IF ~h.transport[t].client THEN h
  ELSE TransportUnref([h EXCEPT !.transport[t].client = FALSE], t, by)

\* The rest of ba_transport_destroy: clients, and the reference of the caller.
Released(h, t, by) == TransportUnref(ClientGone(h, t, by), t, by)

\* A thread that has given back the last reference of an adapter joins its
\* dispatcher, one that has given back that of a transport stores its volume.
Waits(who) == \E a \in DOMAIN heap.adapter : heap.adapter[a].reaper = who
Frees(who) == \E t \in DOMAIN heap.transport : heap.transport[t].freer = who
Runs(who) == ~heap.stale /\ ~Waits(who) /\ ~Frees(who)

Transports == DOMAIN heap.transport
Devices == DOMAIN heap.device
Adapters == DOMAIN heap.adapter
AddressOf(t) == heap.device[heap.transport[t].device].addr
Idle == main = << >> /\ Runs(Main)

Frame(do, id) == [do |-> do, id |-> id]

----------------------------------------------------------------------------
(* Handlers of main. *)

\* ba_adapter_new
FreshAdapter ==
  [ refs |-> 1, devices |-> [x \in Address |-> None], dispatcher |-> "none", cancelled |-> FALSE,
    reaper |-> NoOne, held |-> << >> ]

\* bluez_signal_interfaces_added: an adapter that is still held is taken again.
AdapterAdded ==
  /\ Idle /\ bluez = None
  /\ Spend("adapters")
  /\ IF heap.listed # None
       THEN /\ bluez' = heap.listed
            /\ heap' = [heap EXCEPT !.adapter[heap.listed].refs = @ + 1]
       ELSE /\ bluez' = Len(heap.adapter) + 1
            /\ heap' = [heap EXCEPT !.listed = Len(heap.adapter) + 1,
                                      !.adapter = Append(@, FreshAdapter)]
  /\ UNCHANGED <<main, wished, overlap, crossed>>

\* bluez_signal_interfaces_removed, bluez_disappeared
AdapterRemoved ==
  /\ Idle /\ bluez # None
  /\ main' = <<Frame("adapter", bluez), Frame("batteries", bluez)>>
  /\ UNCHANGED <<heap, bluez, load, wished, overlap, crossed>>

\* BlueZ connects a device once its last link is down.
LinkDown(x) ==
  \A t \in Transports : AddressOf(t) = x => heap.transport[t].hup \/ heap.transport[t].thread # "run"

\* ba_transport_new_sco: the transport of an earlier connection is still there.
Busy(h, d) == h.device[d].transport # None

\* An earlier structure of x, out of the tables, is not freed or stored yet.
Lives(x) == \E d \in Devices : heap.device[d].addr = x /\ heap.device[d].refs > 0
Stores(x) == \E t \in Transports : AddressOf(t) = x /\ heap.transport[t].freer # NoOne

\* bluez_profile_new_connection, sco_setup_connection_dispatcher
NewConnection(x) ==
  LET known == heap.adapter[bluez].devices[x]
      h == IF known = None THEN NewDevice(heap, x)
           ELSE [heap EXCEPT !.device[known].refs = @ + 1]
      d == h.adapter[bluez].devices[x]
      t == Len(h.transport) + 1
      g == [NewTransport(h, d) EXCEPT !.adapter[bluez].dispatcher = IF @ = "none" THEN "poll" ELSE @]
  IN /\ Idle /\ bluez # None /\ LinkDown(x)
     /\ Spend("connections")
     /\ heap' = IF Busy(h, d) THEN DeviceUnref(h, d, Main)
                ELSE TransportUnref(DeviceUnref(g, d, Main), t, Main)
     /\ overlap' = IF (known = None /\ Lives(x)) \/ Stores(x) THEN overlap \cup {x} ELSE overlap
     /\ UNCHANGED <<bluez, main, wished, crossed>>

\* bluez_profile_request_disconnection, while BlueZ shuts the link down.
RequestDisconnection(x) ==
  LET d == heap.adapter[bluez].devices[x]
      t == heap.device[d].transport
  IN /\ Idle /\ bluez # None
     /\ d # None /\ t # None
     /\ Spend("links")
     /\ heap' = [heap EXCEPT !.adapter[bluez].refs = @ + 1, !.device[d].refs = @ + 1,
                             !.transport[t].refs = @ + 1, !.transport[t].hup = TRUE]
     /\ main' = <<Frame("unregister", t), Frame("leaveAdapter", bluez), Frame("leaveDevice", d)>>
     /\ UNCHANGED <<bluez, wished, overlap, crossed>>

\* bluealsa_pcm_controller at the end of the socket.
ClientCloses(t) ==
  /\ Idle /\ heap.transport[t].client
  /\ heap' = ClientGone(heap, t, Main)
  /\ UNCHANGED <<bluez, main, load, wished, overlap, crossed>>

----------------------------------------------------------------------------
(* The functions that main is in. *)

Top == main[1]
Return == main' = Tail(main)
Goto(do) == main' = <<[Top EXCEPT !.do = do]>> \o Tail(main)
In(do) == main # << >> /\ Runs(Main) /\ Top.do = do

\* ba_transport_destroy up to ba_rfcomm_destroy, which clears the quirk.
DestroyTransport ==
  LET t == Top.id
      h == Unregistered(heap, t, Main)
  IN /\ In("unregister")
     /\ IF heap.transport[t].rfcomm
          THEN /\ heap' = [h EXCEPT !.transport[t].quirk = FALSE, !.transport[t].cancelled = TRUE]
               /\ crossed' = IF heap.transport[t].thread = "quirk" THEN crossed \cup {t} ELSE crossed
               /\ Goto("join")
          ELSE /\ heap' = h
               /\ Goto("release")
               /\ UNCHANGED crossed
     /\ UNCHANGED <<bluez, load, wished, overlap>>

\* ba_rfcomm_destroy after its thread has ended.
JoinRfcomm ==
  LET t == Top.id
      h == IF heap.transport[t].sco THEN TransportUnref(heap, t, Main) ELSE heap
  IN /\ In("join") /\ heap.transport[t].thread = "ended"
     /\ heap' = IF heap.transport[t].freed THEN [heap EXCEPT !.stale = TRUE]
                ELSE [h EXCEPT !.transport[t].sco = FALSE, !.transport[t].freed = TRUE,
                               !.transport[t].rfcomm = FALSE]
     /\ Goto("release")
     /\ UNCHANGED <<bluez, load, wished, overlap, crossed>>

ReleaseTransport ==
  /\ In("release")
  /\ heap' = Released(heap, Top.id, Main)
  /\ Return
  /\ UNCHANGED <<bluez, load, wished, overlap, crossed>>

Leave ==
  /\ \/ In("leaveAdapter") /\ heap' = AdapterUnref(heap, Top.id, Main)
     \/ In("leaveDevice") /\ heap' = DeviceUnref(heap, Top.id, Main)
  /\ Return
  /\ UNCHANGED <<bluez, load, wished, overlap, crossed>>

\* ba_adapter_destroy: one device after another out of the table.
DestroyAdapter ==
  LET a == Top.id
      known == {x \in Address : heap.adapter[a].devices[x] # None}
  IN /\ In("adapter")
     /\ IF known = {} THEN heap' = AdapterUnref(heap, a, Main) /\ Return
        ELSE \E x \in known :
          LET d == heap.adapter[a].devices[x]
          IN /\ heap' = [heap EXCEPT !.device[d].refs = @ + 1, !.adapter[a].devices[x] = None]
             /\ main' = <<Frame("device", d)>> \o main
     /\ UNCHANGED <<bluez, load, wished, overlap, crossed>>

\* ba_device_destroy
DestroyDevice ==
  LET d == Top.id
      t == heap.device[d].transport
  IN /\ In("device")
     /\ IF t = None THEN heap' = DeviceUnref(heap, d, Main) /\ Return
        ELSE /\ heap' = [heap EXCEPT !.transport[t].refs = @ + 1, !.device[d].transport = None]
             /\ main' = <<Frame("unregister", t)>> \o main
     /\ UNCHANGED <<bluez, load, wished, overlap, crossed>>

\* The end of bluez_adapter_free: the battery provider gives its devices back.
DropBatteries ==
  LET charged == {d \in Devices : heap.device[d].battery}
  IN /\ In("batteries")
     /\ IF charged = {} THEN bluez' = None /\ Return /\ UNCHANGED heap
        ELSE /\ \E d \in charged : heap' = DeviceUnref([heap EXCEPT !.device[d].battery = FALSE], d, Main)
             /\ UNCHANGED <<bluez, main>>
     /\ UNCHANGED <<load, wished, overlap, crossed>>

MainStep ==
  \/ DestroyTransport \/ JoinRfcomm \/ ReleaseTransport \/ Leave
  \/ DestroyAdapter \/ DestroyDevice \/ DropBatteries

----------------------------------------------------------------------------
(* Every thread: the rest of what the last reference does. *)

\* Slip: the device is given back before the volume is stored.
TransportFreedLate(t) ==
  LET by == heap.transport[t].freer
  IN /\ by # NoOne /\ ~heap.stale /\ ~Waits(by)
     /\ heap' = Stored(DeviceUnref([heap EXCEPT !.transport[t].freer = NoOne],
                                   heap.transport[t].device, by), t)
     /\ UNCHANGED <<bluez, main, load, wished, overlap, crossed>>

\* ba_transport_unref after the table: storage_pcm_data_update, ba_device_unref.
TransportFreed(t) ==
  LET by == heap.transport[t].freer
  IN /\ by # NoOne /\ ~heap.stale /\ ~Waits(by)
     /\ heap' = DeviceUnref(Stored([heap EXCEPT !.transport[t].freer = NoOne], t),
                            heap.transport[t].device, by)
     /\ UNCHANGED <<bluez, main, load, wished, overlap, crossed>>

\* ba_adapter_unref after pthread_join.
DispatcherJoined(a) ==
  /\ ~heap.stale
  /\ heap.adapter[a].reaper \notin {NoOne, Freed}
  /\ heap.adapter[a].dispatcher = "ended"
  /\ heap' = [heap EXCEPT !.adapter[a].reaper = Freed]
  /\ UNCHANGED <<bluez, main, load, wished, overlap, crossed>>

----------------------------------------------------------------------------
(* The thread of an RFCOMM link. *)

ThreadGoes(t, from) ==
  /\ Runs(Thread(t)) /\ heap.transport[t].thread = from
  /\ UNCHANGED <<bluez, main, wished, overlap, crossed>>

LinkLost(t) ==
  /\ ThreadGoes(t, "run") /\ ~heap.transport[t].hup
  /\ Spend("links")
  /\ heap' = [heap EXCEPT !.transport[t].hup = TRUE]

\* bluez_battery_provider_update with a charge: bluez_manager_battery_add
BatteryReport(t) ==
  LET d == heap.transport[t].device
  IN /\ ThreadGoes(t, "run") /\ ~heap.transport[t].hup
     /\ ~heap.device[d].battery /\ bluez # None
     /\ Spend("batteries")
     /\ heap' = [heap EXCEPT !.device[d].battery = TRUE, !.device[d].refs = @ + 1]

\* bluez_battery_provider_update without one: bluez_manager_battery_remove
BatteryGone(h, d, by) ==
  IF h.device[d].battery THEN DeviceUnref([h EXCEPT !.device[d].battery = FALSE], d, by) ELSE h

ThreadLost(t) ==
  LET d == heap.transport[t].device
  IN /\ ThreadGoes(t, "run")
     /\ heap.transport[t].hup \/ heap.transport[t].cancelled
     /\ heap' = BatteryGone([heap EXCEPT !.transport[t].thread = "lost"], d, Thread(t))
     /\ UNCHANGED load

ThreadTest(t) ==
  /\ ThreadGoes(t, "lost")
  /\ heap' = IF heap.transport[t].quirk THEN [heap EXCEPT !.transport[t].thread = "quirk"]
             ELSE TransportUnref([heap EXCEPT !.transport[t].sco = FALSE,
                                              !.transport[t].thread = "ended"], t, Thread(t))
  /\ UNCHANGED load

\* Slip: no reference is taken for the destruction.
ThreadQuirkUnheld(t) ==
  /\ ThreadGoes(t, "quirk")
  /\ heap' = Unregistered([heap EXCEPT !.transport[t].rfcomm = FALSE,
                                       !.transport[t].thread = "destroying"], t, Thread(t))
  /\ UNCHANGED load

\* The quirk: the transport is destroyed by this thread.
ThreadQuirk(t) ==
  /\ ThreadGoes(t, "quirk")
  /\ heap' = Unregistered([heap EXCEPT !.transport[t].rfcomm = FALSE, !.transport[t].refs = @ + 1,
                                       !.transport[t].thread = "destroying"], t, Thread(t))
  /\ UNCHANGED load

ThreadDestroy(t) ==
  /\ ThreadGoes(t, "destroying")
  /\ heap' = Released([heap EXCEPT !.transport[t].thread = "released"], t, Thread(t))
  /\ UNCHANGED load

\* ba_rfcomm_destroy by the thread itself.
ThreadFrees(t) ==
  /\ ThreadGoes(t, "released")
  /\ heap' = IF heap.transport[t].freed THEN [heap EXCEPT !.stale = TRUE]
             ELSE TransportUnref([heap EXCEPT !.transport[t].quirk = FALSE, !.transport[t].sco = FALSE,
                                    !.transport[t].freed = TRUE, !.transport[t].thread = "ended"],
                                 t, Thread(t))
  /\ UNCHANGED load

ThreadStep(t) ==
  ThreadLost(t) \/ ThreadTest(t) \/ ThreadQuirk(t) \/ ThreadDestroy(t) \/ ThreadFrees(t)

----------------------------------------------------------------------------
(* Calls of clients on an exported PCM, one at a time. *)

\* GDBus holds the interface for the call.
CallBegin(t) ==
  /\ Runs(Worker) /\ \A u \in Transports : heap.transport[u].calls = 0
  /\ heap.transport[t].exported
  /\ Spend("calls")
  /\ heap' = [heap EXCEPT !.transport[t].calls = 1]
  /\ UNCHANGED <<bluez, main, wished, overlap, crossed>>

InCall(t) ==
  /\ Runs(Worker) /\ heap.transport[t].calls > 0
  /\ UNCHANGED <<bluez, main, load, overlap, crossed>>

\* bluealsa_pcm_open: the controller holds the PCM.
CallOpens(t) ==
  /\ InCall(t) /\ ~heap.transport[t].client
  /\ heap.transport[t].exported \* bound: Open is not overtaken by the end of the transport
  /\ heap' = [heap EXCEPT !.transport[t].client = TRUE, !.transport[t].refs = @ + 1]
  /\ UNCHANGED wished

CallEnds(t) ==
  LET h == [heap EXCEPT !.transport[t].calls = 0]
  IN /\ InCall(t)
     /\ heap' = IF h.transport[t].exported THEN h ELSE TransportUnref(h, t, Worker)
     /\ UNCHANGED wished

\* bluealsa_pcm_set_property, in main as every property of GDBus.
SetVolume(t, v) ==
  /\ Idle /\ heap.transport[t].exported /\ v # heap.transport[t].volume
  /\ Spend("settings")
  /\ heap' = [heap EXCEPT !.transport[t].volume = v]
  /\ wished' = [wished EXCEPT ![AddressOf(t)] = v]
  /\ UNCHANGED <<bluez, main, overlap, crossed>>

----------------------------------------------------------------------------
(* The dispatcher of incoming SCO links of adapter a. *)

DispatcherGoes(a, from) ==
  /\ Runs(Dispatcher(a)) /\ heap.adapter[a].dispatcher = from
  /\ UNCHANGED <<bluez, main, load, wished, overlap, crossed>>

\* accept and ba_device_lookup
Accept(a, x) ==
  LET d == heap.adapter[a].devices[x]
  IN /\ DispatcherGoes(a, "poll") /\ ~heap.adapter[a].cancelled
     /\ d # None
     /\ heap' = [heap EXCEPT !.device[d].refs = @ + 1, !.adapter[a].dispatcher = "device",
                             !.adapter[a].held = <<d, None>>]

\* ba_transport_lookup
FindTransport(a) ==
  LET d == heap.adapter[a].held[1]
      t == heap.device[d].transport
  IN /\ DispatcherGoes(a, "device")
     /\ heap' = IF t = None
                THEN DeviceUnref([heap EXCEPT !.adapter[a].dispatcher = "poll",
                                              !.adapter[a].held = << >>], d, Dispatcher(a))
                ELSE [heap EXCEPT !.transport[t].refs = @ + 1, !.adapter[a].dispatcher = "serve",
                                  !.adapter[a].held = <<d, t>>]

\* The link is given to the transport; then both are given back.
Serve(a) ==
  LET held == heap.adapter[a].held
      h == [heap EXCEPT !.adapter[a].dispatcher = "poll", !.adapter[a].held = << >>]
  IN /\ DispatcherGoes(a, "serve")
     /\ heap' = TransportUnref(DeviceUnref(h, held[1], Dispatcher(a)), held[2], Dispatcher(a))

DispatcherEnds(a) ==
  /\ DispatcherGoes(a, "poll") /\ heap.adapter[a].cancelled
  /\ heap' = [heap EXCEPT !.adapter[a].dispatcher = "ended"]

----------------------------------------------------------------------------

DevNext ==
  \/ AdapterAdded \/ AdapterRemoved \/ MainStep
  \/ \E x \in Address : NewConnection(x) \/ RequestDisconnection(x)
  \/ \E t \in Transports :
       \/ ClientCloses(t) \/ TransportFreed(t) \/ LinkLost(t) \/ BatteryReport(t) \/ ThreadStep(t)
       \/ CallBegin(t) \/ CallOpens(t) \/ CallEnds(t)
       \/ \E v \in Levels : SetVolume(t, v)
  \/ \E a \in Adapters :
       \/ DispatcherJoined(a) \/ FindTransport(a) \/ Serve(a) \/ DispatcherEnds(a)
       \/ \E x \in Address : Accept(a, x)

DevSpec == DevInit /\ [][DevNext]_devVars

----------------------------------------------------------------------------
(* Properties *)

Quiet ==
  /\ Idle
  /\ \A t \in Transports :
       LET r == heap.transport[t]
       IN r.calls = 0 /\ ~r.client /\ r.thread = "ended" /\ r.freer = NoOne
  /\ \A a \in Adapters : heap.adapter[a].dispatcher \in {"none", "poll", "ended"}

\* No thread uses a structure after it was freed (the counts of ba_adapter_unref,
\* ba_device_unref and ba_transport_unref, and ba_rfcomm_destroy), unless two
\* threads tore down the same RFCOMM link.
NothingFreedUsed == heap.stale => crossed # {}

\* When the adapter is gone and nobody uses anything of it, nothing of it is
\* left in memory and every volume is in its file.
GoneIsFreed ==
  Quiet /\ bluez = None =>
    /\ heap.listed = None
    /\ \A a \in Adapters : heap.adapter[a].refs = 0
    /\ \A d \in Devices : heap.device[d].refs = 0
    /\ \A t \in Transports : heap.transport[t].refs = 0
    /\ \A x \in Address : heap.store[x] = NoEntry

\* A device that connects again has the volume last set for it, however often it
\* or the adapter went away (storage_pcm_data_sync, storage_device_save).
VolumeKept ==
  \A t \in Transports :
    heap.transport[t].exported /\ AddressOf(t) \notin overlap =>
      heap.transport[t].volume = wished[AddressOf(t)]

\* Calls and signals of BlueZ about a connected device find its structures.
ConnectedFound ==
  \A t \in Transports :
    LET d == heap.transport[t].device
    IN Idle /\ heap.transport[t].exported /\ AddressOf(t) \notin overlap =>
         /\ heap.listed = heap.device[d].adapter
         /\ heap.adapter[heap.listed].devices[AddressOf(t)] = d
         /\ heap.device[d].transport = t

\* Nothing is used after it was freed, and nothing stays that is not used.
FreedInTime == NothingFreedUsed /\ GoneIsFreed

\* Who connects again finds its structures and its volume.
ReconnectedAgree == VolumeKept /\ ConnectedFound

=============================================================================
