---------------------------- MODULE BaTransport ----------------------------
(***************************************************************************)
(* bluez-alsa: one Bluetooth audio transport with its two PCMs, as the     *)
(* threads of the daemon see it (src/ba-transport.c, ba-transport-pcm.c,   *)
(* io.c and bluealsa-dbus.c under src/vendors/bluez-alsa).                 *)
(*                                                                         *)
(*   main       the GLib loop: signals of BlueZ, commands of PCM clients   *)
(*   manager    cancels and joins the IO threads of the transport          *)
(*   io p       moves the audio of PCM p, and cleans up when it ends       *)
(*   open p     a D-Bus worker in Open() of PCM p                          *)
(*   select     a D-Bus worker in SelectCodec()                            *)
(*                                                                         *)
(* A short critical section is one action.  Mutexes that are held while    *)
(* their holder waits are in lock.  PCM 1 is the master (what is played),  *)
(* PCM 2 goes the other way (a microphone).  The transport is an A2DP      *)
(* source with a back channel, which BlueZ starts ("source"), or a         *)
(* hands-free gateway, which owns its SCO link ("ag").                     *)
(***************************************************************************)
EXTENDS Naturals, Sequences

CONSTANT Loads  \* bound: the profiles, each with a number of calls of Open()
                \* and of other events: drains, calls of SelectCodec() and faults

ASSUME TransportAssumption ==
  Loads \subseteq [profile : {"source", "ag"}, opens : Nat, events : Nat]

Pcm == {1, 2}
None    == <<"none", 0>>
Main    == <<"main", 0>>
Manager == <<"manager", 0>>
Select  == <<"select", 0>>
Io(p)   == <<"io", p>>
Open(p) == <<"open", p>>
Thread == {Main, Manager, Select} \cup {Io(p) : p \in Pcm} \cup {Open(p) : p \in Pcm}

VARIABLES
  profile,
  pcm,      \* struct ba_transport_pcm, for every PCM
  t,        \* struct ba_transport
  lock,     \* the holders of client_mtx (1, 2), acquisition_mtx, codec_id_mtx
  pc,       \* where every thread is
  ret,      \* where the main loop goes on after ba_transport_stop()
  bluez,    \* the transport in BlueZ, and its State signals on the way
  left,     \* what is left of the load
  calm      \* no fault so far, and no SelectCodec() (history)

counts == <<left, calm>>
vars == <<profile, pcm, t, lock, pc, ret, bluez, counts>>

Init ==
  /\ \E load \in Loads :
       /\ profile = load.profile
       /\ left = [opens |-> load.opens, events |-> load.events]
  /\ pcm = [p \in Pcm |-> [ state |-> "TERMINATED", fd |-> FALSE, hangup |-> FALSE,
                            fd_bt |-> FALSE, synced |-> FALSE, timeout |-> FALSE,
                            cancelled |-> FALSE, pipe |-> << >> ]]
  /\ t = [ bt_fd |-> "none", stopping |-> FALSE, a2dp |-> "idle",
           pipe |-> << >>, keepalive |-> FALSE ]
  /\ lock = [m \in {"client1", "client2", "acquisition", "codec"} |-> None]
  /\ pc = [th \in Thread |-> CASE th \in {Main, Manager} -> "poll" [] OTHER -> "none"]
  /\ ret = "poll"
  /\ bluez = [state |-> "idle", signals |-> << >>]
  /\ calm = TRUE

----------------------------------------------------------------------------
(* Helpers *)

Client(p) == IF p = 1 THEN "client1" ELSE "client2"

Goto(th, label) == pc' = [pc EXCEPT ![th] = label]

Take(m, th) == lock[m] = None /\ lock' = [lock EXCEPT ![m] = th]
Free(ms) == lock' = [m \in DOMAIN lock |-> IF m \in ms THEN None ELSE lock[m]]

State(p) == pcm[p].state
Set(p, s) == pcm' = [pcm EXCEPT ![p].state = s]

\* ba_transport_pcm_state_set(STOPPING): other states stay what they are.
SetStopping(p) ==
  pcm' = [pcm EXCEPT ![p].state = IF @ \in {"STARTING", "RUNNING"} THEN "STOPPING" ELSE @]

SetIdle(p) == pcm' = [pcm EXCEPT ![p].state = IF @ = "TERMINATED" THEN "IDLE" ELSE @]

\* transport_thread_manager_send_command(); a check right after a check is the
\* same as one.
Send(cmd) ==
  t' = [t EXCEPT !.pipe = IF cmd = "check" /\ @ # << >> /\ @[Len(@)] = "check"
                          THEN @ ELSE Append(@, cmd)]

\* ba_transport_pcm_signal_send(): nothing is sent to a PCM that does not run.
Signalled(q, sig) ==
  IF q.state = "RUNNING" THEN [q EXCEPT !.pipe = Append(@, sig)] ELSE q

\* ba_transport_pcm_release()
Closed(q) == [q EXCEPT !.fd = FALSE, !.hangup = FALSE]

Event == left.events > 0 /\ left' = [left EXCEPT !.events = @ - 1]
Fault == Event /\ calm' = FALSE

AllTerminated == \A p \in Pcm : State(p) = "TERMINATED"

----------------------------------------------------------------------------
(* ba_transport_stop_async(), in an IO thread's cleanup and in ba_transport_stop() *)

AfterAsync(th) == IF th \in {Main, Select} THEN "stopwait" ELSE "btrelease"

StopFlag(th) ==
  /\ pc[th] = "async"
  /\ IF t.stopping THEN Goto(th, AfterAsync(th)) /\ UNCHANGED t
                   ELSE Goto(th, "mark1") /\ t' = [t EXCEPT !.stopping = TRUE]
  /\ UNCHANGED <<profile, pcm, lock, ret, bluez, counts>>

StopMark1(th) ==
  /\ pc[th] = "mark1" /\ Goto(th, "mark2")
  /\ SetStopping(1)
  /\ UNCHANGED <<profile, t, lock, ret, bluez, counts>>

StopMark2(th) ==
  /\ pc[th] = "mark2" /\ Goto(th, AfterAsync(th))
  /\ SetStopping(2)
  /\ Send("cancel")
  /\ UNCHANGED <<profile, lock, ret, bluez, counts>>

\* while (t->stopping) of ba_transport_stop()
StopWait(th, next) ==
  /\ pc[th] = "stopwait" /\ ~t.stopping
  /\ Goto(th, next)
  /\ UNCHANGED <<profile, pcm, t, lock, ret, bluez, counts>>

\* The first lines of ba_transport_stop().
Stop(th, next) == Goto(th, IF AllTerminated THEN next ELSE "async")

----------------------------------------------------------------------------
(* ba_transport_pcm_start() *)

\* The thread starts with a duplicate of the socket, if there is a socket.
PcmStart(p, th, next) ==
  IF t.bt_fd = "none" /\ ~pcm[p].fd_bt
  THEN /\ Set(p, "TERMINATED") /\ Goto(th, next)
  ELSE /\ pcm' = [pcm EXCEPT ![p] = [@ EXCEPT !.state = "STARTING", !.fd_bt = TRUE,
                                              !.timeout = FALSE, !.cancelled = FALSE]]
       /\ pc' = [pc EXCEPT ![th] = next, ![Io(p)] = "entry"]

----------------------------------------------------------------------------
(* The IO thread of PCM p *)

\* sco_enc_thread() asks for the codec first.  The codec is initialised, and
\* the PCM runs if nobody has stopped it before.
IoEnter(p) ==
  /\ pc[Io(p)] = "entry" /\ (profile = "ag" => lock["codec"] = None)
  /\ Goto(Io(p), "loop")
  /\ Set(p, IF State(p) = "STARTING" THEN "RUNNING" ELSE State(p))
  /\ UNCHANGED <<profile, t, lock, ret, bluez, counts>>

IoInitFails(p) ==
  /\ pc[Io(p)] = "entry" /\ (profile = "ag" => lock["codec"] = None)
  /\ Fault /\ Goto(Io(p), "cleanup")
  /\ UNCHANGED <<profile, pcm, t, lock, ret, bluez>>

\* poll() is the only place where a thread can be cancelled.
IoCancelled(p) ==
  /\ pc[Io(p)] = "loop" /\ pcm[p].cancelled
  /\ Goto(Io(p), "cleanup")
  /\ UNCHANGED <<profile, pcm, t, lock, ret, bluez, counts>>

Polls(p) == pc[Io(p)] = "loop" /\ ~pcm[p].cancelled

\* ba_transport_pcm_signal_recv(): a new client ends the wait of a drain.
IoSignal(p) ==
  /\ Polls(p) /\ pcm[p].pipe # << >>
  /\ LET sig == Head(pcm[p].pipe) IN
       /\ pcm' = [pcm EXCEPT ![p].pipe = Tail(@),
                             ![p].timeout = IF p = 1 THEN sig = "sync" \/ (@ /\ sig = "close")
                                                     ELSE FALSE]
       /\ IF p = 1 /\ sig = "close" THEN Send("check") ELSE UNCHANGED t
  /\ UNCHANGED <<profile, lock, pc, ret, bluez, counts>>

\* Nothing was written for 100 ms.
IoTimeout(p) ==
  /\ Polls(p) /\ pcm[p].pipe = << >> /\ pcm[p].timeout
  /\ pcm' = [pcm EXCEPT ![p].timeout = FALSE, ![p].synced = TRUE]
  /\ Send("check")
  /\ UNCHANGED <<profile, lock, pc, ret, bluez, counts>>

\* io_pcm_read() or io_pcm_write() finds that the client has gone.  The decoder
\* of FastStream does not look at the result.
IoClientGone(p) ==
  /\ Polls(p) /\ pcm[p].fd /\ pcm[p].hangup
  /\ pcm' = [pcm EXCEPT ![p] = Closed(@)]
  /\ IF p = 2 /\ profile = "source" THEN UNCHANGED t ELSE Send("check")
  /\ UNCHANGED <<profile, lock, pc, ret, bluez, counts>>

\* A read or a write of the Bluetooth socket fails.
IoLinkLost(p) ==
  /\ Polls(p) /\ t.bt_fd = "lost"
  /\ Goto(Io(p), "cleanup")
  /\ UNCHANGED <<profile, pcm, t, lock, ret, bluez, counts>>

\* ba_transport_pcm_thread_cleanup(): a drain must not wait for this thread.
IoSynced(p) ==
  /\ pc[Io(p)] = "cleanup" /\ Goto(Io(p), "async")
  /\ pcm' = [pcm EXCEPT ![p].synced = TRUE]
  /\ UNCHANGED <<profile, t, lock, ret, bluez, counts>>

\* ba_transport_pcm_bt_release(); the master also releases the transport.
IoBtRelease(p) ==
  /\ pc[Io(p)] = "btrelease" /\ Goto(Io(p), IF p = 1 THEN "release" ELSE "end")
  /\ pcm' = [pcm EXCEPT ![p].fd_bt = FALSE]
  /\ UNCHANGED <<profile, t, lock, ret, bluez, counts>>

\* transport_release_bt_a2dp(): a transport that BlueZ holds idle is closed; an
\* active one is released first, and BlueZ refuses that once it has become idle
\* by itself.
IoRelease(p) ==
  /\ pc[Io(p)] = "release"
  /\ IF t.bt_fd = "none" \/ profile = "ag" \/ t.a2dp = "idle" \/ bluez.state = "gone"
     THEN /\ t' = [t EXCEPT !.bt_fd = "none"]
          /\ Goto(Io(p), "end") /\ UNCHANGED bluez
     ELSE IF bluez.state = "active"
     THEN /\ bluez' = [state |-> "idle", signals |-> Append(bluez.signals, "idle")]
          /\ Goto(Io(p), "released") /\ UNCHANGED t
     ELSE Goto(Io(p), "end") /\ UNCHANGED <<t, bluez>>
  /\ UNCHANGED <<profile, pcm, lock, ret, counts>>

\* The wait for state_changed_cond.
IoReleased(p) ==
  /\ pc[Io(p)] = "released" /\ t.a2dp = "idle"
  /\ t' = [t EXCEPT !.bt_fd = "none"]
  /\ Goto(Io(p), "end")
  /\ UNCHANGED <<profile, pcm, lock, ret, bluez, counts>>

IoStep(p) ==
  \/ IoEnter(p) \/ IoCancelled(p) \/ IoSignal(p) \/ IoTimeout(p)
  \/ IoClientGone(p) \/ IoLinkLost(p) \/ IoSynced(p) \/ IoBtRelease(p)
  \/ IoRelease(p) \/ IoReleased(p)
  \/ StopFlag(Io(p)) \/ StopMark1(Io(p)) \/ StopMark2(Io(p))

----------------------------------------------------------------------------
(* transport_thread_manager() *)

ManagerRead ==
  /\ pc[Manager] = "poll" /\ t.pipe # << >>
  /\ t' = [t EXCEPT !.pipe = Tail(@), !.keepalive = Head(t.pipe) = "check"]
  /\ Goto(Manager, IF Head(t.pipe) = "check" THEN "poll" ELSE "stop1")
  /\ UNCHANGED <<profile, pcm, lock, ret, bluez, counts>>

\* The keep-alive time is over.
ManagerTimeout ==
  /\ pc[Manager] = "poll" /\ t.pipe = << >> /\ t.keepalive
  /\ t' = [t EXCEPT !.keepalive = FALSE]
  /\ Goto(Manager, "client1")
  /\ UNCHANGED <<profile, pcm, lock, ret, bluez, counts>>

\* ba_transport_pcms_full_lock()
FullLock(th, next) ==
  /\ \E m \in {"client1", "client2"} :
       /\ pc[th] = m /\ Take(m, th)
       /\ Goto(th, IF m = "client1" THEN "client2" ELSE next)
  /\ UNCHANGED <<profile, pcm, t, ret, bluez, counts>>

\* Slip: only the master is looked at.
ManagerCheckMaster ==
  /\ pc[Manager] = "check"
  /\ IF ~t.stopping /\ ~pcm[1].fd
     THEN /\ t' = [t EXCEPT !.stopping = TRUE]
          /\ Goto(Manager, "mark1") /\ UNCHANGED lock
     ELSE Free({"client1", "client2"}) /\ Goto(Manager, "poll") /\ UNCHANGED t
  /\ UNCHANGED <<profile, pcm, ret, bluez, counts>>

\* transport_threads_cancel_if_no_clients()
ManagerCheck ==
  /\ pc[Manager] = "check"
  /\ IF ~t.stopping /\ \A p \in Pcm : ~pcm[p].fd
     THEN /\ t' = [t EXCEPT !.stopping = TRUE]
          /\ Goto(Manager, "mark1") /\ UNCHANGED lock
     ELSE Free({"client1", "client2"}) /\ Goto(Manager, "poll") /\ UNCHANGED t
  /\ UNCHANGED <<profile, pcm, ret, bluez, counts>>

ManagerMark1 ==
  /\ pc[Manager] = "mark1" /\ Goto(Manager, "mark2")
  /\ SetStopping(1)
  /\ UNCHANGED <<profile, t, lock, ret, bluez, counts>>

ManagerMark2 ==
  /\ pc[Manager] = "mark2" /\ Goto(Manager, "stop1")
  /\ SetStopping(2)
  /\ Free({"client1", "client2"})
  /\ UNCHANGED <<profile, t, ret, bluez, counts>>

AfterStop(p) == IF p = 1 THEN "stop2" ELSE "stopped"

\* ba_transport_pcm_stop(): a PCM that is not marked for stopping fails the
\* assertion, and the daemon aborts.
PcmStop(p) ==
  /\ pc[Manager] = (IF p = 1 THEN "stop1" ELSE "stop2")
  /\ CASE State(p) \in {"IDLE", "TERMINATED"} ->
            Set(p, "TERMINATED") /\ Goto(Manager, AfterStop(p))
       [] State(p) = "STOPPING" ->
            /\ pcm' = [pcm EXCEPT ![p].state = "JOINING", ![p].cancelled = TRUE]
            /\ UNCHANGED pc
       [] OTHER -> State(p) # "JOINING" /\ Goto(Manager, "abort") /\ UNCHANGED pcm
  /\ UNCHANGED <<profile, t, lock, ret, bluez, counts>>

\* pthread_join()
PcmJoin(p) ==
  /\ pc[Manager] = (IF p = 1 THEN "stop1" ELSE "stop2")
  /\ State(p) = "JOINING" /\ pc[Io(p)] = "end"
  /\ Set(p, "TERMINATED")
  /\ pc' = [pc EXCEPT ![Manager] = AfterStop(p), ![Io(p)] = "none"]
  /\ UNCHANGED <<profile, t, lock, ret, bluez, counts>>

\* Slip: the flag stays set.
ManagerStoppedSet ==
  /\ pc[Manager] = "stopped" /\ Goto(Manager, "poll")
  /\ UNCHANGED <<profile, pcm, t, lock, ret, bluez, counts>>

\* transport_threads_cancel(): everything is joined.
ManagerStopped ==
  /\ pc[Manager] = "stopped" /\ Goto(Manager, "poll")
  /\ t' = [t EXCEPT !.stopping = FALSE]
  /\ UNCHANGED <<profile, pcm, lock, ret, bluez, counts>>

ManagerStep ==
  \/ ManagerRead \/ ManagerTimeout \/ FullLock(Manager, "check") \/ ManagerCheck
  \/ ManagerMark1 \/ ManagerMark2 \/ ManagerStopped
  \/ \E p \in Pcm : PcmStop(p) \/ PcmJoin(p)

----------------------------------------------------------------------------
(* bluealsa_pcm_open(), ba_transport_acquire() *)

OpenCall(p) ==
  /\ pc[Open(p)] = "none" /\ left.opens > 0 /\ bluez.state # "gone"
  /\ left' = [left EXCEPT !.opens = @ - 1]
  /\ Goto(Open(p), "client")
  /\ UNCHANGED <<profile, pcm, t, lock, ret, bluez, calm>>

OpenClient(p) ==
  /\ pc[Open(p)] = "client" /\ Goto(Open(p), "codec")
  /\ Take(Client(p), Open(p))
  /\ UNCHANGED <<profile, pcm, t, ret, bluez, counts>>

\* The codec of a gateway may not be selected yet, or another client has the PCM:
\* Open() fails.
OpenCheck(p) ==
  /\ pc[Open(p)] = "codec" /\ (profile = "ag" => lock["codec"] = None)
  /\ \/ /\ pcm[p].fd \/ profile = "ag"
        /\ Goto(Open(p), "none") /\ Free({Client(p)})
     \/ ~pcm[p].fd /\ Goto(Open(p), "acquire") /\ UNCHANGED lock
  /\ UNCHANGED <<profile, pcm, t, ret, bluez, counts>>

OpenAcquire(p) ==
  /\ pc[Open(p)] = "acquire" /\ Goto(Open(p), "socket")
  /\ Take("acquisition", Open(p))
  /\ UNCHANGED <<profile, pcm, t, ret, bluez, counts>>

\* Slip: the end of the old threads is not waited for.
OpenSocketEarly(p) ==
  /\ pc[Open(p)] = "socket" /\ t.bt_fd = "none" /\ bluez.state = "idle"
  /\ t' = [t EXCEPT !.bt_fd = "good"]
  /\ bluez' = IF profile = "ag" THEN bluez
              ELSE [state |-> "active", signals |-> Append(bluez.signals, "active")]
  /\ Goto(Open(p), "idle1")
  /\ UNCHANGED <<profile, pcm, lock, ret, counts>>

\* A socket that is there is used again.  Otherwise BlueZ may give a new one, or
\* the SCO link does, for the codec, which is asked for again.  Others may still
\* take bt_fd_mtx while it waits for that.
OpenSocket(p) ==
  /\ pc[Open(p)] = "socket" /\ ~t.stopping
  /\ \/ /\ t.bt_fd # "none"
        /\ Goto(Open(p), "wait") /\ Free({"acquisition"})
        /\ UNCHANGED <<t, bluez>>
     \/ /\ t.bt_fd = "none" /\ bluez.state = "idle"
        /\ profile = "ag" => lock["codec"] = None
        /\ t' = [t EXCEPT !.bt_fd = "good"]
        /\ bluez' = IF profile = "ag" THEN bluez
                    ELSE [state |-> "active", signals |-> Append(bluez.signals, "active")]
        /\ Goto(Open(p), "idle1") /\ UNCHANGED lock
     \/ /\ t.bt_fd = "none"
        /\ Goto(Open(p), "none") /\ Free({"acquisition", Client(p)})
        /\ UNCHANGED <<t, bluez>>
  /\ UNCHANGED <<profile, pcm, ret, counts>>

OpenIdle1(p) ==
  /\ pc[Open(p)] = "idle1" /\ Goto(Open(p), "idle2")
  /\ SetIdle(1)
  /\ UNCHANGED <<profile, t, lock, ret, bluez, counts>>

\* The IO threads of a SCO link are started here.
OpenIdle2(p) ==
  /\ pc[Open(p)] = "idle2"
  /\ SetIdle(2)
  /\ IF profile = "ag" THEN Goto(Open(p), "start") /\ UNCHANGED lock
                       ELSE Goto(Open(p), "wait") /\ Free({"acquisition"})
  /\ UNCHANGED <<profile, t, ret, bluez, counts>>

\* ba_transport_start()
OpenStart(p) ==
  /\ pc[Open(p)] = "start"
  /\ Goto(Open(p), IF \A q \in Pcm : State(q) = "IDLE" THEN "start1" ELSE "failed")
  /\ UNCHANGED <<profile, pcm, t, lock, ret, bluez, counts>>

\* sco_transport_start(); both threads are started whatever happens to the first.
OpenStart1(p) ==
  /\ pc[Open(p)] = "start1"
  /\ PcmStart(1, Open(p), "start2")
  /\ UNCHANGED <<profile, t, lock, ret, bluez, counts>>

OpenStart2(p) ==
  /\ pc[Open(p)] = "start2"
  /\ IF t.bt_fd = "none" /\ ~pcm[2].fd_bt
     THEN PcmStart(2, Open(p), "failed") /\ UNCHANGED lock
     ELSE PcmStart(2, Open(p), "wait") /\ Free({"acquisition"})
  /\ UNCHANGED <<profile, t, ret, bluez, counts>>

\* t->release(t); return -1: the acquisition mutex is not unlocked.
OpenFailed(p) ==
  /\ pc[Open(p)] = "failed" /\ Goto(Open(p), "none")
  /\ t' = [t EXCEPT !.bt_fd = "none"]
  /\ Free({Client(p)})
  /\ UNCHANGED <<profile, pcm, ret, bluez, counts>>

\* ba_transport_pcm_state_wait_running(): other states than RUNNING are errors.
OpenWait(p) ==
  /\ pc[Open(p)] = "wait" /\ State(p) \notin {"IDLE", "STARTING"}
  /\ IF State(p) = "RUNNING" THEN Goto(Open(p), "publish") /\ UNCHANGED lock
                             ELSE Goto(Open(p), "none") /\ Free({Client(p)})
  /\ UNCHANGED <<profile, pcm, t, ret, bluez, counts>>

OpenPublish(p) ==
  /\ pc[Open(p)] = "publish" /\ Goto(Open(p), "none")
  /\ pcm' = [pcm EXCEPT ![p] = Signalled([@ EXCEPT !.fd = TRUE], "open")]
  /\ Free({Client(p)})
  /\ UNCHANGED <<profile, t, ret, bluez, counts>>

OpenStep(p) ==
  \/ OpenClient(p) \/ OpenCheck(p) \/ OpenAcquire(p) \/ OpenSocket(p)
  \/ OpenIdle1(p) \/ OpenIdle2(p) \/ OpenStart(p) \/ OpenStart1(p) \/ OpenStart2(p)
  \/ OpenFailed(p) \/ OpenWait(p) \/ OpenPublish(p)

\* The client closes the PCM and the control socket, or dies.
ClientCloses(p) ==
  /\ pcm[p].fd /\ ~pcm[p].hangup
  /\ pcm' = [pcm EXCEPT ![p].hangup = TRUE]
  /\ UNCHANGED <<profile, t, lock, pc, ret, bluez, counts>>

----------------------------------------------------------------------------
(* ba_transport_select_codec_sco() *)

SelectCall ==
  /\ profile = "ag" /\ pc[Select] = "none"
  /\ Fault /\ Goto(Select, "codec")
  /\ UNCHANGED <<profile, pcm, t, lock, ret, bluez>>

SelectStop ==
  /\ pc[Select] = "codec" /\ Take("codec", Select)
  /\ Stop(Select, "client1")
  /\ UNCHANGED <<profile, pcm, t, ret, bluez, counts>>

\* The PCMs are released.  The RFCOMM thread selects the codec while this thread
\* waits for it on codec_selection_cond, and holds no mutex.
SelectRelease ==
  /\ pc[Select] = "release" /\ Goto(Select, "none")
  /\ pcm' = [p \in Pcm |-> Closed(pcm[p])]
  /\ Free({"client1", "client2", "codec"})
  /\ UNCHANGED <<profile, t, ret, bluez, counts>>

SelectStep ==
  \/ SelectStop \/ StopFlag(Select) \/ StopMark1(Select) \/ StopMark2(Select)
  \/ StopWait(Select, "client1") \/ FullLock(Select, "release") \/ SelectRelease

----------------------------------------------------------------------------
(* The main loop *)

\* bluez_signal_transport_changed(), ba_transport_set_a2dp_state()
MainSignal ==
  /\ pc[Main] = "poll" /\ bluez.signals # << >>
  /\ LET s == Head(bluez.signals) IN
       /\ bluez' = [bluez EXCEPT !.signals = Tail(@)]
       /\ t' = [t EXCEPT !.a2dp = s]
       /\ CASE s = t.a2dp -> UNCHANGED pc
            [] s = "active" /\ s # t.a2dp -> Goto(Main, "start")
            [] s = "idle" /\ s # t.a2dp -> Stop(Main, "poll")
  /\ ret' = "poll"
  /\ UNCHANGED <<profile, pcm, lock, counts>>

\* ba_transport_start() of an A2DP source waits for an acquisition under way.
MainStart ==
  /\ pc[Main] = "start" /\ lock["acquisition"] = None
  /\ Goto(Main, IF \A q \in Pcm : State(q) = "IDLE" THEN "start1" ELSE "poll")
  /\ UNCHANGED <<profile, pcm, t, lock, ret, bluez, counts>>

\* a2dp_faststream_source_transport_start()
MainStartPcm(p) ==
  /\ pc[Main] = (IF p = 1 THEN "start1" ELSE "start2")
  /\ PcmStart(p, Main, IF p = 1 THEN "start2" ELSE "poll")
  /\ UNCHANGED <<profile, t, lock, ret, bluez, counts>>

\* bluealsa_pcm_controller(): the command of a client that waits for its reply.
\* ba_transport_pcm_drain() sends SYNC and waits until the thread has synced.
MainDrain ==
  /\ pc[Main] = "poll" /\ pcm[1].fd
  /\ Event
  /\ IF State(1) = "RUNNING"
     THEN /\ pcm' = [pcm EXCEPT ![1] = Signalled([@ EXCEPT !.synced = FALSE], "sync")]
          /\ Goto(Main, "drain")
     ELSE UNCHANGED <<pcm, pc>>
  /\ UNCHANGED <<profile, t, lock, ret, bluez, calm>>

MainDrained ==
  /\ pc[Main] = "drain" /\ pcm[1].synced
  /\ Goto(Main, "poll")
  /\ UNCHANGED <<profile, pcm, t, lock, ret, bluez, counts>>

\* bluealsa_pcm_controller(): the end of a control socket.
MainClientGone(p) ==
  /\ pc[Main] = "poll" /\ pcm[p].fd /\ pcm[p].hangup
  /\ pcm' = [pcm EXCEPT ![p] = Signalled(Closed(@), "close")]
  /\ Send("check")
  /\ UNCHANGED <<profile, lock, pc, ret, bluez, counts>>

\* bluez_endpoint_clear_configuration(), ba_transport_destroy(): the device has
\* disconnected.  A transport that becomes idle by it is stopped twice.
MainDestroy ==
  /\ pc[Main] = "poll" /\ bluez.state # "gone" /\ Fault
  /\ bluez' = [state |-> "gone", signals |-> << >>]
  /\ t' = [t EXCEPT !.a2dp = "idle", !.bt_fd = IF @ = "good" THEN "lost" ELSE @]
  /\ ret' = IF t.a2dp = "idle" THEN "client1" ELSE "again"
  /\ Stop(Main, ret')
  /\ UNCHANGED <<profile, pcm, lock>>

MainStopAgain ==
  /\ pc[Main] = "again" /\ ret' = "client1"
  /\ Stop(Main, ret')
  /\ UNCHANGED <<profile, pcm, t, lock, bluez, counts>>

\* With all locks: the clients are closed, and the transport.
MainDestroyed ==
  /\ pc[Main] = "destroy" /\ Goto(Main, "gone")
  /\ pcm' = [p \in Pcm |-> Closed(pcm[p])]
  /\ t' = [t EXCEPT !.bt_fd = "none"]
  /\ Free({"client1", "client2"})
  /\ UNCHANGED <<profile, ret, bluez, counts>>

MainStep ==
  \/ MainSignal \/ MainStart \/ (\E p \in Pcm : MainStartPcm(p) \/ MainClientGone(p))
  \/ MainDrained \/ StopFlag(Main) \/ StopMark1(Main) \/ StopMark2(Main)
  \/ StopWait(Main, ret) \/ MainStopAgain \/ FullLock(Main, "destroy") \/ MainDestroyed

----------------------------------------------------------------------------
(* The link *)

\* The other device ends the link; of an A2DP transport BlueZ tells it.
LinkLost ==
  /\ t.bt_fd = "good" /\ Fault
  /\ t' = [t EXCEPT !.bt_fd = "lost"]
  /\ bluez' = IF profile = "ag" THEN bluez
              ELSE [state |-> "idle", signals |-> Append(bluez.signals, "idle")]
  /\ UNCHANGED <<profile, pcm, lock, pc, ret>>

Environment ==
  \/ \E p \in Pcm : OpenCall(p) \/ ClientCloses(p) \/ IoInitFails(p)
  \/ SelectCall \/ MainDrain \/ MainDestroy \/ LinkLost

Daemon ==
  \/ ManagerStep \/ SelectStep \/ MainStep
  \/ \E p \in Pcm : IoStep(p) \/ OpenStep(p)

Next == pc[Manager] # "abort" /\ (Environment \/ Daemon)

\* The kernel runs the threads that can run, and no thread works for ever: that
\* some step is taken while one can be taken is enough.
Spec == Init /\ [][Next]_vars /\ WF_vars(pc[Manager] # "abort" /\ Daemon)

----------------------------------------------------------------------------

\* A client that has opened a PCM is served until it leaves: the keep-alive check
\* that an earlier client has left behind never takes its thread away.
ClientServed ==
  \A p \in Pcm : calm /\ pcm[p].fd => State(p) = "RUNNING" /\ t.bt_fd = "good"

\* A new socket is acquired only when everything of the old one is reclaimed, and
\* a thread is never started where one is left.
ReclaimedFirst ==
  [][ /\ t.bt_fd = "none" /\ t'.bt_fd # "none" =>
           \A p \in Pcm : pc[Io(p)] = "none" /\ ~pcm[p].fd_bt
      /\ \A p \in Pcm : State(p)' = "STARTING" /\ State(p) # "STARTING" => pc[Io(p)] = "none"
    ]_<<pcm, t>>

\* A gateway answers every Open() while nothing is disturbed, whatever the other
\* clients do: the calls being bounded, in the end none is left waiting.
Waiting == \E p \in Pcm : pc[Open(p)] # "none"
GatewayAnswers == (profile = "ag" /\ Waiting) ~> (~Waiting \/ ~calm)

\* ba-transport-pcm.c:418 "If at this point the state is not STOPPING, it is a
\* programming error.": a PCM never runs when the manager stops it.
NoProgrammingError == pc[Manager] # "abort"

============================================================================
