------------------------------- MODULE BaPcm -------------------------------
(***************************************************************************)
(* bluez-alsa: the PCM plug-in for ALSA in the program that plays or       *)
(* records (src/vendors/bluez-alsa/src/asound/bluealsa-pcm.c).             *)
(*                                                                         *)
(*   app      the application's calls, through the ioplug of alsa-lib      *)
(*   worker   io_thread, which moves frames between ring buffer and FIFO   *)
(*   server   the daemon at the other end of the FIFO                      *)
(*                                                                         *)
(* app and worker share the pointer of the virtual hardware, the state of  *)
(* a pause, the event descriptor and SIGIO; only the pause is under the    *)
(* mutex.  Frames are numbered from the last prepare on, modulo the        *)
(* boundary of the pointers, so that one lost, repeated or stale shows.    *)
(***************************************************************************)
EXTENDS Integers, Sequences

CONSTANT Setups  \* bound: stream, buffer and period size, avail_min, and the
                 \* number of commands (all calls but hw_params, reading, writing, polling)

ASSUME SetupsAssumption ==
  Setups \subseteq [stream : {"PLAYBACK", "CAPTURE"}, buffer : Nat \ {0}, period : Nat \ {0},
                    min : Nat \ {0}, commands : Nat]

Fifo == 2  \* bound: the frames a FIFO holds

VARIABLES
  hw,       \* what hw_params fixed, and the commands that are left
  io,       \* snd_pcm_ioplug_t: state, appl_ptr, hw_ptr as last seen
  plug,     \* struct bluealsa_pcm: io_hw_ptr (ptr), pause_state, connected,
            \* the event counter, io_started, the ring buffer
  worker,   \* the IO thread: pc, its io_hw_ptr, the transfer, a pending SIGIO
  app,      \* the call the application is in, and whether the thread has woken it
  server,   \* paused, gone; and the frames in the FIFO
  made,     \* the last frame made by the application or by the server (history)
  due,      \* the frame that is to be delivered next (history)
  smooth    \* no signal to a thread that does not wait for one, and the thread
            \* not overtaken by prepare, and no pause or drain of a stream that has
            \* run dry unnoticed (history)

pcmVars == <<hw, io, plug, worker, app, server, made, due, smooth>>

Playback == hw.stream = "PLAYBACK"
Boundary == 2 * hw.buffer
After(f) == (f + 1) % Boundary
Old == -1  \* a frame of before the last prepare

PcmInit ==
  /\ hw \in Setups
  /\ io = [state |-> "OPEN", appl |-> 0, seen |-> 0]
  /\ plug = [ ptr |-> 0, pause |-> {}, connected |-> FALSE, event |-> {}, started |-> FALSE,
              ring |-> [i \in 0..hw.buffer - 1 |-> Old] ]
  /\ worker = [pc |-> "none", ptr |-> 0, off |-> 0, left |-> 0, room |-> 0, sig |-> FALSE]
  /\ app = [pc |-> "free", woken |-> FALSE]
  /\ server = [paused |-> FALSE, gone |-> FALSE, fifo |-> << >>]
  /\ made = 0 /\ due = 1 /\ smooth = TRUE

Idle == app.pc = "free"
Command == Idle /\ hw.commands > 0 /\ hw' = [hw EXCEPT !.commands = @ - 1]

----------------------------------------------------------------------------
(* alsa-lib: snd_pcm_ioplug_avail() and snd_pcm_ioplug_hw_avail() *)

Wrap(x) == IF x < 0 THEN x + Boundary ELSE IF x >= Boundary THEN x - Boundary ELSE x

\* What the application may write or read.
Avail(ptr, appl) == Wrap(ptr - appl + IF Playback THEN hw.buffer ELSE 0)

\* What the hardware may read or write; none if the pointers are too far apart.
HwAvail(ptr, appl) ==
  IF Avail(ptr, appl) > hw.buffer THEN 0 ELSE hw.buffer - Avail(ptr, appl)

----------------------------------------------------------------------------
(* io_thread *)

WorkerAt(label) == worker.pc = label
WorkerTo(label) == worker' = [worker EXCEPT !.pc = label]

\* The thread pauses when it is asked to and when there is nothing to do.
WorkerCheck ==
  /\ WorkerAt("check")
  /\ WorkerTo(IF "PENDING" \in plug.pause \/ plug.ptr = -1 THEN "pausing" ELSE "avail")
  /\ UNCHANGED <<hw, io, plug, app, server, made, due, smooth>>

WorkerPauses ==
  /\ WorkerAt("pausing") /\ WorkerTo("sigwait")
  /\ plug' = [plug EXCEPT !.pause = {"PAUSED"}]
  /\ app' = [app EXCEPT !.woken = app.pc = "waiting"]
  /\ UNCHANGED <<hw, io, server, made, due, smooth>>

WorkerResumes ==
  /\ WorkerAt("sigwait") /\ worker.sig
  /\ plug' = [plug EXCEPT !.pause = {}]
  /\ worker' = [worker EXCEPT !.sig = FALSE,
                              !.pc = IF plug.ptr = -1 THEN "check" ELSE "avail",
                              !.ptr = IF plug.ptr = -1 THEN @ ELSE plug.ptr]
  /\ UNCHANGED <<hw, io, app, server, made, due, smooth>>

\* Slip: always a period.
WorkerAvailPeriod ==
  /\ WorkerAt("avail")
  /\ LET avail == HwAvail(worker.ptr, io.appl)
         frames == hw.period
     IN worker' = IF avail = 0
                  THEN [worker EXCEPT !.pc = "xrun"]
                  ELSE [worker EXCEPT !.pc = "transfer", !.left = frames,
                                      !.off = worker.ptr % hw.buffer,
                                      !.ptr = (worker.ptr + frames) % Boundary,
                                      !.room = frames + hw.buffer - avail]
  /\ smooth' = (smooth /\ worker.ptr # -1)
  /\ UNCHANGED <<hw, io, plug, app, server, made, due>>

\* At most a period, and at most what is there; a pointer of -1 is at the last
\* frame of the ring, the sizes being powers of two.
WorkerAvail ==
  /\ WorkerAt("avail")
  /\ LET avail == HwAvail(worker.ptr, io.appl)
         frames == IF hw.period > avail THEN avail ELSE hw.period
     IN worker' = IF avail = 0
                  THEN [worker EXCEPT !.pc = "xrun"]
                  ELSE [worker EXCEPT !.pc = "transfer", !.left = frames,
                                      !.off = worker.ptr % hw.buffer,
                                      !.ptr = (worker.ptr + frames) % Boundary,
                                      !.room = frames + hw.buffer - avail]
  /\ smooth' = (smooth /\ worker.ptr # -1)
  /\ UNCHANGED <<hw, io, plug, app, server, made, due>>

WorkerXrun ==
  /\ WorkerAt("xrun")
  /\ worker' = [worker EXCEPT !.pc = "empty", !.ptr = -1]
  /\ plug' = [plug EXCEPT !.ptr = -1]
  /\ UNCHANGED <<hw, io, app, server, made, due, smooth>>

WorkerEmpty ==
  /\ WorkerAt("empty") /\ WorkerTo("check")
  /\ plug' = [plug EXCEPT !.event = @ \cup {"frames"}]
  /\ UNCHANGED <<hw, io, app, server, made, due, smooth>>

\* One frame of a read() or write(), which end when the chunk is transferred; the
\* second chunk begins at the start of the ring.
Moved == worker' = [worker EXCEPT !.left = @ - 1, !.off = (@ + 1) % hw.buffer,
                                  !.pc = IF worker.left = 1 THEN "publish" ELSE @]

WorkerWrites ==
  /\ Playback /\ WorkerAt("transfer") /\ ~server.gone
  /\ Len(server.fifo) < Fifo
  /\ server' = [server EXCEPT !.fifo = Append(@, plug.ring[worker.off])]
  /\ due' = After(plug.ring[worker.off])
  /\ Moved
  /\ UNCHANGED <<hw, io, plug, app, made, smooth>>

WorkerReads ==
  /\ ~Playback /\ WorkerAt("transfer") /\ server.fifo # << >>
  /\ plug' = [plug EXCEPT !.ring[worker.off] = Head(server.fifo)]
  /\ server' = [server EXCEPT !.fifo = Tail(@)]
  /\ Moved
  /\ UNCHANGED <<hw, io, app, made, due, smooth>>

\* EPIPE, or the end of the file.
WorkerFails ==
  /\ WorkerAt("transfer") /\ server.gone /\ (Playback \/ server.fifo = << >>)
  /\ WorkerTo("fail")
  /\ plug' = [plug EXCEPT !.connected = FALSE]
  /\ UNCHANGED <<hw, io, app, server, made, due, smooth>>

\* Slip: a pause goes on waiting for a thread that has failed.
WorkerFailedQuietly ==
  /\ WorkerAt("fail") /\ WorkerTo("dead")
  /\ plug' = [plug EXCEPT !.event = @ \cup {"dead"}]
  /\ UNCHANGED <<hw, io, app, server, made, due, smooth>>

WorkerFailed ==
  /\ WorkerAt("fail") /\ WorkerTo("dead")
  /\ plug' = [plug EXCEPT !.pause = {"PAUSED"}, !.event = @ \cup {"dead"}]
  /\ app' = [app EXCEPT !.woken = app.pc = "waiting"]
  /\ UNCHANGED <<hw, io, server, made, due, smooth>>

WorkerPublishes ==
  /\ WorkerAt("publish") /\ WorkerTo("notify")
  /\ plug' = [plug EXCEPT !.ptr = worker.ptr]
  /\ UNCHANGED <<hw, io, app, server, made, due, smooth>>

WorkerNotifies ==
  /\ WorkerAt("notify") /\ WorkerTo("check")
  /\ plug' = [plug EXCEPT !.event = IF worker.room >= hw.min THEN @ \cup {"frames"} ELSE @]
  /\ UNCHANGED <<hw, io, app, server, made, due, smooth>>

WorkerStep ==
  \/ WorkerCheck \/ WorkerPauses \/ WorkerResumes \/ WorkerAvail \/ WorkerXrun \/ WorkerEmpty
  \/ WorkerWrites \/ WorkerReads \/ WorkerFails \/ WorkerFailed \/ WorkerPublishes
  \/ WorkerNotifies

----------------------------------------------------------------------------
(* Calls shared by the operations *)

\* io_thread_cancel(): the thread is joined, which it is where it can be cancelled.
Cancellable == worker.pc \in {"none", "transfer", "sigwait", "empty", "notify", "dead"}
NoWorker == [pc |-> "none", ptr |-> 0, off |-> 0, left |-> 0, room |-> 0, sig |-> FALSE]

\* bluealsa_stop(): p and v are the plug-in and the server before it.
StopStream(p, v) ==
  /\ Cancellable
  /\ worker' = NoWorker
  /\ plug' = [p EXCEPT !.started = FALSE, !.ptr = 0,
                       !.event = IF v.gone THEN @ ELSE @ \cup {"frames"}]
  /\ server' = [v EXCEPT !.fifo = IF v.gone \/ ~Playback THEN @ ELSE << >>]

\* A SIGIO now is heard at once, by a thread that waits or is about to.
Hears == worker.pc \in {"pausing", "sigwait"}
Signal == worker' = [worker EXCEPT !.sig = TRUE]

\* bluealsa_start(), when it succeeds.
CanStart == plug.started \/ ~server.gone
Started ==
  IF plug.started
  THEN Signal /\ UNCHANGED <<plug, server>>
  ELSE /\ server' = [server EXCEPT !.paused = FALSE]
       /\ plug' = [plug EXCEPT !.started = TRUE]
       /\ worker' = [NoWorker EXCEPT !.pc = "check", !.ptr = plug.ptr]

\* snd_pcm_ioplug_hw_ptr_update() with bluealsa_pointer().  Drained: a drain that
\* was not waited for is over, and ioplug stops the stream.
Drained(s) == s = "DRAINING" /\ (plug.ptr = -1 \/ Avail(plug.ptr, io.appl) >= hw.buffer)
Pointed == IF plug.connected THEN io.state ELSE "DISCONNECTED"
Synced == [io EXCEPT !.state = IF Drained(Pointed) THEN "SETUP"
                               ELSE IF plug.ptr = -1 THEN "XRUN" ELSE Pointed,
                     !.seen = IF plug.ptr = -1 THEN @ ELSE plug.ptr]

Room == Avail(Synced.seen, io.appl)

----------------------------------------------------------------------------
(* Reading and writing: ioplug, with a ring that the application may map *)

Transferring == Synced.state \in {"PREPARED", "RUNNING"} /\ Room > 0

\* snd_pcm_writei(): the pointer is looked at, then the frame is copied and
\* committed.
Writes ==
  /\ Playback /\ Idle /\ io.state \in {"PREPARED", "RUNNING"}
  /\ io' = Synced
  /\ app' = IF Transferring THEN [app EXCEPT !.pc = "writing"] ELSE app
  /\ UNCHANGED <<hw, plug, worker, server, made, due, smooth>>

Commits ==
  /\ app.pc = "writing" /\ app' = [app EXCEPT !.pc = "free"]
  /\ made' = After(made)
  /\ plug' = [plug EXCEPT !.ring[io.appl % hw.buffer] = After(made)]
  /\ io' = [io EXCEPT !.appl = Wrap(@ + 1)]
  /\ UNCHANGED <<hw, worker, server, due, smooth>>

\* snd_pcm_readi()
Reads ==
  /\ ~Playback /\ Idle /\ io.state = "RUNNING"
  /\ io' = [Synced EXCEPT !.appl = IF Transferring THEN Wrap(@ + 1) ELSE @]
  /\ due' = IF Transferring THEN After(plug.ring[io.appl % hw.buffer]) ELSE due
  /\ UNCHANGED <<hw, plug, worker, app, server, made, smooth>>

----------------------------------------------------------------------------
(* hw_params, prepare, start, drop, hw_free *)

\* bluealsa_prepare(), p and v being the plug-in and the server before it: a
\* prepared stream has nothing to be read, and may be written to.
Prepared(p, v) ==
  /\ plug' = [p EXCEPT !.ptr = 0,
                       !.event = IF ~Playback THEN {}
                                 ELSE IF hw.min < hw.buffer THEN @ \cup {"frames"} ELSE @,
                       !.ring = [i \in DOMAIN @ |-> Old]]
  /\ io' = [io EXCEPT !.state = "PREPARED", !.appl = 0, !.seen = 0]
  /\ server' = [v EXCEPT !.fifo = [i \in DOMAIN @ |-> IF Playback THEN Old ELSE i % Boundary]]
  /\ made' = IF Playback THEN 0 ELSE Len(v.fifo) % Boundary
  /\ due' = 1

\* bluealsa_hw_params() opens the PCM; alsa-lib then prepares it.
HwParams ==
  /\ Idle /\ io.state = "OPEN" /\ ~server.gone
  /\ Prepared([plug EXCEPT !.connected = TRUE], [server EXCEPT !.paused = FALSE])
  /\ UNCHANGED <<hw, worker, app, smooth>>

HwFree ==
  /\ Command /\ io.state \in {"SETUP", "PREPARED"} /\ Cancellable
  /\ worker' = NoWorker
  /\ plug' = [plug EXCEPT !.started = FALSE, !.connected = FALSE]
  /\ io' = [io EXCEPT !.state = "OPEN"]
  /\ server' = [server EXCEPT !.fifo = << >>]
  /\ UNCHANGED <<app, made, due, smooth>>

Prepare ==
  /\ Command /\ io.state \in {"SETUP", "XRUN"}
  /\ IF plug.connected
     THEN Prepared(plug, server)
     ELSE io' = [io EXCEPT !.state = "DISCONNECTED"] /\ UNCHANGED <<plug, server, made, due>>
  /\ UNCHANGED <<worker, app, smooth>>

Start ==
  /\ Command /\ io.state = "PREPARED" /\ CanStart
  /\ Started
  /\ io' = [io EXCEPT !.state = "RUNNING"]
  /\ smooth' = (smooth /\ (plug.started => Hears))
  /\ UNCHANGED <<app, made, due>>

Drop ==
  /\ Command /\ io.state \notin {"OPEN", "DISCONNECTED", "SETUP"}
  /\ StopStream(plug, server)
  /\ io' = [io EXCEPT !.state = "SETUP"]
  /\ UNCHANGED <<app, made, due, smooth>>

----------------------------------------------------------------------------
(* bluealsa_pause() *)

\* The predicate of the wait.
MayPause == "PAUSED" \in plug.pause \/ ~plug.connected

Pause ==
  /\ Command /\ io.state = "RUNNING"
  /\ plug' = [plug EXCEPT !.pause = @ \cup {"PENDING"}]
  /\ app' = [pc |-> IF MayPause THEN "parked" ELSE "waiting", woken |-> FALSE]
  /\ UNCHANGED <<io, worker, server, made, due, smooth>>

\* pthread_cond_wait() returns; the thread may have gone on by now, and goes on
\* if a signal is pending.
PauseWakes ==
  /\ app.pc = "waiting" /\ app.woken
  /\ app' = [pc |-> IF MayPause THEN "parked" ELSE "waiting", woken |-> MayPause /\ ~worker.sig]
  /\ UNCHANGED <<hw, io, plug, worker, server, made, due, smooth>>

\* The command to the server, which may not answer any more.  A pause of a stream
\* that has run dry unnoticed is one no start undoes.
PauseSent ==
  /\ app.pc = "parked" /\ app' = [pc |-> "free", woken |-> FALSE]
  /\ IF plug.connected /\ ~server.gone
     THEN /\ server' = [server EXCEPT !.paused = TRUE]
          /\ io' = [io EXCEPT !.state = "PAUSED"]
          /\ plug' = [plug EXCEPT !.event = @ \cup {"frames"}]
          /\ smooth' = (smooth /\ plug.ptr # -1)
     ELSE /\ io' = [io EXCEPT !.state = IF plug.connected THEN @ ELSE "DISCONNECTED"]
          /\ UNCHANGED <<plug, server, smooth>>
  /\ UNCHANGED <<hw, worker, made, due>>

Resume ==
  /\ Command /\ io.state = "PAUSED"
  /\ IF plug.connected /\ ~server.gone
     THEN /\ server' = [server EXCEPT !.paused = FALSE]
          /\ io' = [io EXCEPT !.state = "RUNNING"]
          /\ plug' = [plug EXCEPT !.event = @ \cup {"frames"}]
          /\ Signal /\ smooth' = (smooth /\ Hears)
     ELSE /\ io' = [io EXCEPT !.state = IF plug.connected THEN @ ELSE "DISCONNECTED"]
          /\ UNCHANGED <<plug, worker, server, smooth>>
  /\ UNCHANGED <<app, made, due>>

----------------------------------------------------------------------------
(* bluealsa_drain(), of playback: ioplug stops a recording at once *)

\* A drain of a stream that has run dry unnoticed finds nothing to wait for.
Drain(block) ==
  /\ Playback /\ Command /\ io.state \in {"PREPARED", "RUNNING"}
  /\ IF ~plug.connected
     THEN /\ io' = [io EXCEPT !.state = "DISCONNECTED"]
          /\ UNCHANGED <<plug, worker, server, app>>
     ELSE IF CanStart
     THEN /\ Started
          /\ io' = [io EXCEPT !.state = "DRAINING"]
          /\ app' = [app EXCEPT !.pc = IF block THEN "draining" ELSE "free"]
     ELSE /\ StopStream(plug, server)
          /\ io' = [io EXCEPT !.state = "SETUP"]
          /\ UNCHANGED app
  /\ smooth' = (smooth /\ plug.ptr # -1 /\ ~WorkerAt("xrun"))
  /\ UNCHANGED <<made, due>>

\* The condition of the loop, and the frames that are left.
DrainGoesOn ==
  plug.connected /\ plug.ptr # -1 /\ HwAvail(plug.ptr, io.appl) > 0

\* poll() and eventfd_read()
DrainPolls ==
  /\ app.pc = "draining" /\ DrainGoesOn /\ plug.event # {}
  /\ plug' = [plug EXCEPT !.event = {}]
  /\ UNCHANGED <<hw, io, worker, app, server, made, due, smooth>>

\* The server has stopped reading.
DrainTimesOut ==
  /\ app.pc = "draining" /\ DrainGoesOn /\ plug.event = {} /\ worker.pc = "transfer"
  /\ hw.commands > 0 /\ hw' = [hw EXCEPT !.commands = @ - 1]
  /\ StopStream(plug, server)
  /\ io' = [io EXCEPT !.state = "SETUP"] /\ app' = [app EXCEPT !.pc = "free"]
  /\ UNCHANGED <<made, due, smooth>>

\* The local drain is complete: the server is asked for its own.
DrainLoopEnds ==
  /\ app.pc = "draining" /\ ~DrainGoesOn
  /\ IF plug.connected /\ server.gone
     THEN /\ StopStream(plug, server)
          /\ io' = [io EXCEPT !.state = "SETUP"] /\ app' = [app EXCEPT !.pc = "free"]
     ELSE /\ app' = [app EXCEPT !.pc = "flushing"]
          /\ UNCHANGED <<io, plug, worker, server>>
  /\ UNCHANGED <<hw, made, due, smooth>>

\* The server answers, its FIFO being empty, or there is none to wait for; success,
\* with which ioplug stops the stream.
DrainReturns ==
  /\ app.pc = "flushing" /\ (server.fifo = << >> \/ server.gone \/ server.paused)
  /\ StopStream(plug, server)
  /\ io' = [io EXCEPT !.state = "SETUP"] /\ app' = [app EXCEPT !.pc = "free"]
  /\ UNCHANGED <<hw, made, due, smooth>>

----------------------------------------------------------------------------
(* bluealsa_poll_revents() *)

\* Whether the stream is to be reported again.
Ready ==
  CASE Synced.state = "PREPARED" -> Playback
    [] Synced.state = "RUNNING"  -> Room >= hw.min
    [] Synced.state \in {"SETUP", "DRAINING"} -> FALSE
    [] OTHER -> TRUE

\* Slip: the event is taken for good.
PollTakes ==
  /\ Idle /\ plug.event # {} /\ io.state \notin {"OPEN", "DISCONNECTED"}
  /\ IF ~plug.connected \/ "dead" \in plug.event
     THEN io' = [io EXCEPT !.state = "DISCONNECTED"] /\ UNCHANGED <<plug, worker, server>>
     ELSE /\ io' = Synced
          /\ IF Drained(io.state)
             THEN StopStream([plug EXCEPT !.event = {}], server)
             ELSE /\ plug' = [plug EXCEPT !.event = {}]
                  /\ UNCHANGED <<worker, server>>
  /\ UNCHANGED <<hw, app, made, due, smooth>>

Poll ==
  /\ Idle /\ plug.event # {} /\ io.state \notin {"OPEN", "DISCONNECTED"}
  /\ IF ~plug.connected \/ "dead" \in plug.event
     THEN io' = [io EXCEPT !.state = "DISCONNECTED"] /\ UNCHANGED <<plug, worker, server>>
     ELSE /\ io' = Synced
          /\ IF Drained(io.state)
             THEN StopStream([plug EXCEPT !.event = {}], server)
             ELSE /\ plug' = [plug EXCEPT !.event = IF Ready THEN {"frames"} ELSE {}]
                  /\ UNCHANGED <<worker, server>>
  /\ UNCHANGED <<hw, app, made, due, smooth>>

----------------------------------------------------------------------------
(* The server *)

ServerPlays ==
  /\ Playback /\ ~server.paused /\ ~server.gone /\ server.fifo # << >>
  /\ server' = [server EXCEPT !.fifo = Tail(@)]
  /\ UNCHANGED <<hw, io, plug, worker, app, made, due, smooth>>

ServerRecords ==
  /\ ~Playback /\ plug.connected /\ ~server.paused /\ ~server.gone
  /\ Len(server.fifo) < Fifo
  /\ made' = After(made)
  /\ server' = [server EXCEPT !.fifo = Append(@, After(made))]
  /\ UNCHANGED <<hw, io, plug, worker, app, due, smooth>>

ServerGoes ==
  /\ ~server.gone /\ hw.commands > 0 /\ hw' = [hw EXCEPT !.commands = @ - 1]
  /\ server' = [server EXCEPT !.gone = TRUE]
  /\ UNCHANGED <<io, plug, worker, app, made, due, smooth>>

\* Steps of a call that is under way.
CallStep ==
  Commits \/ PauseWakes \/ PauseSent \/ DrainPolls \/ DrainLoopEnds \/ DrainReturns

Calls ==
  \/ Writes \/ Reads \/ HwParams \/ HwFree \/ Prepare \/ Start \/ Drop \/ Pause \/ Resume
  \/ (\E block \in BOOLEAN : Drain(block)) \/ DrainTimesOut \/ Poll

ServerStep == ServerPlays \/ ServerRecords

PcmNext == WorkerStep \/ CallStep \/ Calls \/ ServerStep \/ ServerGoes

\* The kernel runs the thread, and a call that can go on does; the daemon moves
\* audio while the link is up.  Nothing is asked of the application between calls.
PcmFairness == WF_pcmVars(WorkerStep) /\ WF_pcmVars(CallStep) /\ WF_pcmVars(ServerStep)

PcmSpec == PcmInit /\ [][PcmNext]_pcmVars /\ PcmFairness

----------------------------------------------------------------------------

\* Every frame that reaches the server, or the application, is the one that
\* follows the last one since the stream was prepared: none is lost, repeated or
\* stale, whatever pauses, drops and overruns come between.  And a drain that returns
\* with success has handed over every frame that was written; and a pause that had
\* to wait for the thread, with no signal pending, finds no transfer under way.
FramesInOrder ==
  [][ smooth =>
      /\ (Playback /\ Len(server'.fifo) > Len(server.fifo))
           => server'.fifo[Len(server'.fifo)] = due
      /\ (~Playback /\ io.state = "RUNNING" /\ io'.appl # io.appl)
           => plug.ring[io.appl % hw.buffer] = due
      /\ (app.pc = "flushing" /\ app'.pc = "free" /\ ~server.gone) => due = After(made)
      /\ (app.pc = "parked" /\ app.woken /\ server'.paused)
           => worker.pc \notin {"transfer", "publish"}
    ]_<<server, io, app>>

\* An avail_min of the whole ring: only the thread that finds it empty raises an event.
WaitsForAll == hw.min >= hw.buffer

\* An application that waits in poll() has nothing to do: while no event is pending
\* and the thread is not about to raise one, too few frames are there to be moved,
\* the drain goes on, and no error is to be told.
PollWoken ==
  (smooth /\ Idle /\ plug.event = {} /\ worker.pc \notin {"notify", "empty", "fail"}) =>
    CASE io.state = "RUNNING"  ->
           plug.ptr # -1 /\ (WaitsForAll \/ Avail(plug.ptr, io.appl) < hw.min)
      [] io.state = "DRAINING" -> plug.ptr # -1 /\ (WaitsForAll \/ ~Drained(io.state))
      [] io.state \in {"XRUN", "PAUSED"} -> FALSE
      [] io.state = "PREPARED" -> ~Playback \/ WaitsForAll
      [] OTHER -> TRUE

\* A pause and a drain return, without a timeout, as long as the server moves audio.
CallsReturn == ~Idle ~> (Idle \/ ~smooth)

=============================================================================
