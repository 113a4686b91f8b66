-------------------------- MODULE TransportProofs --------------------------
(* bluez-alsa: of every load of a transport, a socket is acquired only when   *)
(* all of the old one is reclaimed, and no IO thread is started where one is  *)
(* left.                                                                      *)
(*                                                                            *)
(* What a step does to the parts of the state that the invariant reads is     *)
(* said by its shape: every action has one (IoSteps ... NextShape), and every *)
(* part of the invariant is kept by every shape (LabelsKept ...               *)
(* ReclaimedKept).                                                            *)
EXTENDS BaTransport, SequenceTheorems, TLAPS

----------------------------------------------------------------------------
(* The types *)

\* Where the threads are.
IoLabel == {"none", "entry", "loop", "cleanup", "async", "mark1", "mark2", "btrelease",
            "release", "released", "end"}
MainLabel == {"poll", "start", "start1", "start2", "drain", "async", "mark1", "mark2",
              "stopwait", "again", "client1", "client2", "destroy", "gone"}
ManagerLabel == {"poll", "client1", "client2", "check", "mark1", "mark2", "stop1", "stop2",
                 "stopped", "abort"}
OpenLabel == {"none", "client", "codec", "acquire", "socket", "idle1", "idle2", "start",
              "start1", "start2", "failed", "wait", "publish"}
SelectLabel == {"none", "codec", "async", "mark1", "mark2", "stopwait", "client1",
                "client2", "release"}

\* What goes through the pipe of a PCM, of the manager, and from BlueZ.
Signal == Seq({"open", "close", "sync"})
Command == Seq({"check", "cancel"})
Change == Seq({"idle", "active"})

PcmState == {"TERMINATED", "IDLE", "STARTING", "RUNNING", "STOPPING", "JOINING"}

PcmType == [ state : PcmState,
             fd : BOOLEAN, hangup : BOOLEAN, fd_bt : BOOLEAN, synced : BOOLEAN,
             timeout : BOOLEAN, cancelled : BOOLEAN, pipe : Signal ]

TransportType == [ bt_fd : {"none", "good", "lost"}, stopping : BOOLEAN,
                   a2dp : {"idle", "active"}, pipe : Command,
                   keepalive : BOOLEAN ]

BlueZType == [state : {"idle", "active", "gone"}, signals : Change]

Mutex == {"client1", "client2", "acquisition", "codec"}

PcmTyped == pcm \in [Pcm -> PcmType]

DataTyped ==
  /\ profile \in {"source", "ag"}
  /\ t \in TransportType
  /\ lock \in [Mutex -> Thread \cup {None}]
  /\ ret \in {"poll", "again", "client1"}
  /\ bluez \in BlueZType
  /\ pc = [th \in Thread |-> pc[th]]

Labels ==
  /\ pc[Main] \in MainLabel /\ pc[Manager] \in ManagerLabel /\ pc[Select] \in SelectLabel
  /\ \A p \in Pcm : pc[Io(p)] \in IoLabel /\ pc[Open(p)] \in OpenLabel

Types == PcmTyped /\ DataTyped /\ Labels

----------------------------------------------------------------------------
(* The invariant *)

Has(s, x) == \E i \in DOMAIN s : s[i] = x
Once(s, x) == \A i, j \in DOMAIN s : s[i] = x /\ s[j] = x => i = j

\* Between the acquisition and the release of acquisition_mtx.
Acquiring == {"socket", "idle1", "idle2", "start", "start1", "start2", "failed"}

\* Who is in a critical section holds its mutexes.
Locks ==
  /\ \A p \in Pcm :
       /\ pc[Open(p)] \in Acquiring \cup {"codec", "acquire", "wait", "publish"} =>
            lock[Client(p)] = Open(p)
       /\ pc[Open(p)] \in Acquiring => lock["acquisition"] = Open(p)
  /\ \A th \in {Main, Manager, Select} : pc[th] = "client2" => lock["client1"] = th
  /\ pc[Manager] \in {"check", "mark1", "mark2"} =>
       lock["client1"] = Manager /\ lock["client2"] = Manager
  /\ pc[Main] = "destroy" => lock["client1"] = Main /\ lock["client2"] = Main
  /\ pc[Select] = "release" => lock["client1"] = Select /\ lock["client2"] = Select
  /\ pc[Select] \notin {"none", "codec"} => lock["codec"] = Select

\* A thread has set the flag and has not sent the command yet; the command is on
\* its way; the manager works on it.
Marking(th) == pc[th] \in {"mark1", "mark2"}
Sent == Has(t.pipe, "cancel")
Cancelling == pc[Manager] \in {"stop1", "stop2", "stopped"}

\* There is one cancellation at a time, from the flag to its reset.
OneStop ==
  /\ Sent \/ Cancelling => t.stopping
  /\ Cancelling => ~Sent
  /\ Once(t.pipe, "cancel")
  /\ \A th \in Thread : Marking(th) =>
       /\ t.stopping /\ ~Sent /\ ~Cancelling
       /\ \A other \in Thread : Marking(other) => other = th

\* No thread of the PCM is there, and none is to be joined.
Ready(p) == State(p) \in {"IDLE", "TERMINATED"}

\* An IO thread that has the socket: pcm->fd_bt.
Using == {"entry", "loop", "cleanup", "async", "mark1", "mark2", "btrelease"}

Threads ==
  /\ \A p \in Pcm :
       /\ Ready(p) <=> pc[Io(p)] = "none"
       /\ pcm[p].fd_bt <=> pc[Io(p)] \in Using
  /\ pc[Io(2)] \notin {"release", "released"}

\* ba_transport_pcm_start() is called for PCMs without a thread.
Starting(th) ==
  /\ pc[th] = "start1" => \A p \in Pcm : Ready(p)
  /\ pc[th] = "start2" => Ready(2)

\* The device has disconnected.  Open() has failed and left acquisition_mtx locked:
\* from then on nothing can be acquired.
Gone == bluez.state = "gone"
Leaked == \E p \in Pcm : lock["acquisition"] = Open(p) /\ pc[Open(p)] \notin Acquiring

\* A source is started by the main loop only, a gateway by Open() only.
Starts ==
  /\ Starting(Main) /\ \A p \in Pcm : Starting(Open(p))
  /\ profile = "source" =>
       /\ pc[Select] = "none"
       /\ \A p \in Pcm : pc[Open(p)] \notin {"start", "start1", "start2", "failed"}
       /\ ~Leaked
  /\ profile = "ag" => bluez.signals = << >> /\ pc[Main] \notin {"start", "start1", "start2"}

\* The main loop takes the transport away when it is gone, and only then.
Ends ==
  /\ Gone <=> ret # "poll"
  /\ Gone => t.bt_fd # "good" /\ pc[Main] \notin {"poll", "start", "start1", "start2", "drain"}
  /\ pc[Main] \in {"again", "client1", "client2", "destroy", "gone"} => Gone
  /\ ~Gone /\ profile = "ag" => pc[Main] \in {"poll", "drain"}

\* BlueZ has told of a start that the main loop has not seen.
Pending == Has(bluez.signals, "active")

\* A source: the main loop learns of the start of a socket while that socket is
\* there and before a thread uses it.
Signals ==
  /\ Once(bluez.signals, "active")
  /\ Pending =>
       /\ t.bt_fd # "none" /\ t.a2dp = "idle" /\ pc[Io(1)] = "none"
       /\ pc[Main] \notin {"start", "start1", "start2"}
  /\ t.bt_fd = "none" => t.a2dp = "idle"
  /\ pc[Main] \in {"start", "start1", "start2"} => t.a2dp = "active"

Idle(p) == State(p) = "IDLE"
BothIdle == \A p \in Pcm : Idle(p)
\* Open() has a new socket and no thread of it is there.
Fresh(p) == pc[Open(p)] \in {"idle1", "idle2", "start", "start1"}
InStop(th) == pc[th] \in {"mark1", "mark2", "stopwait"}

\* A source whose PCMs are idle is being acquired or waits for its start, and only
\* the main loop may have told the manager to stop its threads.
SourceStops ==
  /\ BothIdle => \E p \in Pcm : pc[Open(p)] \in {"idle1", "idle2", "wait"}
  /\ pc[Main] = "start1" => BothIdle
  /\ t.stopping /\ BothIdle => InStop(Main)
  /\ \A p \in Pcm : Fresh(p) => pc[Main] \notin {"start1", "start2"}
  /\ \A p \in Pcm : Fresh(p) /\ t.stopping => InStop(Main)

\* A gateway being acquired: only SelectCodec() may have told the manager.
AgStops == \A p \in Pcm : Fresh(p) /\ t.stopping => InStop(Select)

\* The cleanup of an IO thread, from the call of ba_transport_stop_async().
Ending == {"mark1", "mark2", "btrelease", "release", "released", "end"}

\* Without a socket and without the flag no thread is left.  A thread that the
\* manager has passed over is of a gateway acquired anew, while SelectCodec() waits.
Reclaimed ==
  /\ t.bt_fd = "none" /\ ~t.stopping => \A p \in Pcm : pc[Io(p)] = "none"
  /\ pc[Io(1)] \in Ending => t.stopping
  /\ \A p, q \in Pcm : Fresh(p) => pc[Io(q)] = "none"
  /\ pc[Manager] \in {"stop2", "stopped"} /\ pc[Io(1)] # "none" =>
       /\ profile = "ag" /\ pc[Io(1)] = "entry" /\ pc[Select] = "stopwait"
       /\ t.bt_fd # "none"
  /\ pc[Manager] = "stopped" /\ pc[Io(2)] # "none" => t.bt_fd # "none"

Orderly == ~Gone /\ ~Leaked

\* The last parts hold as long as something may still be acquired.
Inv ==
  /\ Types /\ Locks /\ OneStop /\ Threads /\ Starts /\ Ends
  /\ Orderly =>
       /\ Reclaimed
       /\ profile = "source" => Signals /\ SourceStops
       /\ profile = "ag" => AgStops

----------------------------------------------------------------------------
(* Names, locks and sequences *)

LEMMA Names ==
  /\ Thread = {Main, Manager, Select, Io(1), Io(2), Open(1), Open(2)}
  /\ None \notin Thread
  /\ Main # Manager /\ Main # Select /\ Manager # Select
  /\ \A p, q \in Pcm : /\ Io(p) # Open(q)
                       /\ Io(p) \notin {Main, Manager, Select}
                       /\ Open(p) \notin {Main, Manager, Select}
                       /\ (p # q) => (Io(p) # Io(q) /\ Open(p) # Open(q))
  BY DEF Thread, Main, Manager, Select, Io, Open, None, Pcm

LEMMA AppendHas ==
  ASSUME NEW S, NEW s \in Seq(S), NEW x \in S, NEW y \in S
  PROVE  /\ Has(Append(s, y), x) <=> Has(s, x) \/ x = y
         /\ x # y /\ Once(s, x) => Once(Append(s, y), x)
         /\ ~Has(s, x) => Once(Append(s, y), x)
  <1>1. /\ Append(s, y) \in Seq(S) /\ Len(Append(s, y)) = Len(s) + 1
        /\ \A i \in 1..Len(s) : Append(s, y)[i] = s[i]
        /\ Append(s, y)[Len(s) + 1] = y
        /\ DOMAIN s = 1..Len(s) /\ DOMAIN Append(s, y) = 1..(Len(s) + 1)
        /\ Len(s) \in Nat
    BY AppendProperties
  <1>2. Has(Append(s, y), x) <=> Has(s, x) \/ x = y
    BY <1>1 DEF Has
  <1>3. x # y /\ Once(s, x) => Once(Append(s, y), x)
    BY <1>1 DEF Once
  <1>4. ~Has(s, x) => Once(Append(s, y), x)
    BY <1>1 DEF Once, Has
  <1>5. QED
    BY <1>2, <1>3, <1>4

LEMMA TailHas ==
  ASSUME NEW S, NEW s \in Seq(S), s # << >>, NEW x \in S
  PROVE  /\ Has(Tail(s), x) => Has(s, x)
         /\ Head(s) = x => Has(s, x)
         /\ Has(s, x) => Has(Tail(s), x) \/ Head(s) = x
         /\ Once(s, x) => Once(Tail(s), x)
         /\ Once(s, x) /\ Head(s) = x => ~Has(Tail(s), x)
  <1>1. /\ Tail(s) \in Seq(S) /\ Len(Tail(s)) = Len(s) - 1
        /\ \A i \in 1..Len(Tail(s)) : Tail(s)[i] = s[i + 1]
        /\ DOMAIN s = 1..Len(s) /\ DOMAIN Tail(s) = 1..(Len(s) - 1)
        /\ Len(s) \in Nat \ {0} /\ Head(s) = s[1]
    BY HeadTailProperties, EmptySeq
  <1>3. Has(Tail(s), x) => Has(s, x)
    <2>1. ASSUME NEW i \in DOMAIN Tail(s), Tail(s)[i] = x PROVE Has(s, x)
      <3>1. i + 1 \in DOMAIN s /\ s[i + 1] = x
        BY <1>1, <2>1
      <3>2. QED
        BY <3>1 DEF Has
    <2>2. QED
      BY <2>1 DEF Has
  <1>4. Head(s) = x => Has(s, x)
    BY <1>1 DEF Has
  <1>5. Once(s, x) => Once(Tail(s), x)
    <2>1. ASSUME Once(s, x), NEW i \in DOMAIN Tail(s), NEW j \in DOMAIN Tail(s),
                 Tail(s)[i] = x, Tail(s)[j] = x
          PROVE  i = j
      <3>1. i + 1 \in DOMAIN s /\ s[i + 1] = x /\ j + 1 \in DOMAIN s /\ s[j + 1] = x
        BY <1>1, <2>1
      <3>2. i + 1 = j + 1
        BY <2>1, <3>1 DEF Once
      <3>3. QED
        BY <1>1, <3>2
    <2>2. QED
      BY <2>1 DEF Once
  <1>6. Once(s, x) /\ Head(s) = x => ~Has(Tail(s), x)
    <2>1. ASSUME Once(s, x), Head(s) = x, NEW i \in DOMAIN Tail(s), Tail(s)[i] = x
          PROVE  FALSE
      <3>1. i + 1 \in DOMAIN s /\ s[i + 1] = x /\ 1 \in DOMAIN s /\ s[1] = x
        BY <1>1, <2>1
      <3>2. i + 1 = 1
        BY <2>1, <3>1 DEF Once
      <3>3. QED
        BY <1>1, <3>2
    <2>2. QED
      BY <2>1 DEF Has
  <1>7. Has(s, x) => Has(Tail(s), x) \/ Head(s) = x
    <2>1. ASSUME NEW i \in DOMAIN s, s[i] = x, i # 1 PROVE Has(Tail(s), x)
      <3>1. i - 1 \in DOMAIN Tail(s) /\ Tail(s)[i - 1] = x
        BY <1>1, <2>1
      <3>2. QED
        BY <3>1 DEF Has
    <2>2. QED
      BY <1>1, <2>1 DEF Has
  <1>8. QED
    BY <1>3, <1>4, <1>5, <1>6, <1>7

----------------------------------------------------------------------------
(* What a step does to the parts of the state that the invariant reads *)

Stays == PcmTyped' /\ DataTyped' /\ profile' = profile

\* No PCM gets the state of a thread that starts.
NoneStarted == \A p \in Pcm : State(p)' = "STARTING" => State(p) = "STARTING"
SamePcm == /\ NoneStarted
           /\ \A p \in Pcm : /\ Idle(p)' <=> Idle(p)
                             /\ Ready(p)' <=> Ready(p)
                             /\ pcm'[p].fd_bt = pcm[p].fd_bt
SameFlag == /\ t'.stopping = t.stopping
            /\ Has(t'.pipe, "cancel") <=> Has(t.pipe, "cancel")
            /\ Once(t.pipe, "cancel") => Once(t'.pipe, "cancel")
SameLink == t'.bt_fd = t.bt_fd /\ t'.a2dp = t.a2dp
SameBlueZ == bluez' = bluez /\ ret' = ret
\* No "active" more than before is on the way.
Fewer == /\ Has(bluez'.signals, "active") => Has(bluez.signals, "active")
         /\ Once(bluez.signals, "active") => Once(bluez'.signals, "active")
SameLock == lock' = lock
SamePc == pc' = pc
SameData == SamePcm /\ SameFlag /\ SameLink /\ SameBlueZ

Moves(th, l) == \A o \in Thread : pc'[o] = IF o = th THEN l ELSE pc[o]
Frees(ms) == \A m \in Mutex : lock'[m] = IF m \in ms THEN None ELSE lock[m]
Takes(m, th) == lock[m] = None /\ \A n \in Mutex : lock'[n] = IF n = m THEN th ELSE lock[n]

Quiet == SameData /\ SameLock /\ SamePc

\* IO threads
IoWalks(p) ==
  /\ SameData /\ SameLock
  /\ \/ /\ pc[Io(p)] = "entry" /\ profile = "ag" => lock["codec"] = None
        /\ pc[Io(p)] = "entry" /\ Moves(Io(p), "loop")
     \/ /\ pc[Io(p)] = "entry" /\ profile = "ag" => lock["codec"] = None
        /\ pc[Io(p)] \in {"entry", "loop"} /\ Moves(Io(p), "cleanup")
     \/ pc[Io(p)] = "cleanup" /\ Moves(Io(p), "async")

IoBtReleases(p) ==
  /\ NoneStarted /\ SameFlag /\ SameLink /\ SameBlueZ /\ SameLock
  /\ pc[Io(p)] = "btrelease" /\ Moves(Io(p), IF p = 1 THEN "release" ELSE "end")
  /\ \A q \in Pcm : /\ Idle(q)' <=> Idle(q)
                    /\ Ready(q)' <=> Ready(q)
                    /\ pcm'[q].fd_bt <=> q # p /\ pcm[q].fd_bt

IoReleases(p) ==
  /\ SamePcm /\ SameFlag /\ SameLock /\ ret' = ret /\ t'.a2dp = t.a2dp
  /\ \/ /\ pc[Io(p)] = "release" /\ Moves(Io(p), "end") /\ bluez' = bluez
        /\ t'.bt_fd = "none"
        /\ t.bt_fd = "none" \/ profile = "ag" \/ t.a2dp = "idle" \/ bluez.state = "gone"
     \/ /\ pc[Io(p)] = "release" /\ Moves(Io(p), "end") /\ bluez' = bluez
        /\ t'.bt_fd = t.bt_fd
     \/ /\ pc[Io(p)] = "release" /\ Moves(Io(p), "released") /\ profile = "source"
        /\ bluez.state = "active" /\ t'.bt_fd = t.bt_fd
        /\ bluez'.state = "idle" /\ Fewer
     \/ /\ pc[Io(p)] = "released" /\ Moves(Io(p), "end") /\ bluez' = bluez
        /\ t.a2dp = "idle" /\ t'.bt_fd = "none"

\* ba_transport_stop_async(): the flag is set, or it was set already.
Flags(th) ==
  /\ SamePcm /\ SameLink /\ SameBlueZ /\ SameLock
  /\ pc[th] = "async" /\ ~t.stopping /\ t'.stopping /\ Moves(th, "mark1")
  /\ t'.pipe = t.pipe

IoFlagged(th) ==
  /\ th \in {Io(1), Io(2)} /\ SameData /\ SameLock
  /\ pc[th] = "async" /\ t.stopping /\ Moves(th, "btrelease")

Joins(th) ==
  /\ th \in {Main, Select} /\ SameData /\ SameLock
  /\ pc[th] = "async" /\ t.stopping /\ Moves(th, "stopwait")

Marks(th) == SameData /\ SameLock /\ pc[th] = "mark1" /\ Moves(th, "mark2")

Cancels(th) ==
  /\ SamePcm /\ SameLink /\ SameBlueZ /\ SameLock
  /\ pc[th] = "mark2" /\ Moves(th, AfterAsync(th))
  /\ t'.stopping = t.stopping
  /\ Has(t'.pipe, "cancel") /\ (~Has(t.pipe, "cancel") => Once(t'.pipe, "cancel"))

\* the manager
ManagerWalks ==
  /\ SameData
  /\ \/ pc[Manager] = "poll" /\ Moves(Manager, "client1") /\ SameLock
     \/ pc[Manager] = "client1" /\ Moves(Manager, "client2") /\ Takes("client1", Manager)
     \/ pc[Manager] = "client2" /\ Moves(Manager, "check") /\ Takes("client2", Manager)
     \/ /\ pc[Manager] = "check" /\ Moves(Manager, "poll")
        /\ Frees({"client1", "client2"})
     \/ pc[Manager] = "mark1" /\ Moves(Manager, "mark2") /\ SameLock
     \/ /\ pc[Manager] = "mark2" /\ Moves(Manager, "stop1")
        /\ Frees({"client1", "client2"})
     \/ pc[Manager] \in {"stop1", "stop2"} /\ Moves(Manager, "abort") /\ SameLock

ManagerReads ==
  /\ SamePcm /\ SameLink /\ SameBlueZ /\ SameLock
  /\ pc[Manager] = "poll" /\ Moves(Manager, "stop1")
  /\ t'.stopping = t.stopping
  /\ Has(t.pipe, "cancel")
  /\ Once(t.pipe, "cancel") => Once(t'.pipe, "cancel") /\ ~Has(t'.pipe, "cancel")

ManagerFlags ==
  /\ SamePcm /\ SameLink /\ SameBlueZ /\ SameLock
  /\ pc[Manager] = "check" /\ ~t.stopping /\ t'.stopping /\ Moves(Manager, "mark1")
  /\ t'.pipe = t.pipe

PcmEnds(p) ==
  /\ NoneStarted /\ SameFlag /\ SameLink /\ SameBlueZ /\ SameLock
  /\ pc[Manager] = (IF p = 1 THEN "stop1" ELSE "stop2")
  /\ \A q \in Pcm : /\ Idle(q)' <=> q # p /\ Idle(q)
                    /\ Ready(q)' <=> q = p \/ Ready(q)
                    /\ pcm'[q].fd_bt = pcm[q].fd_bt
  /\ \/ Ready(p) /\ Moves(Manager, AfterStop(p))
     \/ /\ pc[Io(p)] = "end"
        /\ \A o \in Thread : pc'[o] = IF o = Manager THEN AfterStop(p)
                                      ELSE IF o = Io(p) THEN "none" ELSE pc[o]

ManagerEnds ==
  /\ SamePcm /\ SameLink /\ SameBlueZ /\ SameLock
  /\ pc[Manager] = "stopped" /\ Moves(Manager, "poll")
  /\ ~t'.stopping /\ t'.pipe = t.pipe

\* Open()
OpenWalks(p) ==
  /\ SameData
  /\ \/ pc[Open(p)] = "none" /\ Moves(Open(p), "client") /\ SameLock
     \/ pc[Open(p)] = "client" /\ Moves(Open(p), "codec") /\ Takes(Client(p), Open(p))
     \/ pc[Open(p)] = "codec" /\ Moves(Open(p), "acquire") /\ SameLock
     \/ pc[Open(p)] = "acquire" /\ Moves(Open(p), "socket") /\ Takes("acquisition", Open(p))
     \/ pc[Open(p)] = "socket" /\ Moves(Open(p), "wait") /\ Frees({"acquisition"})
     \/ pc[Open(p)] = "socket" /\ Moves(Open(p), "none") /\ Frees({"acquisition", Client(p)})
     \/ pc[Open(p)] = "start" /\ Moves(Open(p), "failed") /\ SameLock
     \/ /\ pc[Open(p)] = "start" /\ Moves(Open(p), "start1") /\ SameLock
        /\ \A q \in Pcm : Ready(q)
     \/ pc[Open(p)] = "wait" /\ Moves(Open(p), "publish") /\ SameLock /\ ~Idle(p)
     \/ /\ (pc[Open(p)] = "wait" /\ ~Idle(p)) \/ pc[Open(p)] \in {"codec", "publish"}
        /\ Moves(Open(p), "none") /\ Frees({Client(p)})

OpenConnects(p) ==
  /\ SamePcm /\ SameFlag /\ SameLock /\ ret' = ret /\ t'.a2dp = t.a2dp
  /\ pc[Open(p)] = "socket" /\ Moves(Open(p), "idle1")
  /\ ~t.stopping /\ t.bt_fd = "none" /\ t'.bt_fd = "good" /\ bluez.state = "idle"
  /\ profile = "ag" => bluez' = bluez
  /\ profile = "source" =>
       /\ bluez'.state = "active"
       /\ ~Has(bluez.signals, "active") => Once(bluez'.signals, "active")

OpenIdles(p, n) ==
  /\ NoneStarted /\ SameFlag /\ SameLink /\ SameBlueZ
  /\ \A q \in Pcm : /\ Idle(q)' <=> Idle(q) \/ (q = n /\ Ready(q))
                    /\ Ready(q)' <=> Ready(q)
                    /\ pcm'[q].fd_bt = pcm[q].fd_bt
  /\ \/ pc[Open(p)] = "idle1" /\ Moves(Open(p), "idle2") /\ SameLock /\ n = 1
     \/ /\ pc[Open(p)] = "idle2" /\ profile = "ag" /\ n = 2
        /\ Moves(Open(p), "start") /\ SameLock
     \/ /\ pc[Open(p)] = "idle2" /\ profile = "source" /\ n = 2
        /\ Moves(Open(p), "wait") /\ Frees({"acquisition"})

\* A thread for PCM n, unless there is no socket.
StartsPcm(th, n, l) ==
  /\ SameFlag /\ SameLink /\ SameBlueZ
  /\ pc[th] = (IF n = 1 THEN "start1" ELSE "start2")
  /\ \A q \in Pcm : State(q)' = "STARTING" => q = n \/ State(q) = "STARTING"
  /\ \/ /\ t.bt_fd = "none" /\ ~pcm[n].fd_bt /\ Moves(th, l)
        /\ \A q \in Pcm : /\ Idle(q)' <=> q # n /\ Idle(q)
                          /\ Ready(q)' <=> q = n \/ Ready(q)
                          /\ pcm'[q].fd_bt = pcm[q].fd_bt
     \/ /\ t.bt_fd # "none" \/ pcm[n].fd_bt
        /\ \A o \in Thread : pc'[o] = IF o = Io(n) THEN "entry"
                                      ELSE IF o = th THEN l ELSE pc[o]
        /\ \A q \in Pcm : /\ Idle(q)' <=> q # n /\ Idle(q)
                          /\ Ready(q)' <=> q # n /\ Ready(q)
                          /\ pcm'[q].fd_bt <=> q = n \/ pcm[q].fd_bt

OpenStarts(p) ==
  \/ StartsPcm(Open(p), 1, "start2") /\ SameLock
  \/ StartsPcm(Open(p), 2, "failed") /\ SameLock
  \/ StartsPcm(Open(p), 2, "wait") /\ Frees({"acquisition"})

OpenFails(p) ==
  /\ SamePcm /\ SameFlag /\ SameBlueZ /\ t'.a2dp = t.a2dp
  /\ pc[Open(p)] = "failed" /\ Moves(Open(p), "none")
  /\ t'.bt_fd = "none" /\ Frees({Client(p)})

\* SelectCodec()
SelectWalks ==
  /\ SameData
  /\ \/ pc[Select] = "none" /\ profile = "ag" /\ Moves(Select, "codec") /\ SameLock
     \/ /\ pc[Select] = "codec" /\ Takes("codec", Select)
        /\ Moves(Select, "client1") \/ Moves(Select, "async")
     \/ pc[Select] = "stopwait" /\ ~t.stopping /\ Moves(Select, "client1") /\ SameLock
     \/ pc[Select] = "client1" /\ Moves(Select, "client2") /\ Takes("client1", Select)
     \/ pc[Select] = "client2" /\ Moves(Select, "release") /\ Takes("client2", Select)
     \/ /\ pc[Select] = "release" /\ Moves(Select, "none")
        /\ Frees({"client1", "client2", "codec"})

\* the main loop
MainWalks ==
  /\ SameData
  /\ \/ pc[Main] = "poll" /\ Moves(Main, "drain") /\ SameLock
     \/ pc[Main] = "drain" /\ Moves(Main, "poll") /\ SameLock
     \/ pc[Main] = "stopwait" /\ ~t.stopping /\ Moves(Main, ret) /\ SameLock
     \/ pc[Main] = "client1" /\ Moves(Main, "client2") /\ Takes("client1", Main)
     \/ pc[Main] = "client2" /\ Moves(Main, "destroy") /\ Takes("client2", Main)
     \/ pc[Main] = "start" /\ Moves(Main, "poll") /\ SameLock
     \/ /\ pc[Main] = "start" /\ Moves(Main, "start1") /\ SameLock
        /\ lock["acquisition"] = None /\ \A q \in Pcm : Idle(q) /\ Ready(q)

MainSignals ==
  /\ SamePcm /\ SameFlag /\ SameLock /\ ret' = "poll"
  /\ pc[Main] = "poll" /\ bluez.signals # << >>
  /\ t'.bt_fd = t.bt_fd /\ bluez'.state = bluez.state /\ Fewer
  /\ t'.a2dp = "active" /\ Once(bluez.signals, "active") =>
       Has(bluez.signals, "active") /\ ~Has(bluez'.signals, "active")
  /\ \/ SamePc /\ t'.a2dp = t.a2dp
     \/ t'.a2dp = "active" /\ Moves(Main, "start")
     \/ t'.a2dp = "idle" /\ (Moves(Main, "poll") \/ Moves(Main, "async"))

MainDestroys ==
  /\ SamePcm /\ SameFlag /\ SameLock
  /\ pc[Main] = "poll" /\ bluez'.state = "gone" /\ bluez'.signals = << >>
  /\ t'.bt_fd # "good" /\ (t.bt_fd = "none" => t'.bt_fd = "none")
  /\ ret' \in {"client1", "again"} /\ (Moves(Main, ret') \/ Moves(Main, "async"))

MainAgain ==
  /\ SamePcm /\ SameFlag /\ SameLink /\ SameLock /\ bluez' = bluez
  /\ pc[Main] = "again" /\ ret' = "client1"
  /\ Moves(Main, "client1") \/ Moves(Main, "async")

MainCloses ==
  /\ SamePcm /\ SameFlag /\ SameBlueZ /\ pc[Main] = "destroy" /\ Moves(Main, "gone")
  /\ t'.bt_fd = "none" /\ Frees({"client1", "client2"})

LinkEnds ==
  /\ SamePcm /\ SameFlag /\ SameLock /\ SamePc /\ ret' = ret
  /\ t.bt_fd = "good" /\ t'.bt_fd = "lost" /\ t'.a2dp = t.a2dp
  /\ profile = "ag" => bluez' = bluez
  /\ profile = "source" => bluez'.state = "idle" /\ Fewer

MainStarts(p) ==
  SameLock /\ StartsPcm(Main, p, IF p = 1 THEN "start2" ELSE "poll")

Stopper == {Main, Select, Io(1), Io(2)}

IoShape(p) == IoWalks(p) \/ IoBtReleases(p) \/ IoReleases(p)
StopShape(th) == Flags(th) \/ IoFlagged(th) \/ Joins(th) \/ Marks(th) \/ Cancels(th)
ManagerShape ==
  \/ ManagerWalks \/ ManagerReads \/ ManagerFlags \/ ManagerEnds
  \/ \E p \in Pcm : PcmEnds(p)
OpenShape(p) ==
  \/ OpenWalks(p) \/ OpenConnects(p) \/ OpenIdles(p, 1) \/ OpenIdles(p, 2)
  \/ OpenStarts(p) \/ OpenFails(p)
MainShape ==
  \/ MainWalks \/ MainSignals \/ MainDestroys \/ MainAgain \/ MainCloses \/ LinkEnds
  \/ \E p \in Pcm : MainStarts(p)

Shape ==
  \/ Quiet \/ SelectWalks \/ ManagerShape \/ MainShape
  \/ \E p \in Pcm : IoShape(p) \/ OpenShape(p)
  \/ \E th \in Stopper : StopShape(th)

----------------------------------------------------------------------------
(* Parts of a step *)

LEMMA MovesTo ==
  ASSUME Types, NEW th, NEW l, Goto(th, l)
  PROVE  Moves(th, l) /\ pc' = [o \in Thread |-> pc'[o]]
  BY DEF Types, DataTyped, Goto, Moves

LEMMA FreesThem ==
  ASSUME Types, NEW ms, Free(ms)
  PROVE  Frees(ms) /\ lock' \in [Mutex -> Thread \cup {None}]
  BY DEF Types, DataTyped, Free, Frees

LEMMA TakesIt ==
  ASSUME Types, NEW m, NEW th \in Thread, Take(m, th)
  PROVE  Takes(m, th) /\ lock' \in [Mutex -> Thread \cup {None}]
  BY DEF Types, DataTyped, Take, Takes

\* One PCM changes.
LEMMA PcmEdit ==
  ASSUME Types, NEW p \in Pcm, NEW q \in PcmType, pcm' = [pcm EXCEPT ![p] = q]
  PROVE  /\ pcm' \in [Pcm -> PcmType]
         /\ \A o \in Pcm : pcm'[o] = IF o = p THEN q ELSE pcm[o]
  BY DEF Types, PcmTyped

\* What goes through a pipe of a PCM, of the manager, and between BlueZ and the
\* main loop.
LEMMA Pipes ==
  /\ << >> \in Signal /\ << >> \in Command /\ << >> \in Change
  /\ \A s \in Signal : /\ \A x \in {"open", "close", "sync"} : Append(s, x) \in Signal
                       /\ s # << >> => Tail(s) \in Signal
  /\ \A s \in Command : /\ \A x \in {"check", "cancel"} : Append(s, x) \in Command
                        /\ s # << >> => Tail(s) \in Command
                        /\ s # << >> => Head(s) \in {"check", "cancel"}
  /\ \A s \in Change : /\ \A x \in {"idle", "active"} : Append(s, x) \in Change
                       /\ s # << >> => Tail(s) \in Change /\ Head(s) \in {"idle", "active"}
  /\ {"TERMINATED", "IDLE", "STARTING", "RUNNING", "STOPPING", "JOINING"} \subseteq PcmState
  BY DEF Signal, Command, Change, PcmState

LEMMA CommandHas ==
  ASSUME NEW s \in Command
  PROVE  /\ Has(Append(s, "check"), "cancel") <=> Has(s, "cancel")
         /\ Once(s, "cancel") => Once(Append(s, "check"), "cancel")
         /\ Has(Append(s, "cancel"), "cancel")
         /\ ~Has(s, "cancel") => Once(Append(s, "cancel"), "cancel")
         /\ s # << >> =>
              /\ Has(Tail(s), "cancel") => Has(s, "cancel")
              /\ Once(s, "cancel") => Once(Tail(s), "cancel")
              /\ Head(s) = "cancel" => Has(s, "cancel")
              /\ Head(s) = "cancel" /\ Once(s, "cancel") => ~Has(Tail(s), "cancel")
              /\ Head(s) = "check" /\ Has(s, "cancel") => Has(Tail(s), "cancel")
  <1>1. s \in Seq({"check", "cancel"}) /\ "check" # "cancel"
    BY DEF Command
  <1>2. "check" \in {"check", "cancel"} /\ "cancel" \in {"check", "cancel"}
    OBVIOUS
  <1> HIDE DEF Has, Once
  <1>3. /\ Has(Append(s, "check"), "cancel") <=> Has(s, "cancel")
        /\ Once(s, "cancel") => Once(Append(s, "check"), "cancel")
        /\ Has(Append(s, "cancel"), "cancel")
        /\ ~Has(s, "cancel") => Once(Append(s, "cancel"), "cancel")
    BY <1>1, <1>2, AppendHas
  <1>4. s # << >> =>
              /\ Has(Tail(s), "cancel") => Has(s, "cancel")
              /\ Once(s, "cancel") => Once(Tail(s), "cancel")
              /\ Head(s) = "cancel" => Has(s, "cancel")
              /\ Head(s) = "cancel" /\ Once(s, "cancel") => ~Has(Tail(s), "cancel")
              /\ Head(s) = "check" /\ Has(s, "cancel") => Has(Tail(s), "cancel")
    BY <1>1, <1>2, TailHas
  <1>5. QED
    BY <1>3, <1>4

LEMMA ChangeHas ==
  ASSUME NEW s \in Change
  PROVE  /\ Has(Append(s, "idle"), "active") <=> Has(s, "active")
         /\ Once(s, "active") => Once(Append(s, "idle"), "active")
         /\ ~Has(s, "active") => Once(Append(s, "active"), "active")
         /\ s # << >> =>
              /\ Has(Tail(s), "active") => Has(s, "active")
              /\ Once(s, "active") => Once(Tail(s), "active")
              /\ Head(s) = "active" => Has(s, "active")
              /\ Head(s) = "active" /\ Once(s, "active") => ~Has(Tail(s), "active")
  <1>1. s \in Seq({"idle", "active"}) /\ "idle" # "active"
    BY DEF Change
  <1>2. "idle" \in {"idle", "active"} /\ "active" \in {"idle", "active"}
    OBVIOUS
  <1> HIDE DEF Has, Once
  <1>3. /\ Has(Append(s, "idle"), "active") <=> Has(s, "active")
        /\ Once(s, "active") => Once(Append(s, "idle"), "active")
        /\ ~Has(s, "active") => Once(Append(s, "active"), "active")
    BY <1>1, <1>2, AppendHas
  <1>4. s # << >> =>
              /\ Has(Tail(s), "active") => Has(s, "active")
              /\ Once(s, "active") => Once(Tail(s), "active")
              /\ Head(s) = "active" => Has(s, "active")
              /\ Head(s) = "active" /\ Once(s, "active") => ~Has(Tail(s), "active")
    BY <1>1, <1>2, TailHas
  <1>5. QED
    BY <1>3, <1>4

\* BlueZ tells of the state "idle".
LEMMA IdleSignal ==
  ASSUME Types
  PROVE  bluez' = [state |-> "idle", signals |-> Append(bluez.signals, "idle")]
         => bluez' \in BlueZType /\ bluez'.state = "idle" /\ Fewer
  <1>1. bluez \in BlueZType /\ bluez.signals \in Change
    BY DEF Types, DataTyped, BlueZType
  <1> DEFINE more == Append(bluez.signals, "idle")
  <1>2. /\ more \in Change
        /\ Has(more, "active") => Has(bluez.signals, "active")
        /\ Once(bluez.signals, "active") => Once(more, "active")
    BY <1>1, Pipes, ChangeHas
  <1> HIDE DEF more
  <1>3. ASSUME bluez' = [state |-> "idle", signals |-> more]
        PROVE  bluez' \in BlueZType /\ bluez'.state = "idle" /\ Fewer
    BY <1>1, <1>2, <1>3 DEF BlueZType, Fewer
  <1>4. QED
    BY <1>3 DEF more

\* BlueZ tells of the state "active".
LEMMA ActiveSignal ==
  ASSUME Types
  PROVE  bluez' = [state |-> "active", signals |-> Append(bluez.signals, "active")]
         => /\ bluez' \in BlueZType /\ bluez'.state = "active"
            /\ ~Has(bluez.signals, "active") => Once(bluez'.signals, "active")
  <1>1. bluez \in BlueZType /\ bluez.signals \in Change
    BY DEF Types, DataTyped, BlueZType
  <1> DEFINE more == Append(bluez.signals, "active")
  <1>2. /\ more \in Change
        /\ ~Has(bluez.signals, "active") => Once(more, "active")
    BY <1>1, Pipes, ChangeHas
  <1> HIDE DEF more
  <1>3. ASSUME bluez' = [state |-> "active", signals |-> more]
        PROVE  /\ bluez' \in BlueZType /\ bluez'.state = "active"
               /\ ~Has(bluez.signals, "active") => Once(bluez'.signals, "active")
    BY <1>1, <1>2, <1>3 DEF BlueZType
  <1>4. QED
    BY <1>3 DEF more

\* A change of a PCM, field by field.
LEMMA PcmFields ==
  ASSUME NEW q \in PcmType
  PROVE  /\ \A b \in BOOLEAN : /\ [q EXCEPT !.fd = b] \in PcmType
                               /\ [q EXCEPT !.timeout = b] \in PcmType
                               /\ [q EXCEPT !.synced = b] \in PcmType
                               /\ [q EXCEPT !.hangup = b] \in PcmType
                               /\ [q EXCEPT !.fd_bt = b] \in PcmType
         /\ \A s \in Signal, b \in BOOLEAN :
              [q EXCEPT !.pipe = s, !.timeout = b] \in PcmType
         /\ [q EXCEPT !.timeout = FALSE, !.synced = TRUE] \in PcmType
         /\ [q EXCEPT !.state = "STARTING", !.fd_bt = TRUE, !.timeout = FALSE,
                      !.cancelled = FALSE] \in PcmType
         /\ [q EXCEPT !.state = "TERMINATED"] \in PcmType
  BY Pipes DEF PcmType

\* A PCM is released, or gets a signal.
LEMMA PcmSignals ==
  ASSUME NEW q \in PcmType
  PROVE  /\ Closed(q) \in PcmType /\ Closed(q).state = q.state /\ Closed(q).fd_bt = q.fd_bt
         /\ \A sig \in {"open", "close", "sync"} :
              /\ Signalled(q, sig) \in PcmType
              /\ Signalled(q, sig).state = q.state /\ Signalled(q, sig).fd_bt = q.fd_bt
  <1>1. Closed(q) \in PcmType /\ Closed(q).state = q.state /\ Closed(q).fd_bt = q.fd_bt
    BY DEF PcmType, Closed
  <1>2. ASSUME NEW sig \in {"open", "close", "sync"}
        PROVE  /\ Signalled(q, sig) \in PcmType
               /\ Signalled(q, sig).state = q.state /\ Signalled(q, sig).fd_bt = q.fd_bt
    BY Pipes DEF PcmType, Signalled
  <1>3. QED
    BY <1>1, <1>2

\* A PCM changes, and its state and its socket do not.
LEMMA PcmKept ==
  ASSUME Types, NEW p \in Pcm, NEW q \in PcmType, pcm' = [pcm EXCEPT ![p] = q],
         q.state = State(p), q.fd_bt = pcm[p].fd_bt
  PROVE  PcmTyped' /\ SamePcm
  BY DEF Types, PcmTyped, SamePcm, NoneStarted, Idle, Ready, State

\* ba_transport_pcm_start()
LEMMA PcmStarted ==
  ASSUME Types, NEW n \in Pcm, NEW th \in Thread, th # Io(n), NEW l, PcmStart(n, th, l)
  PROVE  /\ PcmTyped' /\ pc' = [o \in Thread |-> pc'[o]]
         /\ \A q \in Pcm : State(q)' = "STARTING" => q = n \/ State(q) = "STARTING"
         /\ \/ /\ t.bt_fd = "none" /\ ~pcm[n].fd_bt /\ Moves(th, l)
               /\ \A q \in Pcm : /\ Idle(q)' <=> q # n /\ Idle(q)
                                 /\ Ready(q)' <=> q = n \/ Ready(q)
                                 /\ pcm'[q].fd_bt = pcm[q].fd_bt
            \/ /\ t.bt_fd # "none" \/ pcm[n].fd_bt
               /\ \A o \in Thread : pc'[o] = IF o = Io(n) THEN "entry"
                                             ELSE IF o = th THEN l ELSE pc[o]
               /\ \A q \in Pcm : /\ Idle(q)' <=> q # n /\ Idle(q)
                                 /\ Ready(q)' <=> q # n /\ Ready(q)
                                 /\ pcm'[q].fd_bt <=> q = n \/ pcm[q].fd_bt
  <1>1. Io(n) \in Thread /\ pc = [o \in Thread |-> pc[o]] /\ pcm[n] \in PcmType
    BY Names DEF Types, PcmTyped, DataTyped, Pcm
  <1>2. CASE t.bt_fd = "none" /\ ~pcm[n].fd_bt
    <2>1. Set(n, "TERMINATED") /\ Goto(th, l)
      BY <1>2 DEF PcmStart
    <2> DEFINE q == [pcm[n] EXCEPT !.state = "TERMINATED"]
    <2>2. q \in PcmType /\ q.state = "TERMINATED" /\ q.fd_bt = pcm[n].fd_bt
      <3>1. q \in PcmType
        BY <1>1, PcmFields
      <3>2. q.state = "TERMINATED" /\ q.fd_bt = pcm[n].fd_bt
        BY <1>1 DEF PcmType
      <3>3. QED
        BY <3>1, <3>2
    <2>3. pcm' = [pcm EXCEPT ![n] = q]
      BY <2>1 DEF Set
    <2> HIDE DEF q
    <2>4. pcm' \in [Pcm -> PcmType] /\ \A o \in Pcm : pcm'[o] = IF o = n THEN q ELSE pcm[o]
      BY <2>2, <2>3, PcmEdit
    <2>5. Moves(th, l) /\ pc' = [o \in Thread |-> pc'[o]]
      BY <2>1, <1>1, MovesTo DEF Goto
    <2>6. QED
      BY <1>2, <2>2, <2>4, <2>5 DEF PcmTyped, Idle, Ready, State
  <1>3. CASE ~(t.bt_fd = "none" /\ ~pcm[n].fd_bt)
    <2>1. /\ pcm' = [pcm EXCEPT ![n] = [@ EXCEPT !.state = "STARTING", !.fd_bt = TRUE,
                                                 !.timeout = FALSE, !.cancelled = FALSE]]
          /\ pc' = [pc EXCEPT ![th] = l, ![Io(n)] = "entry"]
      BY <1>3 DEF PcmStart
    <2> DEFINE q == [pcm[n] EXCEPT !.state = "STARTING", !.fd_bt = TRUE,
                                   !.timeout = FALSE, !.cancelled = FALSE]
    <2>2. q \in PcmType /\ q.state = "STARTING" /\ q.fd_bt = TRUE
      <3>1. q \in PcmType
        BY <1>1, PcmFields
      <3>2. q.state = "STARTING" /\ q.fd_bt = TRUE
        BY <1>1 DEF PcmType
      <3>3. QED
        BY <3>1, <3>2
    <2>3. pcm' = [pcm EXCEPT ![n] = q]
      BY <2>1
    <2> HIDE DEF q
    <2>4. pcm' \in [Pcm -> PcmType] /\ \A o \in Pcm : pcm'[o] = IF o = n THEN q ELSE pcm[o]
      BY <2>2, <2>3, PcmEdit
    <2>5. /\ pc' = [o \in Thread |-> pc'[o]]
          /\ \A o \in Thread : pc'[o] = IF o = Io(n) THEN "entry"
                                        ELSE IF o = th THEN l ELSE pc[o]
      BY <2>1, <1>1
    <2>6. QED
      BY <1>3, <2>2, <2>4, <2>5 DEF PcmTyped, Idle, Ready, State
  <1>4. QED
    BY <1>2, <1>3

\* A command that does not stop anything.
LEMMA Sends ==
  ASSUME Types, Send("check")
  PROVE  t' \in TransportType /\ SameFlag /\ SameLink
  <1>1. t.pipe \in Command /\ t \in TransportType
    BY DEF Types, DataTyped, TransportType
  <1>2. Append(t.pipe, "check") \in Command
    BY <1>1, Pipes
  <1>3. t'.pipe = t.pipe \/ t'.pipe = Append(t.pipe, "check")
    BY <1>1 DEF Send, TransportType
  <1>4. /\ t' \in TransportType
        /\ t'.stopping = t.stopping /\ t'.bt_fd = t.bt_fd /\ t'.a2dp = t.a2dp
    BY <1>1, <1>2 DEF Send, TransportType
  <1> DEFINE more == Append(t.pipe, "check")
  <1>m. /\ Has(more, "cancel") <=> Has(t.pipe, "cancel")
        /\ Once(t.pipe, "cancel") => Once(more, "cancel")
    BY <1>1, CommandHas
  <1> HIDE DEF more
  <1>5. /\ Has(t'.pipe, "cancel") <=> Has(t.pipe, "cancel")
        /\ Once(t.pipe, "cancel") => Once(t'.pipe, "cancel")
    BY <1>3, <1>m DEF more
  <1>6. QED
    BY <1>4, <1>5 DEF SameFlag, SameLink

----------------------------------------------------------------------------
(* Every action has a shape *)

\* What an IO thread does, but for the call of ba_transport_stop_async().
LEMMA IoSteps ==
  ASSUME Types, NEW p \in Pcm
  PROVE  \/ IoEnter(p)
         \/ IoInitFails(p)
         \/ IoCancelled(p)
         \/ IoSignal(p)
         \/ IoTimeout(p)
         \/ IoClientGone(p)
         \/ IoLinkLost(p)
         \/ IoSynced(p)
         \/ IoBtRelease(p)
         \/ IoRelease(p)
         \/ IoReleased(p)
         => Stays /\ (IoShape(p) \/ Quiet)
  <1>1. ASSUME IoEnter(p)
        PROVE  Stays /\ (IoShape(p) \/ Quiet)
    <2>1. PcmTyped'
      BY <1>1, Names, Pipes DEF Types, PcmTyped, PcmType, Pcm, IoEnter, Set, State
    <2>2. DataTyped' /\ profile' = profile
      BY <1>1, Names, Pipes, MovesTo DEF Types, DataTyped, TransportType, BlueZType,
         Pcm, IoEnter, Set, State, counts
    <2>3. IoWalks(p)
      BY <1>1, Names, MovesTo DEF Types, PcmTyped, DataTyped, Pcm, PcmType,
         TransportType, BlueZType, IoEnter, Set, State, counts, IoWalks, SameData,
         SameLock, SamePcm, SameFlag, SameLink, SameBlueZ, NoneStarted, Idle, Ready
    <2>4. QED
      BY <2>1, <2>2, <2>3 DEF Stays, IoShape
  <1>2. ASSUME IoInitFails(p)
        PROVE  Stays /\ (IoShape(p) \/ Quiet)
    <2>1. PcmTyped' /\ DataTyped' /\ profile' = profile
      BY <1>2, Names, Pipes, MovesTo DEF Types, PcmTyped, DataTyped, TransportType,
         BlueZType, Pcm, IoInitFails, Fault, Event
    <2>2. IoWalks(p)
      BY <1>2, Names, MovesTo DEF Types, PcmTyped, DataTyped, Pcm, PcmType,
         TransportType, BlueZType, IoInitFails, Fault, Event, IoWalks, SameData,
         SameLock, SamePcm, SameFlag, SameLink, SameBlueZ, NoneStarted, Idle, Ready,
         State
    <2>3. QED
      BY <2>1, <2>2 DEF Stays, IoShape
  <1>3. ASSUME IoCancelled(p)
        PROVE  Stays /\ (IoShape(p) \/ Quiet)
    <2>1. PcmTyped' /\ DataTyped' /\ profile' = profile
      BY <1>3, Names, Pipes, MovesTo DEF Types, PcmTyped, DataTyped, TransportType,
         BlueZType, Pcm, IoCancelled, counts
    <2>2. IoWalks(p)
      BY <1>3, Names, MovesTo DEF Types, PcmTyped, DataTyped, Pcm, PcmType,
         TransportType, BlueZType, IoCancelled, counts, IoWalks, SameData, SameLock,
         SamePcm, SameFlag, SameLink, SameBlueZ, NoneStarted, Idle, Ready, State
    <2>3. QED
      BY <2>1, <2>2 DEF Stays, IoShape
  <1>4. ASSUME IoSignal(p)
        PROVE  Stays /\ (IoShape(p) \/ Quiet)
    <2> DEFINE sig == Head(pcm[p].pipe)
               on == IF p = 1 THEN sig = "sync" \/ (pcm[p].timeout /\ sig = "close")
                              ELSE FALSE
               q == [pcm[p] EXCEPT !.pipe = Tail(pcm[p].pipe), !.timeout = on]
    <2>1. pcm[p] \in PcmType /\ pcm[p].pipe \in Signal /\ pcm[p].pipe # << >>
          /\ on \in BOOLEAN
      BY <1>4 DEF IoSignal, Polls, Types, PcmTyped, PcmType
    <2>2. pcm' = [pcm EXCEPT ![p] = q]
      BY <1>4 DEF IoSignal
    <2>3. (p = 1 /\ sig = "close" /\ Send("check")) \/ t' = t
      BY <1>4 DEF IoSignal
    <2>4. UNCHANGED <<profile, lock, pc, ret, bluez>>
      BY <1>4 DEF IoSignal
    <2> HIDE DEF on, sig
    <2>5. q \in PcmType
      BY <2>1, PcmFields, Pipes
    <2>6. q.state = State(p) /\ q.fd_bt = pcm[p].fd_bt
      BY <2>1 DEF PcmType, State
    <2> HIDE DEF q
    <2>7. PcmTyped' /\ SamePcm
      BY <2>2, <2>5, <2>6, PcmKept
    <2>8. t' \in TransportType /\ SameFlag /\ SameLink
      BY <2>3, Sends DEF SameFlag, SameLink, Types, DataTyped
    <2>9. QED
      BY <2>4, <2>7, <2>8
         DEF Stays, Types, DataTyped, Quiet, SameData, SameBlueZ, SameLock, SamePc
  <1>5. ASSUME IoTimeout(p)
        PROVE  Stays /\ (IoShape(p) \/ Quiet)
    <2> DEFINE q == [pcm[p] EXCEPT !.timeout = FALSE, !.synced = TRUE]
    <2>1. pcm[p] \in PcmType
      BY DEF Types, PcmTyped
    <2>2. pcm' = [pcm EXCEPT ![p] = q] /\ Send("check")
      BY <1>5 DEF IoTimeout
    <2>3. UNCHANGED <<profile, lock, pc, ret, bluez>>
      BY <1>5 DEF IoTimeout
    <2>4. q \in PcmType
      BY <2>1, PcmFields
    <2>5. q.state = State(p) /\ q.fd_bt = pcm[p].fd_bt
      BY <2>1 DEF PcmType, State
    <2> HIDE DEF q
    <2>6. PcmTyped' /\ SamePcm
      BY <2>2, <2>4, <2>5, PcmKept
    <2>7. QED
      BY <2>2, <2>3, <2>6, Sends
         DEF Stays, Types, DataTyped, Quiet, SameData, SameBlueZ, SameLock, SamePc
  <1>6. ASSUME IoClientGone(p)
        PROVE  Stays /\ (IoShape(p) \/ Quiet)
    <2>1. pcm[p] \in PcmType
      BY DEF Types, PcmTyped
    <2>2. pcm' = [pcm EXCEPT ![p] = Closed(pcm[p])]
      BY <1>6 DEF IoClientGone
    <2>3. Send("check") \/ t' = t
      BY <1>6 DEF IoClientGone
    <2>4. UNCHANGED <<profile, lock, pc, ret, bluez>>
      BY <1>6 DEF IoClientGone
    <2>5. PcmTyped' /\ SamePcm
      BY <2>1, <2>2, PcmSignals, PcmKept DEF State
    <2>6. t' \in TransportType /\ SameFlag /\ SameLink
      BY <2>3, Sends DEF SameFlag, SameLink, Types, DataTyped
    <2>7. QED
      BY <2>4, <2>5, <2>6
         DEF Stays, Types, DataTyped, Quiet, SameData, SameBlueZ, SameLock, SamePc
  <1>7. ASSUME IoLinkLost(p)
        PROVE  Stays /\ (IoShape(p) \/ Quiet)
    <2>1. PcmTyped' /\ DataTyped' /\ profile' = profile
      BY <1>7, Names, Pipes, MovesTo DEF Types, PcmTyped, DataTyped, TransportType,
         BlueZType, Pcm, IoLinkLost, Polls, counts
    <2>2. IoWalks(p)
      BY <1>7, Names, MovesTo DEF Types, PcmTyped, DataTyped, Pcm, PcmType,
         TransportType, BlueZType, IoLinkLost, Polls, counts, IoWalks, SameData,
         SameLock, SamePcm, SameFlag, SameLink, SameBlueZ, NoneStarted, Idle, Ready,
         State
    <2>3. QED
      BY <2>1, <2>2 DEF Stays, IoShape
  <1>8. ASSUME IoSynced(p)
        PROVE  Stays /\ (IoShape(p) \/ Quiet)
    <2>1. PcmTyped'
      BY <1>8, PcmFields DEF Types, PcmTyped, IoSynced
    <2>2. DataTyped' /\ profile' = profile
      BY <1>8, Names, Pipes, MovesTo DEF Types, DataTyped, TransportType, BlueZType,
         Pcm, IoSynced, counts
    <2>3. IoWalks(p)
      BY <1>8, Names, MovesTo DEF Types, PcmTyped, DataTyped, Pcm, PcmType,
         TransportType, BlueZType, IoSynced, counts, IoWalks, SameData, SameLock,
         SamePcm, SameFlag, SameLink, SameBlueZ, NoneStarted, Idle, Ready, State
    <2>4. QED
      BY <2>1, <2>2, <2>3 DEF Stays, IoShape
  <1>9. ASSUME IoBtRelease(p)
        PROVE  Stays /\ (IoShape(p) \/ Quiet)
    <2>1. PcmTyped'
      BY <1>9, PcmFields DEF Types, PcmTyped, IoBtRelease
    <2>2. DataTyped' /\ profile' = profile
      BY <1>9, Names, Pipes, MovesTo DEF Types, DataTyped, TransportType, BlueZType,
         Pcm, IoBtRelease, counts
    <2>3. IoBtReleases(p)
      BY <1>9, Names, MovesTo DEF Types, PcmTyped, DataTyped, Pcm, PcmType,
         TransportType, BlueZType, IoBtRelease, counts, IoBtReleases, NoneStarted,
         SameFlag, SameLink, SameBlueZ, SameLock, Idle, Ready, State
    <2>4. QED
      BY <2>1, <2>2, <2>3 DEF Stays, IoShape
  <1>10. ASSUME IoRelease(p)
         PROVE  Stays /\ (IoShape(p) \/ Quiet)
    <2>1. pc[Io(p)] = "release" /\ UNCHANGED <<profile, pcm, lock, ret>>
      BY <1>10 DEF IoRelease
    <2>2. t \in TransportType /\ bluez \in BlueZType
      BY DEF Types, DataTyped
    <2>3. PcmTyped' /\ SamePcm /\ SameLock
      BY <2>1 DEF Types, PcmTyped, SamePcm, NoneStarted, Idle, Ready, State, SameLock
    <2>4. CASE /\ t.bt_fd = "none" \/ profile = "ag" \/ t.a2dp = "idle" \/ bluez.state = "gone"
               /\ t' = [t EXCEPT !.bt_fd = "none"] /\ bluez' = bluez /\ Goto(Io(p), "end")
      <3>1. /\ t' \in TransportType /\ t'.bt_fd = "none" /\ t'.a2dp = t.a2dp
            /\ t'.stopping = t.stopping /\ t'.pipe = t.pipe
        BY <2>2, <2>4 DEF TransportType
      <3>2. QED
        BY <2>1, <2>2, <2>3, <2>4, <3>1, MovesTo
           DEF Stays, Types, DataTyped, IoShape, IoReleases, SameFlag
    <2>5. CASE /\ profile # "ag" /\ bluez.state = "active" /\ t' = t
               /\ bluez' = [state |-> "idle", signals |-> Append(bluez.signals, "idle")]
               /\ Goto(Io(p), "released")
      <3>1. bluez' \in BlueZType /\ bluez'.state = "idle" /\ Fewer
        BY <2>5, IdleSignal
      <3>2. profile = "source"
        BY <2>5 DEF Types, DataTyped
      <3>3. QED
        BY <2>1, <2>2, <2>3, <2>5, <3>1, <3>2, MovesTo
           DEF Stays, Types, DataTyped, IoShape, IoReleases, SameFlag
    <2>6. CASE t' = t /\ bluez' = bluez /\ Goto(Io(p), "end")
      BY <2>1, <2>2, <2>3, <2>6, MovesTo
         DEF Stays, Types, DataTyped, IoShape, IoReleases, SameFlag
    <2>7. QED
      BY <1>10, <2>4, <2>5, <2>6 DEF IoRelease
  <1>11. ASSUME IoReleased(p)
         PROVE  Stays /\ (IoShape(p) \/ Quiet)
    <2>1. PcmTyped' /\ DataTyped' /\ profile' = profile
      BY <1>11, Names, Pipes, MovesTo DEF Types, PcmTyped, DataTyped, TransportType,
         BlueZType, Pcm, IoReleased, counts
    <2>2. IoReleases(p)
      BY <1>11, Names, MovesTo DEF Types, PcmTyped, DataTyped, Pcm, PcmType,
         TransportType, BlueZType, IoReleased, counts, IoReleases, SamePcm, SameFlag,
         SameLock, Fewer, NoneStarted, Idle, Ready, State
    <2>3. QED
      BY <2>1, <2>2 DEF Stays, IoShape
  <1>12. QED
    BY <1>1, <1>2, <1>3, <1>4, <1>5, <1>6, <1>7, <1>8, <1>9, <1>10, <1>11

\* ba_transport_stop_async()
LEMMA StopSteps ==
  ASSUME Types, NEW th \in Stopper
  PROVE  \/ StopFlag(th)
         \/ StopMark1(th)
         \/ StopMark2(th)
         => Stays /\ StopShape(th)
  <1>1. ASSUME StopFlag(th)
        PROVE  Stays /\ StopShape(th)
    <2>1. pc[th] = "async" /\ UNCHANGED <<profile, pcm, lock, ret, bluez>>
      BY <1>1 DEF StopFlag
    <2>2. PcmTyped' /\ SamePcm /\ SameLock /\ SameBlueZ
      BY <2>1 DEF Types, PcmTyped, SamePcm, NoneStarted, Idle, Ready, State, SameLock,
               SameBlueZ
    <2>3. t \in TransportType
      BY DEF Types, DataTyped
    <2>4. CASE ~t.stopping
      <3>1. t' = [t EXCEPT !.stopping = TRUE] /\ Goto(th, "mark1")
        BY <1>1, <2>4 DEF StopFlag
      <3>2. t' \in TransportType /\ t'.stopping /\ t'.pipe = t.pipe /\ SameLink
        BY <2>3, <3>1 DEF TransportType, SameLink
      <3>3. QED
        BY <2>1, <2>2, <2>4, <3>1, <3>2, MovesTo
           DEF Stays, Types, DataTyped, StopShape, Flags
    <2>5. CASE t.stopping
      <3>1. t' = t /\ Goto(th, AfterAsync(th))
        BY <1>1, <2>5 DEF StopFlag
      <3>2. SameData
        BY <2>2, <3>1 DEF SameData, SameFlag, SameLink
      <3>3. \/ th \in {Main, Select} /\ AfterAsync(th) = "stopwait"
            \/ th \in {Io(1), Io(2)} /\ AfterAsync(th) = "btrelease"
        BY Names DEF Stopper, AfterAsync, Pcm
      <3>4. IoFlagged(th) \/ Joins(th)
        BY <2>1, <2>2, <2>5, <3>1, <3>2, <3>3, MovesTo DEF IoFlagged, Joins
      <3>5. QED
        BY <2>1, <2>2, <3>1, <3>4, MovesTo DEF Stays, Types, DataTyped, StopShape
    <2>6. QED
      BY <2>3, <2>4, <2>5 DEF TransportType
  <1>2. ASSUME StopMark1(th)
        PROVE  Stays /\ StopShape(th)
    <2>1. PcmTyped'
      BY <1>2, Names, Pipes DEF Types, PcmTyped, PcmType, Pcm, StopMark1, SetStopping,
         Stopper
    <2>2. DataTyped' /\ profile' = profile
      BY <1>2, Names, Pipes, MovesTo DEF Types, DataTyped, TransportType, BlueZType,
         Pcm, StopMark1, SetStopping, counts, Stopper
    <2>3. Marks(th)
      BY <1>2, Names, MovesTo DEF Types, PcmTyped, DataTyped, Pcm, PcmType,
         TransportType, BlueZType, StopMark1, SetStopping, counts, Marks, SameData,
         SameLock, SamePcm, SameFlag, SameLink, SameBlueZ, NoneStarted, Idle, Ready,
         State, Stopper, AfterAsync
    <2>4. QED
      BY <2>1, <2>2, <2>3 DEF Stays, StopShape
  <1>3. ASSUME StopMark2(th)
        PROVE  Stays /\ StopShape(th)
    <2>1. /\ pc[th] = "mark2" /\ Goto(th, AfterAsync(th)) /\ SetStopping(2)
          /\ Send("cancel") /\ UNCHANGED <<profile, lock, ret, bluez>>
      BY <1>3 DEF StopMark2
    <2>2. t.pipe \in Command /\ t \in TransportType /\ Append(t.pipe, "cancel") \in Command
      BY Pipes DEF Types, DataTyped, TransportType
    <2>3. t' = [t EXCEPT !.pipe = Append(t.pipe, "cancel")]
      BY <2>1 DEF Send
    <2>4. /\ t' \in TransportType /\ t'.pipe = Append(t.pipe, "cancel")
          /\ t'.stopping = t.stopping /\ SameLink
      BY <2>2, <2>3 DEF TransportType, SameLink
    <2>5. Has(t'.pipe, "cancel") /\ (~Has(t.pipe, "cancel") => Once(t'.pipe, "cancel"))
      BY <2>2, <2>4, CommandHas
    <2>6. PcmTyped'
      BY <2>1, Pipes DEF SetStopping, Types, PcmTyped, PcmType, Pcm
    <2>7. SamePcm
      BY <2>1 DEF SetStopping, Types, PcmTyped, PcmType, Pcm, SamePcm, NoneStarted, Idle,
               Ready, State
    <2>8. pc' = [o \in Thread |-> pc'[o]] /\ Moves(th, AfterAsync(th))
      BY <2>1, MovesTo 
    <2>9. Cancels(th)
      BY <2>1, <2>4, <2>5, <2>7, <2>8 DEF Cancels, SameBlueZ, SameLock
    <2>10. QED
      BY <2>1, <2>4, <2>6, <2>8, <2>9 DEF Stays, Types, DataTyped, StopShape
  <1>4. QED
    BY <1>1, <1>2, <1>3

\* transport_thread_manager()
LEMMA ManagerSteps ==
  ASSUME Types
  PROVE  \/ ManagerRead
         \/ ManagerTimeout
         \/ FullLock(Manager, "check")
         \/ ManagerCheck
         \/ ManagerMark1
         \/ ManagerMark2
         \/ (\E p \in Pcm : PcmStop(p))
         \/ (\E p \in Pcm : PcmJoin(p))
         \/ ManagerStopped
         => Stays /\ (ManagerShape \/ Quiet)
  <1>1. ASSUME ManagerRead
        PROVE  Stays /\ (ManagerShape \/ Quiet)
    <2>1. /\ t.pipe \in Command /\ t \in TransportType
          /\ t.pipe # << >> /\ pc[Manager] = "poll" /\ Head(t.pipe) \in {"check", "cancel"}
          /\ Tail(t.pipe) \in Command
      BY <1>1, Pipes DEF ManagerRead, Types, DataTyped, TransportType
    <2>2. /\ t' = [t EXCEPT !.pipe = Tail(t.pipe), !.keepalive = Head(t.pipe) = "check"]
          /\ UNCHANGED <<profile, pcm, lock, ret, bluez>>
      BY <1>1 DEF ManagerRead
    <2>3. PcmTyped' /\ SamePcm /\ SameBlueZ /\ SameLock
      BY <2>2 DEF Types, PcmTyped, SamePcm, NoneStarted, Idle, Ready, State, SameBlueZ,
               SameLock
    <2>4. /\ t' \in TransportType /\ t'.pipe = Tail(t.pipe)
          /\ t'.stopping = t.stopping /\ SameLink
      BY <2>1, <2>2 DEF TransportType, SameLink
    <2>5. /\ Has(t'.pipe, "cancel") => Has(t.pipe, "cancel")
          /\ Once(t.pipe, "cancel") => Once(t'.pipe, "cancel")
          /\ Head(t.pipe) = "cancel" => Has(t.pipe, "cancel")
          /\ Head(t.pipe) = "cancel" /\ Once(t.pipe, "cancel") => ~Has(t'.pipe, "cancel")
          /\ Head(t.pipe) = "check" /\ Has(t.pipe, "cancel") => Has(t'.pipe, "cancel")
      BY <2>1, <2>4, CommandHas
    <2>6. pc' = [o \in Thread |-> pc'[o]]
      BY <1>1 DEF ManagerRead, Goto, Types, DataTyped
    <2>7. CASE Head(t.pipe) = "check"
      <3>1. pc' = pc
        BY <1>1, <2>1, <2>7, Names DEF ManagerRead, Goto, Types, DataTyped
      <3>2. SameFlag
        BY <2>4, <2>5, <2>7 DEF SameFlag
      <3>3. QED
        BY <2>2, <2>3, <2>4, <2>6, <3>1, <3>2
           DEF Stays, Types, DataTyped, Quiet, SameData, SamePc
    <2>8. CASE Head(t.pipe) = "cancel"
      <3>1. Moves(Manager, "stop1")
        BY <1>1, <2>8, MovesTo DEF ManagerRead
      <3>2. ManagerReads
        BY <2>1, <2>3, <2>4, <2>5, <2>8, <3>1 DEF ManagerReads
      <3>3. QED
        BY <2>2, <2>3, <2>4, <2>6, <3>2 DEF Stays, Types, DataTyped, ManagerShape
    <2>9. QED
      BY <2>1, <2>7, <2>8
  <1>2. ASSUME ManagerTimeout
        PROVE  Stays /\ (ManagerShape \/ Quiet)
    <2>1. PcmTyped' /\ DataTyped' /\ profile' = profile
      BY <1>2, Names, Pipes, MovesTo DEF Types, PcmTyped, DataTyped, TransportType,
         BlueZType, Pcm, ManagerTimeout, counts
    <2>2. ManagerWalks
      BY <1>2, Names, MovesTo DEF Types, PcmTyped, DataTyped, Pcm, PcmType,
         TransportType, BlueZType, ManagerTimeout, counts, ManagerWalks, SameData,
         SameLock, SamePcm, SameFlag, SameLink, SameBlueZ, NoneStarted, Idle, Ready,
         State
    <2>3. QED
      BY <2>1, <2>2 DEF Stays, ManagerShape
  <1>3. ASSUME FullLock(Manager, "check")
        PROVE  Stays /\ (ManagerShape \/ Quiet)
    <2>1. PICK m \in {"client1", "client2"} :
            /\ pc[Manager] = m /\ Take(m, Manager)
            /\ Goto(Manager, IF m = "client1" THEN "client2" ELSE "check")
      BY <1>3 DEF FullLock
    <2>2. UNCHANGED <<profile, pcm, t, ret, bluez>>
      BY <1>3 DEF FullLock
    <2>3. Stays
      BY <2>1, <2>2, Names, MovesTo, TakesIt DEF Stays, Types, PcmTyped, DataTyped
    <2>4. ManagerWalks
      BY <2>1, <2>2, Names, MovesTo, TakesIt DEF ManagerWalks, SameData, SamePcm, SameFlag,
         SameLink, SameBlueZ, NoneStarted, Idle, Ready, State
    <2>5. QED
      BY <2>3, <2>4 DEF Stays, ManagerShape
  <1>4. ASSUME ManagerCheck
        PROVE  Stays /\ (ManagerShape \/ Quiet)
    <2>1. UNCHANGED <<profile, pcm, ret, bluez>> /\ pc[Manager] = "check"
      BY <1>4 DEF ManagerCheck
    <2>2. PcmTyped' /\ SamePcm /\ SameBlueZ
      BY <2>1 DEF Types, PcmTyped, SamePcm, NoneStarted, Idle, Ready, State, SameBlueZ
    <2>3. CASE ~t.stopping /\ \A p \in Pcm : ~pcm[p].fd
      <3>1. t' = [t EXCEPT !.stopping = TRUE] /\ Goto(Manager, "mark1") /\ lock' = lock
        BY <1>4, <2>3 DEF ManagerCheck
      <3>2. DataTyped'
        BY <2>1, <3>1 DEF Types, DataTyped, TransportType, Goto
      <3>3. ManagerFlags
        BY <2>1, <2>2, <2>3, <3>1, MovesTo
           DEF Types, DataTyped, TransportType, ManagerFlags, SameLink, SameLock
      <3>4. QED
        BY <2>1, <2>2, <3>2, <3>3 DEF Stays, ManagerShape
    <2>4. CASE ~(~t.stopping /\ \A p \in Pcm : ~pcm[p].fd)
      <3>1. t' = t /\ Goto(Manager, "poll") /\ Free({"client1", "client2"})
        BY <1>4, <2>4 DEF ManagerCheck
      <3>2. DataTyped'
        BY <2>1, <3>1 DEF Types, DataTyped, Goto, Free, Mutex
      <3>3. ManagerWalks
        BY <2>1, <2>2, <3>1, MovesTo, FreesThem
           DEF ManagerWalks, SameData, SameFlag, SameLink
      <3>4. QED
        BY <2>1, <2>2, <3>2, <3>3 DEF Stays, ManagerShape
    <2>5. QED
      BY <2>3, <2>4
  <1>5. ASSUME ManagerMark1
        PROVE  Stays /\ (ManagerShape \/ Quiet)
    <2>1. PcmTyped'
      BY <1>5, Names, Pipes DEF Types, PcmTyped, PcmType, Pcm, ManagerMark1,
         SetStopping
    <2>2. DataTyped' /\ profile' = profile
      BY <1>5, Names, Pipes, MovesTo DEF Types, DataTyped, TransportType, BlueZType,
         Pcm, ManagerMark1, SetStopping, counts
    <2>3. ManagerWalks
      BY <1>5, Names, MovesTo DEF Types, PcmTyped, DataTyped, Pcm, PcmType,
         TransportType, BlueZType, ManagerMark1, SetStopping, counts, ManagerWalks,
         SameData, SameLock, SamePcm, SameFlag, SameLink, SameBlueZ, NoneStarted,
         Idle, Ready, State
    <2>4. QED
      BY <2>1, <2>2, <2>3 DEF Stays, ManagerShape
  <1>6. ASSUME ManagerMark2
        PROVE  Stays /\ (ManagerShape \/ Quiet)
    <2>1. PcmTyped'
      BY <1>6, Names, Pipes DEF Types, PcmTyped, PcmType, Pcm, ManagerMark2,
         SetStopping
    <2>2. DataTyped' /\ profile' = profile
      BY <1>6, Names, Pipes, MovesTo, FreesThem DEF Types, DataTyped, TransportType,
         BlueZType, Pcm, ManagerMark2, SetStopping, counts
    <2>3. ManagerWalks
      BY <1>6, Names, MovesTo, FreesThem DEF Types, PcmTyped, DataTyped, Pcm, PcmType,
         TransportType, BlueZType, ManagerMark2, SetStopping, counts, ManagerWalks,
         SameData, SameLock, SamePcm, SameFlag, SameLink, SameBlueZ, NoneStarted,
         Idle, Ready, State
    <2>4. QED
      BY <2>1, <2>2, <2>3 DEF Stays, ManagerShape
  <1>7. ASSUME NEW p \in Pcm, PcmStop(p)
        PROVE  Stays /\ (ManagerShape \/ Quiet)
    <2>1. PcmTyped'
      BY <1>7, Names, Pipes DEF Types, PcmTyped, PcmType, Pcm, PcmStop, State, Set,
         AfterStop
    <2>2. DataTyped' /\ profile' = profile
      BY <1>7, Names, Pipes, MovesTo DEF Types, DataTyped, TransportType, BlueZType,
         Pcm, PcmStop, State, Set, AfterStop, counts
    <2>3. Quiet \/ ManagerWalks \/ PcmEnds(p)
      BY <1>7, Names, MovesTo DEF Types, PcmTyped, DataTyped, Pcm, PcmType,
         TransportType, BlueZType, PcmStop, State, Set, AfterStop, counts, Quiet,
         ManagerWalks, PcmEnds, SameData, SameLock, SamePc, NoneStarted, SameFlag,
         SameLink, SameBlueZ, SamePcm, Idle, Ready
    <2>4. QED
      BY <2>1, <2>2, <2>3 DEF Stays, ManagerShape
  <1>8. ASSUME NEW p \in Pcm, PcmJoin(p)
        PROVE  Stays /\ (ManagerShape \/ Quiet)
    <2>1. PcmTyped'
      BY <1>8, Names, Pipes DEF Types, PcmTyped, PcmType, Pcm, PcmJoin, State, Set,
         AfterStop
    <2>2. DataTyped' /\ profile' = profile
      BY <1>8, Names, Pipes DEF Types, DataTyped, TransportType, BlueZType, Pcm,
         PcmJoin, State, Set, AfterStop, counts
    <2>3. PcmEnds(p)
      BY <1>8, Names DEF Types, PcmTyped, DataTyped, Pcm, PcmType, TransportType,
         BlueZType, PcmJoin, State, Set, AfterStop, counts, PcmEnds, NoneStarted,
         SameFlag, SameLink, SameBlueZ, SameLock, Idle, Ready
    <2>4. QED
      BY <2>1, <2>2, <2>3 DEF Stays, ManagerShape
  <1>9. ASSUME ManagerStopped
        PROVE  Stays /\ (ManagerShape \/ Quiet)
    <2>1. PcmTyped' /\ DataTyped' /\ profile' = profile
      BY <1>9, Names, Pipes, MovesTo DEF Types, PcmTyped, DataTyped, TransportType,
         BlueZType, Pcm, ManagerStopped, counts
    <2>2. ManagerEnds
      BY <1>9, Names, MovesTo DEF Types, PcmTyped, DataTyped, Pcm, PcmType,
         TransportType, BlueZType, ManagerStopped, counts, ManagerEnds, SamePcm,
         SameLink, SameBlueZ, SameLock, NoneStarted, Idle, Ready, State
    <2>3. QED
      BY <2>1, <2>2 DEF Stays, ManagerShape
  <1>10. QED
    BY <1>1, <1>2, <1>3, <1>4, <1>5, <1>6, <1>7, <1>8, <1>9

\* bluealsa_pcm_open() and its client
LEMMA OpenSteps ==
  ASSUME Types, NEW p \in Pcm
  PROVE  \/ OpenCall(p)
         \/ OpenClient(p)
         \/ OpenCheck(p)
         \/ OpenAcquire(p)
         \/ OpenSocket(p)
         \/ OpenIdle1(p)
         \/ OpenIdle2(p)
         \/ OpenStart(p)
         \/ OpenStart1(p)
         \/ OpenStart2(p)
         \/ OpenFailed(p)
         \/ OpenWait(p)
         \/ OpenPublish(p)
         \/ ClientCloses(p)
         => Stays /\ (OpenShape(p) \/ Quiet)
  <1>1. ASSUME OpenCall(p)
        PROVE  Stays /\ (OpenShape(p) \/ Quiet)
    <2>1. PcmTyped' /\ DataTyped' /\ profile' = profile
      BY <1>1, Names, Pipes, MovesTo DEF Types, PcmTyped, DataTyped, TransportType,
         BlueZType, Pcm, OpenCall
    <2>2. OpenWalks(p)
      BY <1>1, Names, MovesTo DEF Types, PcmTyped, DataTyped, Pcm, PcmType,
         TransportType, BlueZType, OpenCall, OpenWalks, SameData, SameLock, SamePcm,
         SameFlag, SameLink, SameBlueZ, NoneStarted, Idle, Ready, State
    <2>3. QED
      BY <2>1, <2>2 DEF Stays, OpenShape
  <1>2. ASSUME OpenClient(p)
        PROVE  Stays /\ (OpenShape(p) \/ Quiet)
    <2>1. PcmTyped' /\ DataTyped' /\ profile' = profile
      BY <1>2, Names, Pipes, MovesTo, TakesIt DEF Types, PcmTyped, DataTyped,
         TransportType, BlueZType, Pcm, OpenClient, Client, counts
    <2>2. OpenWalks(p)
      BY <1>2, Names, MovesTo, TakesIt DEF Types, PcmTyped, DataTyped, Pcm, PcmType,
         TransportType, BlueZType, OpenClient, Client, counts, OpenWalks, SameData,
         SameLock, SamePcm, SameFlag, SameLink, SameBlueZ, NoneStarted, Idle, Ready,
         State
    <2>3. QED
      BY <2>1, <2>2 DEF Stays, OpenShape
  <1>3. ASSUME OpenCheck(p)
        PROVE  Stays /\ (OpenShape(p) \/ Quiet)
    <2>1. PcmTyped' /\ DataTyped' /\ profile' = profile
      BY <1>3, Names, Pipes, MovesTo, FreesThem DEF Types, PcmTyped, DataTyped,
         TransportType, BlueZType, Pcm, OpenCheck, Client, counts
    <2>2. OpenWalks(p)
      BY <1>3, Names, MovesTo, FreesThem DEF Types, PcmTyped, DataTyped, Pcm, PcmType,
         TransportType, BlueZType, OpenCheck, Client, counts, OpenWalks, SameData,
         SameLock, SamePcm, SameFlag, SameLink, SameBlueZ, NoneStarted, Idle, Ready,
         State
    <2>3. QED
      BY <2>1, <2>2 DEF Stays, OpenShape
  <1>4. ASSUME OpenAcquire(p)
        PROVE  Stays /\ (OpenShape(p) \/ Quiet)
    <2>1. PcmTyped' /\ DataTyped' /\ profile' = profile
      BY <1>4, Names, Pipes, MovesTo, TakesIt DEF Types, PcmTyped, DataTyped,
         TransportType, BlueZType, Pcm, OpenAcquire, counts
    <2>2. OpenWalks(p)
      BY <1>4, Names, MovesTo, TakesIt DEF Types, PcmTyped, DataTyped, Pcm, PcmType,
         TransportType, BlueZType, OpenAcquire, counts, OpenWalks, SameData, SameLock,
         SamePcm, SameFlag, SameLink, SameBlueZ, NoneStarted, Idle, Ready, State
    <2>3. QED
      BY <2>1, <2>2 DEF Stays, OpenShape
  <1>5. ASSUME OpenSocket(p)
        PROVE  Stays /\ (OpenShape(p) \/ Quiet)
    <2>1. /\ pc[Open(p)] = "socket" /\ ~t.stopping /\ UNCHANGED <<profile, pcm, ret>>
      BY <1>5 DEF OpenSocket
    <2>2. PcmTyped' /\ SamePcm
      BY <2>1 DEF Types, PcmTyped, SamePcm, NoneStarted, Idle, Ready, State
    <2>3. CASE \/ /\ Goto(Open(p), "wait") /\ Free({"acquisition"})
                  /\ UNCHANGED <<t, bluez>>
               \/ /\ Goto(Open(p), "none") /\ Free({"acquisition", Client(p)})
                  /\ UNCHANGED <<t, bluez>>
      <3>1. SameData
        BY <2>1, <2>2, <2>3 DEF SameData, SameFlag, SameLink, SameBlueZ
      <3>2. OpenWalks(p)
        BY <2>1, <2>3, <3>1, MovesTo, FreesThem DEF OpenWalks
      <3>3. QED
        BY <2>1, <2>2, <2>3, <3>2, MovesTo, FreesThem
           DEF Stays, Types, DataTyped, OpenShape
    <2>4. CASE /\ t.bt_fd = "none" /\ bluez.state = "idle"
               /\ t' = [t EXCEPT !.bt_fd = "good"]
               /\ bluez' = IF profile = "ag" THEN bluez
                           ELSE [state |-> "active", signals |-> Append(bluez.signals, "active")]
               /\ Goto(Open(p), "idle1") /\ UNCHANGED lock
      <3>1. t \in TransportType /\ bluez \in BlueZType /\ profile \in {"source", "ag"}
        BY DEF Types, DataTyped
      <3>2. /\ t' \in TransportType /\ t'.bt_fd = "good" /\ t'.a2dp = t.a2dp
            /\ t'.stopping = t.stopping /\ t'.pipe = t.pipe
        BY <2>4, <3>1 DEF TransportType
      <3>3. /\ bluez' \in BlueZType
            /\ profile = "ag" => bluez' = bluez
            /\ profile = "source" =>
                 /\ bluez'.state = "active"
                 /\ ~Has(bluez.signals, "active") => Once(bluez'.signals, "active")
        BY <2>4, <3>1, ActiveSignal
      <3>4. OpenConnects(p)
        BY <2>1, <2>2, <2>4, <3>2, <3>3, MovesTo DEF OpenConnects, SameFlag, SameLock
      <3>5. QED
        BY <2>1, <2>2, <2>4, <3>2, <3>3, <3>4, MovesTo
           DEF Stays, Types, DataTyped, OpenShape
    <2>5. QED
      BY <1>5, <2>3, <2>4 DEF OpenSocket
  <1>6. ASSUME OpenIdle1(p)
        PROVE  Stays /\ (OpenShape(p) \/ Quiet)
    <2>1. PcmTyped'
      BY <1>6, Names, Pipes DEF Types, PcmTyped, PcmType, Pcm, OpenIdle1, SetIdle
    <2>2. DataTyped' /\ profile' = profile
      BY <1>6, Names, Pipes, MovesTo DEF Types, DataTyped, TransportType, BlueZType,
         Pcm, OpenIdle1, SetIdle, counts
    <2>3. OpenIdles(p, 1)
      BY <1>6, Names, MovesTo DEF Types, PcmTyped, DataTyped, Pcm, PcmType,
         TransportType, BlueZType, OpenIdle1, SetIdle, counts, OpenIdles, NoneStarted,
         SameFlag, SameLink, SameBlueZ, SameLock, Idle, Ready, State
    <2>4. QED
      BY <2>1, <2>2, <2>3 DEF Stays, OpenShape
  <1>7. ASSUME OpenIdle2(p)
        PROVE  Stays /\ (OpenShape(p) \/ Quiet)
    <2>1. PcmTyped'
      BY <1>7, Names, Pipes DEF Types, PcmTyped, PcmType, Pcm, OpenIdle2, SetIdle
    <2>2. DataTyped' /\ profile' = profile
      BY <1>7, Names, Pipes, MovesTo, FreesThem DEF Types, DataTyped, TransportType,
         BlueZType, Pcm, OpenIdle2, SetIdle, counts
    <2>3. OpenIdles(p, 2)
      BY <1>7, Names, MovesTo, FreesThem DEF Types, PcmTyped, DataTyped, Pcm, PcmType,
         TransportType, BlueZType, OpenIdle2, SetIdle, counts, OpenIdles, NoneStarted,
         SameFlag, SameLink, SameBlueZ, SameLock, Idle, Ready, State
    <2>4. QED
      BY <2>1, <2>2, <2>3 DEF Stays, OpenShape
  <1>8. ASSUME OpenStart(p)
        PROVE  Stays /\ (OpenShape(p) \/ Quiet)
    <2>1. PcmTyped' /\ DataTyped' /\ profile' = profile
      BY <1>8, Names, Pipes, MovesTo DEF Types, PcmTyped, DataTyped, TransportType,
         BlueZType, Pcm, OpenStart, State, counts
    <2>2. OpenWalks(p)
      BY <1>8, Names, MovesTo DEF Types, PcmTyped, DataTyped, Pcm, PcmType,
         TransportType, BlueZType, OpenStart, State, counts, OpenWalks, SameData,
         SameLock, SamePcm, SameFlag, SameLink, SameBlueZ, NoneStarted, Idle, Ready
    <2>3. QED
      BY <2>1, <2>2 DEF Stays, OpenShape
  <1>9. ASSUME OpenStart1(p)
        PROVE  Stays /\ (OpenShape(p) \/ Quiet)
    <2>1. /\ pc[Open(p)] = "start1" /\ PcmStart(1, Open(p), "start2")
          /\ UNCHANGED <<profile, t, lock, ret, bluez>>
      BY <1>9 DEF OpenStart1
    <2>2. 1 \in Pcm /\ Open(p) \in Thread /\ Open(p) # Io(1)
      BY Names DEF Pcm
    <2>3. /\ PcmTyped' /\ pc' = [o \in Thread |-> pc'[o]]
          /\ StartsPcm(Open(p), 1, "start2")
      BY <2>1, <2>2, PcmStarted DEF StartsPcm, SameFlag, SameLink, SameBlueZ
    <2>4. QED
      BY <2>1, <2>3 DEF Stays, Types, DataTyped, SameLock, OpenStarts, OpenShape
  <1>10. ASSUME OpenStart2(p)
         PROVE  Stays /\ (OpenShape(p) \/ Quiet)
    <2>1. /\ pc[Open(p)] = "start2" /\ UNCHANGED <<profile, t, ret, bluez>>
          /\ \/ PcmStart(2, Open(p), "failed") /\ lock' = lock
             \/ PcmStart(2, Open(p), "wait") /\ Free({"acquisition"})
      BY <1>10 DEF OpenStart2
    <2>2. 2 \in Pcm /\ Open(p) \in Thread /\ Open(p) # Io(2)
      BY Names DEF Pcm
    <2>3. PcmTyped' /\ pc' = [o \in Thread |-> pc'[o]]
      BY <2>1, <2>2, PcmStarted
    <2>4. /\ PcmStart(2, Open(p), "failed") => StartsPcm(Open(p), 2, "failed")
          /\ PcmStart(2, Open(p), "wait") => StartsPcm(Open(p), 2, "wait")
      BY <2>1, <2>2, PcmStarted DEF StartsPcm, SameFlag, SameLink, SameBlueZ
    <2>5. lock' \in [Mutex -> Thread \cup {None}]
      BY <2>1 DEF Free, Types, DataTyped, Mutex
    <2>6. OpenStarts(p)
      BY <2>1, <2>4, FreesThem DEF SameLock, OpenStarts
    <2>7. QED
      BY <2>1, <2>3, <2>5, <2>6 DEF Stays, Types, DataTyped, OpenShape
  <1>11. ASSUME OpenFailed(p)
         PROVE  Stays /\ (OpenShape(p) \/ Quiet)
    <2>1. PcmTyped' /\ DataTyped' /\ profile' = profile
      BY <1>11, Names, Pipes, MovesTo, FreesThem DEF Types, PcmTyped, DataTyped,
         TransportType, BlueZType, Pcm, OpenFailed, Client, counts
    <2>2. OpenFails(p)
      BY <1>11, Names, MovesTo, FreesThem DEF Types, PcmTyped, DataTyped, Pcm, PcmType,
         TransportType, BlueZType, OpenFailed, Client, counts, OpenFails, SamePcm,
         SameFlag, SameBlueZ, NoneStarted, Idle, Ready, State
    <2>3. QED
      BY <2>1, <2>2 DEF Stays, OpenShape
  <1>12. ASSUME OpenWait(p)
         PROVE  Stays /\ (OpenShape(p) \/ Quiet)
    <2>1. PcmTyped' /\ DataTyped' /\ profile' = profile
      BY <1>12, Names, Pipes, MovesTo, FreesThem DEF Types, PcmTyped, DataTyped,
         TransportType, BlueZType, Pcm, OpenWait, State, Client, counts
    <2>2. OpenWalks(p)
      BY <1>12, Names, MovesTo, FreesThem DEF Types, PcmTyped, DataTyped, Pcm, PcmType,
         TransportType, BlueZType, OpenWait, State, Client, counts, OpenWalks,
         SameData, SameLock, SamePcm, SameFlag, SameLink, SameBlueZ, NoneStarted,
         Idle, Ready
    <2>3. QED
      BY <2>1, <2>2 DEF Stays, OpenShape
  <1>13. ASSUME OpenPublish(p)
         PROVE  Stays /\ (OpenShape(p) \/ Quiet)
    <2>1. PcmTyped'
      BY <1>13, PcmFields, PcmSignals DEF Types, PcmTyped, OpenPublish, Client
    <2>2. DataTyped' /\ profile' = profile
      BY <1>13, Names, Pipes, MovesTo, FreesThem DEF Types, DataTyped, TransportType,
         BlueZType, Pcm, OpenPublish, Signalled, Client, counts
    <2>3. OpenWalks(p)
      BY <1>13, Names, MovesTo, FreesThem DEF Types, PcmTyped, DataTyped, Pcm, PcmType,
         TransportType, BlueZType, OpenPublish, Signalled, Client, counts, OpenWalks,
         SameData, SameLock, SamePcm, SameFlag, SameLink, SameBlueZ, NoneStarted,
         Idle, Ready, State
    <2>4. QED
      BY <2>1, <2>2, <2>3 DEF Stays, OpenShape
  <1>14. ASSUME ClientCloses(p)
         PROVE  Stays /\ (OpenShape(p) \/ Quiet)
    <2>1. PcmTyped'
      BY <1>14, PcmFields DEF Types, PcmTyped, ClientCloses
    <2>2. DataTyped' /\ profile' = profile
      BY <1>14, Names, Pipes DEF Types, DataTyped, TransportType, BlueZType, Pcm,
         ClientCloses, counts
    <2>3. Quiet
      BY <1>14, Names DEF Types, PcmTyped, DataTyped, Pcm, PcmType, TransportType,
         BlueZType, ClientCloses, counts, Quiet, SameData, SameLock, SamePc, SamePcm,
         SameFlag, SameLink, SameBlueZ, NoneStarted, Idle, Ready, State
    <2>4. QED
      BY <2>1, <2>2, <2>3 DEF Stays, OpenShape
  <1>15. QED
    BY <1>1, <1>2, <1>3, <1>4, <1>5, <1>6, <1>7, <1>8, <1>9, <1>10, <1>11, <1>12,
       <1>13, <1>14

\* ba_transport_select_codec_sco()
LEMMA SelectSteps ==
  ASSUME Types
  PROVE  \/ SelectCall
         \/ SelectStop
         \/ StopWait(Select, "client1")
         \/ FullLock(Select, "release")
         \/ SelectRelease
         => Stays /\ SelectWalks
  <1>1. ASSUME SelectCall
        PROVE  Stays /\ SelectWalks
    <2>1. PcmTyped' /\ DataTyped' /\ profile' = profile
      BY <1>1, Names, Pipes, MovesTo DEF Types, PcmTyped, DataTyped, TransportType,
         BlueZType, Pcm, SelectCall, Fault, Event
    <2>2. SelectWalks
      BY <1>1, Names, MovesTo DEF Types, PcmTyped, DataTyped, Pcm, PcmType,
         TransportType, BlueZType, SelectCall, Fault, Event, SelectWalks, SameData,
         SameLock, SamePcm, SameFlag, SameLink, SameBlueZ, NoneStarted, Idle, Ready,
         State
    <2>3. QED
      BY <2>1, <2>2 DEF Stays, SelectWalks
  <1>2. ASSUME SelectStop
        PROVE  Stays /\ SelectWalks
    <2>1. PcmTyped' /\ DataTyped' /\ profile' = profile
      BY <1>2, Names, Pipes, MovesTo, TakesIt DEF Types, PcmTyped, DataTyped,
         TransportType, BlueZType, Pcm, SelectStop, Stop, AllTerminated, State, counts
    <2>2. SelectWalks
      BY <1>2, Names, MovesTo, TakesIt DEF Types, PcmTyped, DataTyped, Pcm, PcmType,
         TransportType, BlueZType, SelectStop, Stop, AllTerminated, State, counts,
         SelectWalks, SameData, SameLock, SamePcm, SameFlag, SameLink, SameBlueZ,
         NoneStarted, Idle, Ready
    <2>3. QED
      BY <2>1, <2>2 DEF Stays, SelectWalks
  <1>3. ASSUME StopWait(Select, "client1")
        PROVE  Stays /\ SelectWalks
    <2>1. PcmTyped' /\ DataTyped' /\ profile' = profile
      BY <1>3, Names, Pipes, MovesTo DEF Types, PcmTyped, DataTyped, TransportType,
         BlueZType, Pcm, StopWait, counts
    <2>2. SelectWalks
      BY <1>3, Names, MovesTo DEF Types, PcmTyped, DataTyped, Pcm, PcmType,
         TransportType, BlueZType, StopWait, counts, SelectWalks, SameData, SameLock,
         SamePcm, SameFlag, SameLink, SameBlueZ, NoneStarted, Idle, Ready, State
    <2>3. QED
      BY <2>1, <2>2 DEF Stays, SelectWalks
  <1>4. ASSUME FullLock(Select, "release")
        PROVE  Stays /\ SelectWalks
    <2>1. PICK m \in {"client1", "client2"} :
            /\ pc[Select] = m /\ Take(m, Select)
            /\ Goto(Select, IF m = "client1" THEN "client2" ELSE "release")
      BY <1>4 DEF FullLock
    <2>2. UNCHANGED <<profile, pcm, t, ret, bluez>>
      BY <1>4 DEF FullLock
    <2>3. Stays
      BY <2>1, <2>2, Names, MovesTo, TakesIt DEF Stays, Types, PcmTyped, DataTyped
    <2>4. SelectWalks
      BY <2>1, <2>2, Names, MovesTo, TakesIt DEF SelectWalks, SameData, SamePcm, SameFlag,
         SameLink, SameBlueZ, NoneStarted, Idle, Ready, State
    <2>5. QED
      BY <2>3, <2>4
  <1>5. ASSUME SelectRelease
        PROVE  Stays /\ SelectWalks
    <2>1. PcmTyped'
      BY <1>5, PcmSignals DEF Types, PcmTyped, SelectRelease
    <2>2. DataTyped' /\ profile' = profile
      BY <1>5, Names, Pipes, MovesTo, FreesThem DEF Types, DataTyped, TransportType,
         BlueZType, Pcm, SelectRelease, Closed, counts
    <2>3. SelectWalks
      BY <1>5, Names, MovesTo, FreesThem DEF Types, PcmTyped, DataTyped, Pcm, PcmType,
         TransportType, BlueZType, SelectRelease, Closed, counts, SelectWalks,
         SameData, SameLock, SamePcm, SameFlag, SameLink, SameBlueZ, NoneStarted,
         Idle, Ready, State
    <2>4. QED
      BY <2>1, <2>2, <2>3 DEF Stays, SelectWalks
  <1>6. QED
    BY <1>1, <1>2, <1>3, <1>4, <1>5

\* The main loop and the link
LEMMA MainSteps ==
  ASSUME Types
  PROVE  \/ MainSignal
         \/ MainStart
         \/ (\E p \in Pcm : MainStartPcm(p))
         \/ MainDrain
         \/ MainDrained
         \/ (\E p \in Pcm : MainClientGone(p))
         \/ MainDestroy
         \/ MainStopAgain
         \/ StopWait(Main, ret)
         \/ FullLock(Main, "destroy")
         \/ MainDestroyed
         \/ LinkLost
         => Stays /\ (MainShape \/ Quiet)
  <1>1. ASSUME MainSignal
        PROVE  Stays /\ (MainShape \/ Quiet)
    <2> DEFINE s == Head(bluez.signals)
    <2>1. /\ bluez \in BlueZType /\ bluez.signals \in Change /\ bluez.signals # << >>
          /\ Tail(bluez.signals) \in Change /\ s \in {"idle", "active"}
          /\ t \in TransportType /\ pc[Main] = "poll"
      BY <1>1, Pipes DEF MainSignal, Types, DataTyped, BlueZType
    <2>2. /\ bluez' = [bluez EXCEPT !.signals = Tail(bluez.signals)]
          /\ t' = [t EXCEPT !.a2dp = s] /\ ret' = "poll"
          /\ UNCHANGED <<profile, pcm, lock>>
      BY <1>1 DEF MainSignal
    <2>3. /\ s = t.a2dp => pc' = pc
          /\ s = "active" /\ s # t.a2dp => Goto(Main, "start")
          /\ s = "idle" /\ s # t.a2dp => Goto(Main, "poll") \/ Goto(Main, "async")
      BY <1>1, <2>1 DEF MainSignal, Stop
    <2> HIDE DEF s
    <2> DEFINE rest == Tail(bluez.signals)
    <2>a. /\ rest \in Change
          /\ Has(rest, "active") => Has(bluez.signals, "active")
          /\ Once(bluez.signals, "active") => Once(rest, "active")
          /\ s = "active" /\ Once(bluez.signals, "active") =>
               Has(bluez.signals, "active") /\ ~Has(rest, "active")
      BY <2>1, ChangeHas DEF s
    <2>b. bluez' = [bluez EXCEPT !.signals = rest]
      BY <2>2
    <2> HIDE DEF rest
    <2>4. bluez' \in BlueZType /\ bluez'.signals = rest /\ bluez'.state = bluez.state
      BY <2>1, <2>a, <2>b DEF BlueZType
    <2>5. /\ t' \in TransportType /\ t'.bt_fd = t.bt_fd /\ t'.a2dp = s
          /\ t'.stopping = t.stopping /\ t'.pipe = t.pipe
      BY <2>1, <2>2 DEF TransportType
    <2>6. pc' = [o \in Thread |-> pc'[o]]
      BY <2>1, <2>3, <2>5 DEF Goto, Types, DataTyped, TransportType
    <2>7. PcmTyped' /\ SamePcm
      BY <2>2 DEF Types, PcmTyped, SamePcm, NoneStarted, Idle, Ready, State
    <2>8. \/ SamePc /\ t'.a2dp = t.a2dp
          \/ t'.a2dp = "active" /\ Moves(Main, "start")
          \/ t'.a2dp = "idle" /\ (Moves(Main, "poll") \/ Moves(Main, "async"))
      BY <2>1, <2>3, <2>5, MovesTo DEF SamePc
    <2>9. MainSignals
      BY <2>1, <2>2, <2>a, <2>4, <2>5, <2>7, <2>8 DEF MainSignals, SameFlag, SameLock, Fewer
    <2>10. QED
      BY <2>2, <2>4, <2>5, <2>6, <2>7, <2>9 DEF Stays, Types, DataTyped, MainShape
  <1>2. ASSUME MainStart
        PROVE  Stays /\ (MainShape \/ Quiet)
    <2>1. PcmTyped' /\ DataTyped' /\ profile' = profile
      BY <1>2, Names, Pipes, MovesTo DEF Types, PcmTyped, DataTyped, TransportType,
         BlueZType, Pcm, MainStart, State, counts
    <2>2. MainWalks
      BY <1>2, Names, MovesTo DEF Types, PcmTyped, DataTyped, Pcm, PcmType,
         TransportType, BlueZType, MainStart, State, counts, MainWalks, SameData,
         SameLock, SamePcm, SameFlag, SameLink, SameBlueZ, NoneStarted, Idle, Ready
    <2>3. QED
      BY <2>1, <2>2 DEF Stays, MainShape
  <1>3. ASSUME NEW p \in Pcm, MainStartPcm(p)
        PROVE  Stays /\ (MainShape \/ Quiet)
    <2>1. /\ pc[Main] = (IF p = 1 THEN "start1" ELSE "start2")
          /\ PcmStart(p, Main, IF p = 1 THEN "start2" ELSE "poll")
          /\ UNCHANGED <<profile, t, lock, ret, bluez>>
      BY <1>3 DEF MainStartPcm
    <2>2. Main \in Thread /\ Main # Io(p)
      BY Names
    <2>3. /\ PcmTyped' /\ pc' = [o \in Thread |-> pc'[o]]
          /\ StartsPcm(Main, p, IF p = 1 THEN "start2" ELSE "poll")
      BY <2>1, <2>2, PcmStarted DEF StartsPcm, SameFlag, SameLink, SameBlueZ
    <2>4. QED
      BY <2>1, <2>3 DEF Stays, Types, DataTyped, SameLock, MainStarts, MainShape
  <1>4. ASSUME MainDrain
        PROVE  Stays /\ (MainShape \/ Quiet)
    <2>1. UNCHANGED <<profile, t, lock, ret, bluez>> /\ pc[Main] = "poll"
      BY <1>4 DEF MainDrain
    <2>2. CASE State(1) = "RUNNING"
      <3> DEFINE q == [pcm[1] EXCEPT !.synced = FALSE]
      <3>1. pcm[1] \in PcmType /\ 1 \in Pcm
        BY DEF Types, PcmTyped, Pcm
      <3>2. pcm' = [pcm EXCEPT ![1] = Signalled(q, "sync")] /\ Goto(Main, "drain")
        BY <1>4, <2>2 DEF MainDrain
      <3>3. q \in PcmType
        BY <3>1, PcmFields
      <3>4. q.state = State(1) /\ q.fd_bt = pcm[1].fd_bt
        BY <3>1 DEF PcmType, State
      <3> HIDE DEF q
      <3>5. PcmTyped' /\ SamePcm
        BY <3>1, <3>2, <3>3, <3>4, PcmSignals, PcmKept
      <3>6. Moves(Main, "drain") /\ pc' = [o \in Thread |-> pc'[o]]
        BY <3>2, MovesTo DEF Goto, Types, DataTyped
      <3>7. MainWalks
        BY <2>1, <3>5, <3>6
           DEF MainWalks, SameData, SameFlag, SameLink, SameBlueZ, SameLock
      <3>8. QED
        BY <2>1, <3>5, <3>6, <3>7 DEF Stays, Types, DataTyped, MainShape
    <2>3. CASE State(1) # "RUNNING"
      <3>1. pcm' = pcm /\ pc' = pc
        BY <1>4, <2>3 DEF MainDrain
      <3>2. QED
        BY <2>1, <3>1
           DEF Stays, Types, PcmTyped, DataTyped, Quiet, SameData, SamePcm, SameFlag,
               SameLink, SameBlueZ, SameLock, SamePc, NoneStarted, Idle, Ready, State
    <2>4. QED
      BY <2>2, <2>3
  <1>5. ASSUME MainDrained
        PROVE  Stays /\ (MainShape \/ Quiet)
    <2>1. PcmTyped' /\ DataTyped' /\ profile' = profile
      BY <1>5, Names, Pipes, MovesTo DEF Types, PcmTyped, DataTyped, TransportType,
         BlueZType, Pcm, MainDrained, counts
    <2>2. MainWalks
      BY <1>5, Names, MovesTo DEF Types, PcmTyped, DataTyped, Pcm, PcmType,
         TransportType, BlueZType, MainDrained, counts, MainWalks, SameData, SameLock,
         SamePcm, SameFlag, SameLink, SameBlueZ, NoneStarted, Idle, Ready, State
    <2>3. QED
      BY <2>1, <2>2 DEF Stays, MainShape
  <1>6. ASSUME NEW p \in Pcm, MainClientGone(p)
        PROVE  Stays /\ (MainShape \/ Quiet)
    <2>1. Closed(pcm[p]) \in PcmType /\ Closed(pcm[p]).state = State(p)
          /\ Closed(pcm[p]).fd_bt = pcm[p].fd_bt
      BY PcmSignals DEF Types, PcmTyped, State
    <2>2. pcm' = [pcm EXCEPT ![p] = Signalled(Closed(pcm[p]), "close")] /\ Send("check")
      BY <1>6 DEF MainClientGone
    <2>3. UNCHANGED <<profile, lock, pc, ret, bluez>>
      BY <1>6 DEF MainClientGone
    <2>4. PcmTyped' /\ SamePcm
      BY <2>1, <2>2, PcmSignals, PcmKept
    <2>5. QED
      BY <2>2, <2>3, <2>4, Sends
         DEF Stays, Types, DataTyped, Quiet, SameData, SameBlueZ, SameLock, SamePc
  <1>7. ASSUME MainDestroy
        PROVE  Stays /\ (MainShape \/ Quiet)
    <2>1. PcmTyped' /\ DataTyped' /\ profile' = profile
      BY <1>7, Names, Pipes, MovesTo DEF Types, PcmTyped, DataTyped, TransportType,
         BlueZType, Pcm, MainDestroy, Fault, Stop, Event, AllTerminated, State
    <2>2. MainDestroys
      BY <1>7, Names, MovesTo DEF Types, PcmTyped, DataTyped, Pcm, PcmType,
         TransportType, BlueZType, MainDestroy, Fault, Stop, Event, AllTerminated,
         State, MainDestroys, SamePcm, SameFlag, SameLock, NoneStarted, Idle, Ready
    <2>3. QED
      BY <2>1, <2>2 DEF Stays, MainShape
  <1>8. ASSUME MainStopAgain
        PROVE  Stays /\ (MainShape \/ Quiet)
    <2>1. PcmTyped' /\ DataTyped' /\ profile' = profile
      BY <1>8, Names, Pipes, MovesTo DEF Types, PcmTyped, DataTyped, TransportType,
         BlueZType, Pcm, MainStopAgain, Stop, AllTerminated, State, counts
    <2>2. MainAgain
      BY <1>8, Names, MovesTo DEF Types, PcmTyped, DataTyped, Pcm, PcmType,
         TransportType, BlueZType, MainStopAgain, Stop, AllTerminated, State, counts,
         MainAgain, SamePcm, SameFlag, SameLink, SameLock, NoneStarted, Idle, Ready
    <2>3. QED
      BY <2>1, <2>2 DEF Stays, MainShape
  <1>9. ASSUME StopWait(Main, ret)
        PROVE  Stays /\ (MainShape \/ Quiet)
    <2>1. PcmTyped' /\ DataTyped' /\ profile' = profile
      BY <1>9, Names, Pipes, MovesTo DEF Types, PcmTyped, DataTyped, TransportType,
         BlueZType, Pcm, StopWait, counts
    <2>2. MainWalks
      BY <1>9, Names, MovesTo DEF Types, PcmTyped, DataTyped, Pcm, PcmType,
         TransportType, BlueZType, StopWait, counts, MainWalks, SameData, SameLock,
         SamePcm, SameFlag, SameLink, SameBlueZ, NoneStarted, Idle, Ready, State
    <2>3. QED
      BY <2>1, <2>2 DEF Stays, MainShape
  <1>10. ASSUME FullLock(Main, "destroy")
         PROVE  Stays /\ (MainShape \/ Quiet)
    <2>1. PICK m \in {"client1", "client2"} :
            /\ pc[Main] = m /\ Take(m, Main)
            /\ Goto(Main, IF m = "client1" THEN "client2" ELSE "destroy")
      BY <1>10 DEF FullLock
    <2>2. UNCHANGED <<profile, pcm, t, ret, bluez>>
      BY <1>10 DEF FullLock
    <2>3. Stays
      BY <2>1, <2>2, Names, MovesTo, TakesIt DEF Stays, Types, PcmTyped, DataTyped
    <2>4. MainWalks
      BY <2>1, <2>2, Names, MovesTo, TakesIt DEF MainWalks, SameData, SamePcm, SameFlag,
         SameLink, SameBlueZ, NoneStarted, Idle, Ready, State
    <2>5. QED
      BY <2>3, <2>4 DEF Stays, MainShape
  <1>11. ASSUME MainDestroyed
         PROVE  Stays /\ (MainShape \/ Quiet)
    <2>1. PcmTyped'
      BY <1>11, PcmSignals DEF Types, PcmTyped, MainDestroyed
    <2>2. DataTyped' /\ profile' = profile
      BY <1>11, Names, Pipes, MovesTo, FreesThem DEF Types, DataTyped, TransportType,
         BlueZType, Pcm, MainDestroyed, Closed, counts
    <2>3. MainCloses
      BY <1>11, Names, MovesTo, FreesThem DEF Types, PcmTyped, DataTyped, Pcm, PcmType,
         TransportType, BlueZType, MainDestroyed, Closed, counts, MainCloses, SamePcm,
         SameFlag, SameBlueZ, NoneStarted, Idle, Ready, State
    <2>4. QED
      BY <2>1, <2>2, <2>3 DEF Stays, MainShape
  <1>12. ASSUME LinkLost
         PROVE  Stays /\ (MainShape \/ Quiet)
    <2>1. /\ t.bt_fd = "good" /\ t' = [t EXCEPT !.bt_fd = "lost"]
          /\ UNCHANGED <<profile, pcm, lock, pc, ret>>
      BY <1>12 DEF LinkLost
    <2>2. PcmTyped' /\ SamePcm
      BY <2>1 DEF Types, PcmTyped, SamePcm, NoneStarted, Idle, Ready, State
    <2>3. t \in TransportType /\ bluez \in BlueZType /\ profile \in {"source", "ag"}
      BY DEF Types, DataTyped
    <2>4. /\ t' \in TransportType /\ t'.bt_fd = "lost" /\ t'.a2dp = t.a2dp
          /\ t'.stopping = t.stopping /\ t'.pipe = t.pipe
      BY <2>1, <2>3 DEF TransportType
    <2>5. /\ profile = "ag" => bluez' = bluez
          /\ profile # "ag" =>
               bluez' = [state |-> "idle", signals |-> Append(bluez.signals, "idle")]
      BY <1>12 DEF LinkLost
    <2>6. /\ bluez' \in BlueZType
          /\ profile = "source" => bluez'.state = "idle" /\ Fewer
      BY <2>3, <2>5, IdleSignal
    <2>7. LinkEnds
      BY <2>1, <2>2, <2>3, <2>4, <2>5, <2>6 DEF LinkEnds, SameFlag, SameLock, SamePc
    <2>8. QED
      BY <2>1, <2>2, <2>4, <2>6, <2>7 DEF Stays, Types, DataTyped, MainShape
  <1>13. QED
    BY <1>1, <1>2, <1>3, <1>4, <1>5, <1>6, <1>7, <1>8, <1>9, <1>10, <1>11, <1>12

----------------------------------------------------------------------------
(* Every shape keeps the invariant *)

\* Every thread is somewhere in its code.
LEMMA LabelsKept ==
  ASSUME Types, Labels, profile' = profile
  PROVE  Shape => Labels'
  <1> USE Names DEF Types, DataTyped, TransportType, BlueZType, Pcm, Mutex, SameData,
              SamePcm, SameFlag, SameLink, SameBlueZ, SameLock, SamePc, Moves, Frees, Takes,
              Ready, Fewer
  <1>1. ASSUME Quiet PROVE Labels'
    BY <1>1 DEF Quiet, Labels, IoLabel, MainLabel, ManagerLabel, OpenLabel, SelectLabel
  <1>2. ASSUME NEW p \in Pcm, IoShape(p) PROVE Labels'
    BY <1>2 DEF IoShape, IoWalks, IoBtReleases, IoReleases, Labels, IoLabel, MainLabel,
       ManagerLabel, OpenLabel, SelectLabel
  <1>3. ASSUME NEW th \in Stopper, StopShape(th) PROVE Labels'
    BY <1>3 DEF Stopper, StopShape, Flags, IoFlagged, Joins, Marks, Cancels, AfterAsync,
       Labels, IoLabel, MainLabel, ManagerLabel, OpenLabel, SelectLabel
  <1>4. ASSUME ManagerShape PROVE Labels'
    BY <1>4 DEF ManagerShape, ManagerWalks, ManagerReads, ManagerFlags, ManagerEnds,
       PcmEnds, AfterStop, Labels, IoLabel, MainLabel, ManagerLabel, OpenLabel,
       SelectLabel
  <1>5. ASSUME NEW p \in Pcm, OpenShape(p) PROVE Labels'
    <2>1. CASE OpenWalks(p)
      BY <2>1 DEF OpenWalks, Labels, IoLabel, MainLabel, ManagerLabel, OpenLabel,
         SelectLabel
    <2>2. CASE OpenConnects(p) \/ OpenIdles(p, 1) \/ OpenIdles(p, 2) \/ OpenFails(p)
      BY <2>2 DEF OpenConnects, OpenIdles, OpenFails, Labels, IoLabel, MainLabel,
         ManagerLabel, OpenLabel, SelectLabel
    <2>3. CASE OpenStarts(p)
      BY <2>3 DEF OpenStarts, StartsPcm, Labels, IoLabel, MainLabel, ManagerLabel,
         OpenLabel, SelectLabel
    <2>4. QED
      BY <1>5, <2>1, <2>2, <2>3 DEF OpenShape
  <1>6. ASSUME SelectWalks PROVE Labels'
    BY <1>6 DEF SelectWalks, Labels, IoLabel, MainLabel, ManagerLabel, OpenLabel,
       SelectLabel
  <1>7. ASSUME MainShape PROVE Labels'
    BY <1>7 DEF MainShape, MainWalks, MainSignals, MainDestroys, MainAgain, MainCloses,
       LinkEnds, MainStarts, StartsPcm, Labels, IoLabel, MainLabel, ManagerLabel,
       OpenLabel, SelectLabel
  <1>8. QED
    BY <1>1, <1>2, <1>3, <1>4, <1>5, <1>6, <1>7 DEF Shape

\* Who holds which mutex.
LEMMA LocksKept ==
  ASSUME Types, Locks, profile' = profile
  PROVE  Shape => Locks'
  <1> USE Names DEF Types, DataTyped, TransportType, BlueZType, Pcm, Mutex, SameData,
              SamePcm, SameFlag, SameLink, SameBlueZ, SameLock, SamePc, Moves, Frees, Takes,
              Ready, Fewer
  <1>1. ASSUME Quiet PROVE Locks'
    BY <1>1 DEF Quiet, Locks, Acquiring, Client
  <1>2. ASSUME NEW p \in Pcm, IoShape(p) PROVE Locks'
    BY <1>2 DEF IoShape, IoWalks, IoBtReleases, IoReleases, Locks, Acquiring, Client
  <1>3. ASSUME NEW th \in Stopper, StopShape(th) PROVE Locks'
    BY <1>3 DEF Stopper, StopShape, Flags, IoFlagged, Joins, Marks, Cancels, AfterAsync,
       Locks, Acquiring, Client
  <1>4. ASSUME ManagerShape PROVE Locks'
    BY <1>4 DEF ManagerShape, ManagerWalks, ManagerReads, ManagerFlags, ManagerEnds,
       PcmEnds, AfterStop, Locks, Acquiring, Client
  <1>5. ASSUME NEW p \in Pcm, OpenShape(p) PROVE Locks'
    <2>1. CASE OpenWalks(p)
      BY <2>1 DEF OpenWalks, Locks, Acquiring, Client
    <2>2. CASE OpenConnects(p) \/ OpenIdles(p, 1) \/ OpenIdles(p, 2) \/ OpenFails(p)
      BY <2>2 DEF OpenConnects, OpenIdles, OpenFails, Locks, Acquiring, Client
    <2>3. CASE OpenStarts(p)
      BY <2>3 DEF OpenStarts, StartsPcm, Locks, Acquiring, Client
    <2>4. QED
      BY <1>5, <2>1, <2>2, <2>3 DEF OpenShape
  <1>6. ASSUME SelectWalks PROVE Locks'
    BY <1>6 DEF SelectWalks, Locks, Acquiring, Client
  <1>7. ASSUME MainShape PROVE Locks'
    BY <1>7 DEF MainShape, MainWalks, MainSignals, MainDestroys, MainAgain, MainCloses,
       LinkEnds, MainStarts, StartsPcm, Locks, Acquiring, Client
  <1>8. QED
    BY <1>1, <1>2, <1>3, <1>4, <1>5, <1>6, <1>7 DEF Shape

\* There is one cancellation at a time.
LEMMA OneStopKept ==
  ASSUME Types, OneStop, profile' = profile
  PROVE  Shape => OneStop'
  <1> USE Names DEF Types, DataTyped, TransportType, BlueZType, Pcm, Mutex, SameData,
              SamePcm, SameFlag, SameLink, SameBlueZ, SameLock, SamePc, Moves, Frees, Takes,
              Ready, Fewer
  <1>1. ASSUME Quiet PROVE OneStop'
    BY <1>1 DEF Quiet, OneStop, Marking, Sent, Cancelling
  <1>2. ASSUME NEW p \in Pcm, IoShape(p) PROVE OneStop'
    BY <1>2 DEF IoShape, IoWalks, IoBtReleases, IoReleases, OneStop, Marking, Sent,
       Cancelling
  <1>3. ASSUME NEW th \in Stopper, StopShape(th) PROVE OneStop'
    BY <1>3 DEF Stopper, StopShape, Flags, IoFlagged, Joins, Marks, Cancels, AfterAsync,
       OneStop, Marking, Sent, Cancelling
  <1>4. ASSUME ManagerShape PROVE OneStop'
    BY <1>4 DEF ManagerShape, ManagerWalks, ManagerReads, ManagerFlags, ManagerEnds,
       PcmEnds, AfterStop, OneStop, Marking, Sent, Cancelling
  <1>5. ASSUME NEW p \in Pcm, OpenShape(p) PROVE OneStop'
    <2>1. CASE OpenWalks(p)
      BY <2>1 DEF OpenWalks, OneStop, Marking, Sent, Cancelling
    <2>2. CASE OpenConnects(p) \/ OpenIdles(p, 1) \/ OpenIdles(p, 2) \/ OpenFails(p)
      BY <2>2 DEF OpenConnects, OpenIdles, OpenFails, OneStop, Marking, Sent, Cancelling
    <2>3. CASE OpenStarts(p)
      BY <2>3 DEF OpenStarts, StartsPcm, OneStop, Marking, Sent, Cancelling
    <2>4. QED
      BY <1>5, <2>1, <2>2, <2>3 DEF OpenShape
  <1>6. ASSUME SelectWalks PROVE OneStop'
    BY <1>6 DEF SelectWalks, OneStop, Marking, Sent, Cancelling
  <1>7. ASSUME MainShape PROVE OneStop'
    BY <1>7 DEF MainShape, MainWalks, MainSignals, MainDestroys, MainAgain, MainCloses,
       LinkEnds, MainStarts, StartsPcm, OneStop, Marking, Sent, Cancelling
  <1>8. QED
    BY <1>1, <1>2, <1>3, <1>4, <1>5, <1>6, <1>7 DEF Shape

\* A PCM has a state of its own while it has a thread.
LEMMA ThreadsKept ==
  ASSUME Types, Threads, Starts, profile' = profile
  PROVE  Shape => Threads'
  <1> USE Names DEF Types, DataTyped, TransportType, BlueZType, Pcm, Mutex, SameData,
              SamePcm, SameFlag, SameLink, SameBlueZ, SameLock, SamePc, Moves, Frees, Takes,
              Ready, Fewer
  <1>1. ASSUME Quiet PROVE Threads'
    BY <1>1 DEF Quiet, Threads, Using, Starts, Starting
  <1>2. ASSUME NEW p \in Pcm, IoShape(p) PROVE Threads'
    BY <1>2 DEF IoShape, IoWalks, IoBtReleases, IoReleases, Threads, Using, Starts,
       Starting
  <1>3. ASSUME NEW th \in Stopper, StopShape(th) PROVE Threads'
    BY <1>3 DEF Stopper, StopShape, Flags, IoFlagged, Joins, Marks, Cancels, AfterAsync,
       Threads, Using, Starts, Starting
  <1>4. ASSUME ManagerShape PROVE Threads'
    BY <1>4 DEF ManagerShape, ManagerWalks, ManagerReads, ManagerFlags, ManagerEnds,
       PcmEnds, AfterStop, Threads, Using, Starts, Starting
  <1>5. ASSUME NEW p \in Pcm, OpenShape(p) PROVE Threads'
    <2>1. CASE OpenWalks(p)
      BY <2>1 DEF OpenWalks, Threads, Using, Starts, Starting
    <2>2. CASE OpenConnects(p) \/ OpenIdles(p, 1) \/ OpenIdles(p, 2) \/ OpenFails(p)
      BY <2>2 DEF OpenConnects, OpenIdles, OpenFails, Threads, Using, Starts, Starting
    <2>3. CASE OpenStarts(p)
      BY <2>3 DEF OpenStarts, StartsPcm, Threads, Using, Starts, Starting
    <2>4. QED
      BY <1>5, <2>1, <2>2, <2>3 DEF OpenShape
  <1>6. ASSUME SelectWalks PROVE Threads'
    BY <1>6 DEF SelectWalks, Threads, Using, Starts, Starting
  <1>7. ASSUME MainShape PROVE Threads'
    BY <1>7 DEF MainShape, MainWalks, MainSignals, MainDestroys, MainAgain, MainCloses,
       LinkEnds, MainStarts, StartsPcm, Threads, Using, Starts, Starting
  <1>8. QED
    BY <1>1, <1>2, <1>3, <1>4, <1>5, <1>6, <1>7 DEF Shape

\* A thread is started where none is.
LEMMA StartsKept ==
  ASSUME Types, Starts, Locks, Threads, profile' = profile
  PROVE  Shape => Starts'
  <1> USE Names DEF Types, DataTyped, TransportType, BlueZType, Pcm, Mutex, SameData,
              SamePcm, SameFlag, SameLink, SameBlueZ, SameLock, SamePc, Moves, Frees, Takes,
              Ready, Fewer
  <1>1. ASSUME Quiet PROVE Starts'
    BY <1>1 DEF Quiet, Starts, Starting, Locks, Threads, Leaked, Acquiring, Client
  <1>2. ASSUME NEW p \in Pcm, IoShape(p) PROVE Starts'
    BY <1>2 DEF IoShape, IoWalks, IoBtReleases, IoReleases, Starts, Starting, Locks,
       Threads, Leaked, Acquiring, Client
  <1>3. ASSUME NEW th \in Stopper, StopShape(th) PROVE Starts'
    BY <1>3 DEF Stopper, StopShape, Flags, IoFlagged, Joins, Marks, Cancels, AfterAsync,
       Starts, Starting, Locks, Threads, Leaked, Acquiring, Client
  <1>4. ASSUME ManagerShape PROVE Starts'
    BY <1>4 DEF ManagerShape, ManagerWalks, ManagerReads, ManagerFlags, ManagerEnds,
       PcmEnds, AfterStop, Starts, Starting, Locks, Threads, Leaked, Acquiring, Client
  <1>5. ASSUME NEW p \in Pcm, OpenShape(p) PROVE Starts'
    <2>1. CASE OpenWalks(p)
      BY <2>1 DEF OpenWalks, Starts, Starting, Locks, Threads, Leaked, Acquiring, Client
    <2>2. CASE OpenConnects(p) \/ OpenIdles(p, 1) \/ OpenIdles(p, 2) \/ OpenFails(p)
      BY <2>2 DEF OpenConnects, OpenIdles, OpenFails, Starts, Starting, Locks, Threads,
         Leaked, Acquiring, Client
    <2>3. CASE OpenStarts(p)
      BY <2>3 DEF OpenStarts, StartsPcm, Starts, Starting, Locks, Threads, Leaked,
         Acquiring, Client
    <2>4. QED
      BY <1>5, <2>1, <2>2, <2>3 DEF OpenShape
  <1>6. ASSUME SelectWalks PROVE Starts'
    BY <1>6 DEF SelectWalks, Starts, Starting, Locks, Threads, Leaked, Acquiring, Client
  <1>7. ASSUME MainShape PROVE Starts'
    BY <1>7 DEF MainShape, MainWalks, MainSignals, MainDestroys, MainAgain, MainCloses,
       LinkEnds, MainStarts, StartsPcm, Starts, Starting, Locks, Threads, Leaked,
       Acquiring, Client
  <1>8. QED
    BY <1>1, <1>2, <1>3, <1>4, <1>5, <1>6, <1>7 DEF Shape

\* What the main loop does is known by the state of the transport in BlueZ.
LEMMA EndsKept ==
  ASSUME Types, Ends, Starts, profile' = profile
  PROVE  Shape => Ends'
  <1> USE Names DEF Types, DataTyped, TransportType, BlueZType, Pcm, Mutex, SameData,
              SamePcm, SameFlag, SameLink, SameBlueZ, SameLock, SamePc, Moves, Frees, Takes,
              Ready, Fewer
  <1>1. ASSUME Quiet PROVE Ends'
    BY <1>1 DEF Quiet, Ends, Starts, Gone
  <1>2. ASSUME NEW p \in Pcm, IoShape(p) PROVE Ends'
    BY <1>2 DEF IoShape, IoWalks, IoBtReleases, IoReleases, Ends, Starts, Gone
  <1>3. ASSUME NEW th \in Stopper, StopShape(th) PROVE Ends'
    BY <1>3 DEF Stopper, StopShape, Flags, IoFlagged, Joins, Marks, Cancels, AfterAsync,
       Ends, Starts, Gone
  <1>4. ASSUME ManagerShape PROVE Ends'
    BY <1>4 DEF ManagerShape, ManagerWalks, ManagerReads, ManagerFlags, ManagerEnds,
       PcmEnds, AfterStop, Ends, Starts, Gone
  <1>5. ASSUME NEW p \in Pcm, OpenShape(p) PROVE Ends'
    <2>1. CASE OpenWalks(p)
      BY <2>1 DEF OpenWalks, Ends, Starts, Gone
    <2>2. CASE OpenConnects(p) \/ OpenIdles(p, 1) \/ OpenIdles(p, 2) \/ OpenFails(p)
      BY <2>2 DEF OpenConnects, OpenIdles, OpenFails, Ends, Starts, Gone
    <2>3. CASE OpenStarts(p)
      BY <2>3 DEF OpenStarts, StartsPcm, Ends, Starts, Gone
    <2>4. QED
      BY <1>5, <2>1, <2>2, <2>3 DEF OpenShape
  <1>6. ASSUME SelectWalks PROVE Ends'
    BY <1>6 DEF SelectWalks, Ends, Starts, Gone
  <1>7. ASSUME MainShape PROVE Ends'
    BY <1>7 DEF MainShape, MainWalks, MainSignals, MainDestroys, MainAgain, MainCloses,
       LinkEnds, MainStarts, StartsPcm, Ends, Starts, Gone
  <1>8. QED
    BY <1>1, <1>2, <1>3, <1>4, <1>5, <1>6, <1>7 DEF Shape

\* A transport that is gone stays gone, and a mutex that nobody unlocks stays locked.
LEMMA OrderlyKept ==
  ASSUME Types, Locks, Ends, profile' = profile
  PROVE  Shape => (Orderly' => Orderly)
  <1> USE Names DEF Types, DataTyped, TransportType, BlueZType, Pcm, Mutex, SameData,
              SamePcm, SameFlag, SameLink, SameBlueZ, SameLock, SamePc, Moves, Frees, Takes,
              Ready, Fewer
  <1>1. ASSUME Quiet PROVE (Orderly' => Orderly)
    BY <1>1 DEF Quiet, Orderly, Gone, Leaked, Locks, Ends, Acquiring, Client
  <1>2. ASSUME NEW p \in Pcm, IoShape(p) PROVE (Orderly' => Orderly)
    BY <1>2 DEF IoShape, IoWalks, IoBtReleases, IoReleases, Orderly, Gone, Leaked,
       Locks, Ends, Acquiring, Client
  <1>3. ASSUME NEW th \in Stopper, StopShape(th) PROVE (Orderly' => Orderly)
    BY <1>3 DEF Stopper, StopShape, Flags, IoFlagged, Joins, Marks, Cancels, AfterAsync,
       Orderly, Gone, Leaked, Locks, Ends, Acquiring, Client
  <1>4. ASSUME ManagerShape PROVE (Orderly' => Orderly)
    BY <1>4 DEF ManagerShape, ManagerWalks, ManagerReads, ManagerFlags, ManagerEnds,
       PcmEnds, AfterStop, Orderly, Gone, Leaked, Locks, Ends, Acquiring, Client
  <1>5. ASSUME NEW p \in Pcm, OpenShape(p) PROVE (Orderly' => Orderly)
    <2>1. CASE OpenWalks(p)
      BY <2>1 DEF OpenWalks, Orderly, Gone, Leaked, Locks, Ends, Acquiring, Client
    <2>2. CASE OpenConnects(p) \/ OpenIdles(p, 1) \/ OpenIdles(p, 2) \/ OpenFails(p)
      BY <2>2 DEF OpenConnects, OpenIdles, OpenFails, Orderly, Gone, Leaked, Locks,
         Ends, Acquiring, Client
    <2>3. CASE OpenStarts(p)
      BY <2>3 DEF OpenStarts, StartsPcm, Orderly, Gone, Leaked, Locks, Ends, Acquiring,
         Client
    <2>4. QED
      BY <1>5, <2>1, <2>2, <2>3 DEF OpenShape
  <1>6. ASSUME SelectWalks PROVE (Orderly' => Orderly)
    BY <1>6 DEF SelectWalks, Orderly, Gone, Leaked, Locks, Ends, Acquiring, Client
  <1>7. ASSUME MainShape PROVE (Orderly' => Orderly)
    BY <1>7 DEF MainShape, MainWalks, MainSignals, MainDestroys, MainAgain, MainCloses,
       LinkEnds, MainStarts, StartsPcm, Orderly, Gone, Leaked, Locks, Ends, Acquiring,
       Client
  <1>8. QED
    BY <1>1, <1>2, <1>3, <1>4, <1>5, <1>6, <1>7 DEF Shape

\* BlueZ tells of one start at a time.
LEMMA SignalsKept ==
  ASSUME Types, Signals, Ends, Starts, Threads, Orderly, Reclaimed,
         Orderly',
         profile = "source", profile' = profile
  PROVE  Shape => Signals'
  <1> USE Names DEF Types, DataTyped, TransportType, BlueZType, Pcm, Mutex, SameData,
              SamePcm, SameFlag, SameLink, SameBlueZ, SameLock, SamePc, Moves, Frees, Takes,
              Ready, Fewer
  <1>1. ASSUME Quiet PROVE Signals'
    BY <1>1 DEF Quiet, Signals, Pending, Ends, Starts, Threads, Orderly, Gone,
       Reclaimed, Ending
  <1>2. ASSUME NEW p \in Pcm, IoShape(p) PROVE Signals'
    BY <1>2 DEF IoShape, IoWalks, IoBtReleases, IoReleases, Signals, Pending, Ends,
       Starts, Threads, Orderly, Gone, Reclaimed, Ending
  <1>3. ASSUME NEW th \in Stopper, StopShape(th) PROVE Signals'
    BY <1>3 DEF Stopper, StopShape, Flags, IoFlagged, Joins, Marks, Cancels, AfterAsync,
       Signals, Pending, Ends, Starts, Threads, Orderly, Gone, Reclaimed, Ending
  <1>4. ASSUME ManagerShape PROVE Signals'
    BY <1>4 DEF ManagerShape, ManagerWalks, ManagerReads, ManagerFlags, ManagerEnds,
       PcmEnds, AfterStop, Signals, Pending, Ends, Starts, Threads, Orderly, Gone,
       Reclaimed, Ending
  <1>5. ASSUME NEW p \in Pcm, OpenShape(p) PROVE Signals'
    <2>1. CASE OpenWalks(p)
      BY <2>1 DEF OpenWalks, Signals, Pending, Ends, Starts, Threads, Orderly, Gone,
         Reclaimed, Ending
    <2>2. CASE OpenConnects(p) \/ OpenIdles(p, 1) \/ OpenIdles(p, 2) \/ OpenFails(p)
      BY <2>2 DEF OpenConnects, OpenIdles, OpenFails, Signals, Pending, Ends, Starts,
         Threads, Orderly, Gone, Reclaimed, Ending
    <2>3. CASE OpenStarts(p)
      BY <2>3 DEF OpenStarts, StartsPcm, Signals, Pending, Ends, Starts, Threads,
         Orderly, Gone, Reclaimed, Ending
    <2>4. QED
      BY <1>5, <2>1, <2>2, <2>3 DEF OpenShape
  <1>6. ASSUME SelectWalks PROVE Signals'
    BY <1>6 DEF SelectWalks, Signals, Pending, Ends, Starts, Threads, Orderly, Gone,
       Reclaimed, Ending
  <1>7. ASSUME MainShape PROVE Signals'
    BY <1>7 DEF MainShape, MainWalks, MainSignals, MainDestroys, MainAgain, MainCloses,
       LinkEnds, MainStarts, StartsPcm, Signals, Pending, Ends, Starts, Threads,
       Orderly, Gone, Reclaimed, Ending
  <1>8. QED
    BY <1>1, <1>2, <1>3, <1>4, <1>5, <1>6, <1>7 DEF Shape

\* While an A2DP source is being acquired, only the main loop stops its threads.
LEMMA SourceStopsKept ==
  ASSUME Types, SourceStops, Locks, OneStop, Starts, Threads,
         \A p \in Pcm : Idle(p) => Ready(p),
         t.bt_fd = "none" => t.a2dp = "idle",
         pc[Main] \in {"start", "start1", "start2"} => t.a2dp = "active",
         \A p, q \in Pcm : Fresh(p) => pc[Io(q)] = "none",
         profile = "source", profile' = profile
  PROVE  Shape => SourceStops'
  <1> USE Names DEF Types, DataTyped, TransportType, BlueZType, Pcm, Mutex, SameData,
              SamePcm, SameFlag, SameLink, SameBlueZ, SameLock, SamePc, Moves, Frees, Takes,
              Ready, Fewer
  <1>1. ASSUME Quiet PROVE SourceStops'
    BY <1>1 DEF Quiet, SourceStops, Locks, OneStop, Starts, Threads, BothIdle, Fresh,
       InStop, Acquiring, Cancelling, Client
  <1>2. ASSUME NEW p \in Pcm, IoShape(p) PROVE SourceStops'
    BY <1>2 DEF IoShape, IoWalks, IoBtReleases, IoReleases, SourceStops, Locks, OneStop,
       Starts, Threads, BothIdle, Fresh, InStop, Acquiring, Cancelling, Client
  <1>3. ASSUME NEW th \in Stopper, StopShape(th) PROVE SourceStops'
    BY <1>3 DEF Stopper, StopShape, Flags, IoFlagged, Joins, Marks, Cancels, AfterAsync,
       SourceStops, Locks, OneStop, Starts, Threads, BothIdle, Fresh, InStop, Acquiring,
       Cancelling, Client
  <1>4. ASSUME ManagerShape PROVE SourceStops'
    BY <1>4 DEF ManagerShape, ManagerWalks, ManagerReads, ManagerFlags, ManagerEnds,
       PcmEnds, AfterStop, SourceStops, Locks, OneStop, Starts, Threads, BothIdle,
       Fresh, InStop, Acquiring, Cancelling, Client
  <1>5. ASSUME NEW p \in Pcm, OpenShape(p) PROVE SourceStops'
    <2>1. CASE OpenWalks(p)
      BY <2>1 DEF OpenWalks, SourceStops, Locks, OneStop, Starts, Threads, BothIdle,
         Fresh, InStop, Acquiring, Cancelling, Client
    <2>2. CASE OpenConnects(p) \/ OpenIdles(p, 1) \/ OpenIdles(p, 2) \/ OpenFails(p)
      BY <2>2 DEF OpenConnects, OpenIdles, OpenFails, SourceStops, Locks, OneStop,
         Starts, Threads, BothIdle, Fresh, InStop, Acquiring, Cancelling, Client
    <2>3. CASE OpenStarts(p)
      BY <2>3 DEF OpenStarts, StartsPcm, SourceStops, Locks, OneStop, Starts, Threads,
         BothIdle, Fresh, InStop, Acquiring, Cancelling, Client
    <2>4. QED
      BY <1>5, <2>1, <2>2, <2>3 DEF OpenShape
  <1>6. ASSUME SelectWalks PROVE SourceStops'
    BY <1>6 DEF SelectWalks, SourceStops, Locks, OneStop, Starts, Threads, BothIdle,
       Fresh, InStop, Acquiring, Cancelling, Client
  <1>7. ASSUME MainShape PROVE SourceStops'
    BY <1>7 DEF MainShape, MainWalks, MainSignals, MainDestroys, MainAgain, MainCloses,
       LinkEnds, MainStarts, StartsPcm, SourceStops, Locks, OneStop, Starts, Threads,
       BothIdle, Fresh, InStop, Acquiring, Cancelling, Client
  <1>8. QED
    BY <1>1, <1>2, <1>3, <1>4, <1>5, <1>6, <1>7 DEF Shape

\* The socket is acquired again when no thread is left.
LEMMA ReclaimedKept ==
  ASSUME Types, Reclaimed, Locks, OneStop, Starts, Threads, Ends, Orderly,
         Orderly',
         profile = "source" => Signals /\ SourceStops,
         profile = "ag" => AgStops, profile' = profile
  PROVE  Shape => Reclaimed'
  <1> USE Names DEF Types, DataTyped, TransportType, BlueZType, Pcm, Mutex, SameData,
              SamePcm, SameFlag, SameLink, SameBlueZ, SameLock, SamePc, Moves, Frees, Takes,
              Ready, Fewer
  <1>1. ASSUME Quiet PROVE Reclaimed'
    BY <1>1 DEF Quiet, Reclaimed, Locks, OneStop, Starts, Starting, Threads, Using,
       Ends, Orderly, Gone, Leaked, Signals, SourceStops, AgStops, BothIdle, Fresh,
       InStop, Acquiring, Cancelling, Marking, Ending, Client
  <1>2. ASSUME NEW p \in Pcm, IoShape(p) PROVE Reclaimed'
    BY <1>2 DEF IoShape, IoWalks, IoBtReleases, IoReleases, Reclaimed, Locks, OneStop,
       Starts, Starting, Threads, Using, Ends, Orderly, Gone, Leaked, Signals,
       SourceStops, AgStops, BothIdle, Fresh, InStop, Acquiring, Cancelling, Marking,
       Ending, Client
  <1>3. ASSUME NEW th \in Stopper, StopShape(th) PROVE Reclaimed'
    BY <1>3 DEF Stopper, StopShape, Flags, IoFlagged, Joins, Marks, Cancels, AfterAsync,
       Reclaimed, Locks, OneStop, Starts, Starting, Threads, Using, Ends, Orderly, Gone,
       Leaked, Signals, SourceStops, AgStops, BothIdle, Fresh, InStop, Acquiring,
       Cancelling, Marking, Ending, Client
  <1>4. ASSUME ManagerShape PROVE Reclaimed'
    BY <1>4 DEF ManagerShape, ManagerWalks, ManagerReads, ManagerFlags, ManagerEnds,
       PcmEnds, AfterStop, Reclaimed, Locks, OneStop, Starts, Starting, Threads, Using,
       Ends, Orderly, Gone, Leaked, Signals, SourceStops, AgStops, BothIdle, Fresh,
       InStop, Acquiring, Cancelling, Marking, Ending, Client
  <1>5. ASSUME NEW p \in Pcm, OpenShape(p) PROVE Reclaimed'
    <2>1. CASE OpenWalks(p)
      BY <2>1 DEF OpenWalks, Reclaimed, Locks, OneStop, Starts, Starting, Threads,
         Using, Ends, Orderly, Gone, Leaked, Signals, SourceStops, AgStops, BothIdle,
         Fresh, InStop, Acquiring, Cancelling, Marking, Ending, Client
    <2>2. CASE OpenConnects(p) \/ OpenIdles(p, 1) \/ OpenIdles(p, 2) \/ OpenFails(p)
      BY <2>2 DEF OpenConnects, OpenIdles, OpenFails, Reclaimed, Locks, OneStop, Starts,
         Starting, Threads, Using, Ends, Orderly, Gone, Leaked, Signals, SourceStops,
         AgStops, BothIdle, Fresh, InStop, Acquiring, Cancelling, Marking, Ending,
         Client
    <2>3. CASE OpenStarts(p)
      BY <2>3 DEF OpenStarts, StartsPcm, Reclaimed, Locks, OneStop, Starts, Starting,
         Threads, Using, Ends, Orderly, Gone, Leaked, Signals, SourceStops, AgStops,
         BothIdle, Fresh, InStop, Acquiring, Cancelling, Marking, Ending, Client
    <2>4. QED
      BY <1>5, <2>1, <2>2, <2>3 DEF OpenShape
  <1>6. ASSUME SelectWalks PROVE Reclaimed'
    BY <1>6 DEF SelectWalks, Reclaimed, Locks, OneStop, Starts, Starting, Threads,
       Using, Ends, Orderly, Gone, Leaked, Signals, SourceStops, AgStops, BothIdle,
       Fresh, InStop, Acquiring, Cancelling, Marking, Ending, Client
  <1>7. ASSUME MainShape PROVE Reclaimed'
    BY <1>7 DEF MainShape, MainWalks, MainSignals, MainDestroys, MainAgain, MainCloses,
       LinkEnds, MainStarts, StartsPcm, Reclaimed, Locks, OneStop, Starts, Starting,
       Threads, Using, Ends, Orderly, Gone, Leaked, Signals, SourceStops, AgStops,
       BothIdle, Fresh, InStop, Acquiring, Cancelling, Marking, Ending, Client
  <1>8. QED
    BY <1>1, <1>2, <1>3, <1>4, <1>5, <1>6, <1>7 DEF Shape

\* While a hands-free gateway is being acquired, only SelectCodec() stops its threads.
LEMMA AgStopsKept ==
  ASSUME Types, Labels, Locks, Ends, ~Gone, profile = "ag", profile' = profile, AgStops,
         \A p, q \in Pcm : Fresh(p) => pc[Io(q)] = "none"
  PROVE  Shape => AgStops'
  <1> DEFINE same == /\ \A p \in Pcm : Fresh(p)' => Fresh(p) \/ ~t.stopping
                     /\ pc'[Select] = pc[Select]
  <1>a. same /\ t'.stopping = t.stopping => AgStops'
    BY DEF AgStops, InStop
  <1>m. pc[Main] # "async"
    BY DEF Ends
  <1>l. /\ pc[Manager] = "check" => lock["client1"] = Manager /\ lock["client2"] = Manager
        /\ \A p \in Pcm : Fresh(p) => lock[Client(p)] = Open(p)
    BY DEF Locks, Fresh, Acquiring
  <1> USE Names DEF Types, Pcm, SameData, SameFlag, SameLock, SamePc, Moves
  <1>1. ASSUME Quiet PROVE AgStops'
    BY <1>1 DEF Quiet, AgStops, Fresh, InStop
  <1>2. ASSUME NEW p \in Pcm, IoShape(p) PROVE AgStops'
    BY <1>2, <1>a DEF IoShape, IoWalks, IoBtReleases, IoReleases, Fresh
  <1>3. ASSUME NEW th \in Stopper, StopShape(th) PROVE AgStops'
    BY <1>3, <1>m DEF Stopper, StopShape, Flags, IoFlagged, Joins, Marks, Cancels,
       AfterAsync, AgStops, Fresh, InStop
  <1>4. ASSUME ManagerShape PROVE AgStops'
    BY <1>4, <1>l DEF ManagerShape, ManagerWalks, ManagerReads, ManagerFlags, ManagerEnds,
       PcmEnds, AfterStop, AgStops, Fresh, InStop, Client
  <1>5. ASSUME NEW p \in Pcm, OpenShape(p) PROVE AgStops'
    <2>1. same
      BY <1>5 DEF OpenShape, OpenWalks, OpenConnects, OpenIdles, OpenStarts, OpenFails,
         StartsPcm, Fresh
    <2>2. t'.stopping = t.stopping
      BY <1>5 DEF OpenShape, OpenWalks, OpenConnects, OpenIdles, OpenStarts, OpenFails,
         StartsPcm
    <2>3. QED
      BY <2>1, <2>2, <1>a
  <1>6. ASSUME SelectWalks PROVE AgStops'
    BY <1>6 DEF SelectWalks, AgStops, Fresh, InStop
  <1>7. ASSUME MainShape PROVE AgStops'
    BY <1>7 DEF MainShape, MainWalks, MainSignals, MainDestroys, MainAgain, MainCloses,
       LinkEnds, MainStarts, StartsPcm, AgStops, Fresh, InStop
  <1>8. QED
    BY <1>1, <1>2, <1>3, <1>4, <1>5, <1>6, <1>7 DEF Shape

----------------------------------------------------------------------------
(* Every step has a shape *)

\* Every step has one of the shapes.
LEMMA NextShape ==
  ASSUME Types, [Next]_vars
  PROVE  Stays /\ Shape
  <1> USE DEF Shape
  <1>1. 1 \in Pcm /\ 2 \in Pcm /\ Main \in Stopper /\ Select \in Stopper
        /\ \A p \in Pcm : Io(p) \in Stopper
    BY DEF Pcm, Stopper
  <1>2. ASSUME NEW p \in Pcm, IoStep(p) \/ IoInitFails(p) PROVE Stays /\ Shape
    BY <1>1, <1>2, IoSteps, StopSteps DEF IoStep
  <1>3. ASSUME ManagerStep PROVE Stays /\ Shape
    BY <1>3, ManagerSteps DEF ManagerStep
  <1>4. ASSUME NEW p \in Pcm, OpenStep(p) \/ OpenCall(p) \/ ClientCloses(p)
        PROVE  Stays /\ Shape
    BY <1>4, OpenSteps DEF OpenStep
  <1>5. ASSUME SelectStep \/ SelectCall PROVE Stays /\ Shape
    BY <1>1, <1>5, SelectSteps, StopSteps DEF SelectStep
  <1>6. ASSUME MainStep \/ MainDrain \/ MainDestroy \/ LinkLost PROVE Stays /\ Shape
    BY <1>1, <1>6, MainSteps, StopSteps DEF MainStep
  <1>7. ASSUME UNCHANGED vars PROVE Stays /\ Shape
    BY <1>7 DEF vars, Stays, Types, PcmTyped, DataTyped, Quiet, SameData, SamePcm, SameFlag,
       SameLink, SameBlueZ, SameLock, SamePc, NoneStarted, Idle, Ready, State
  <1>8. QED
    BY <1>2, <1>3, <1>4, <1>5, <1>6, <1>7 DEF Next, Environment, Daemon

----------------------------------------------------------------------------
(* The invariant is inductive *)

LEMMA InvInit == TransportAssumption /\ Init => Inv
  <1> SUFFICES ASSUME TransportAssumption, Init PROVE Inv
    OBVIOUS
  <1>1. profile \in {"source", "ag"}
    BY DEF Init, TransportAssumption
  <1>2. /\ pc = [o \in Thread |-> pc[o]] /\ pc[Main] = "poll" /\ pc[Manager] = "poll"
        /\ pc[Select] = "none"
        /\ \A p \in Pcm : pc[Io(p)] = "none" /\ pc[Open(p)] = "none"
    BY Names DEF Init, Pcm
  <1>3. /\ t \in TransportType /\ t.pipe = << >> /\ ~t.stopping /\ t.bt_fd = "none"
        /\ t.a2dp = "idle"
    BY Pipes DEF Init, TransportType
  <1>4. bluez \in BlueZType /\ bluez.state = "idle" /\ bluez.signals = << >> /\ ret = "poll"
    BY Pipes DEF Init, BlueZType
  <1>5. PcmTyped /\ \A p \in Pcm : State(p) = "TERMINATED" /\ ~pcm[p].fd_bt
    BY Pipes DEF Init, PcmTyped, PcmType, State
  <1>6. lock \in [Mutex -> Thread \cup {None}] /\ \A m \in Mutex : lock[m] = None
    BY DEF Init, Mutex
  <1>7. Types
    BY <1>1, <1>2, <1>3, <1>4, <1>5, <1>6
       DEF Types, DataTyped, Labels, IoLabel, MainLabel, ManagerLabel, OpenLabel,
           SelectLabel
  <1>8. Locks /\ Starts /\ Ends
    <2>1. Locks
      BY <1>2 DEF Locks, Acquiring
    <2>2. ~Leaked
      BY <1>6, Names DEF Leaked, Mutex, Pcm
    <2>3. Starts
      BY <1>2, <1>4, <2>2 DEF Starts, Starting
    <2>4. Ends
      BY <1>2, <1>3, <1>4 DEF Ends, Gone
    <2>5. QED
      BY <2>1, <2>3, <2>4
  <1>9. OneStop
    <2>1. ~Has(<< >>, "cancel") /\ Once(<< >>, "cancel")
      BY DEF Has, Once
    <2>2. \A th \in Thread : ~Marking(th)
      BY <1>2, Names DEF Marking, Pcm
    <2>3. ~Sent /\ ~Cancelling /\ Once(t.pipe, "cancel")
      BY <1>2, <1>3, <2>1 DEF Sent, Cancelling
    <2>4. QED
      BY <2>2, <2>3 DEF OneStop
  <1>10. Threads
    BY <1>2, <1>5 DEF Threads, Using, Ready, Pcm
  <1>11. Reclaimed /\ AgStops
    <2>1. pc[Io(1)] = "none" /\ pc[Io(2)] = "none" /\ \A p \in Pcm : ~Fresh(p)
      BY <1>2 DEF Pcm, Fresh
    <2>2. QED
      BY <1>2, <2>1 DEF Reclaimed, AgStops, Ending
  <1>12. Signals /\ SourceStops
    BY <1>2, <1>3, <1>4, <1>5
       DEF Signals, SourceStops, Pending, Has, Once, BothIdle, Idle, Fresh, Pcm
  <1>13. QED
    BY <1>7, <1>8, <1>9, <1>10, <1>11, <1>12 DEF Inv

LEMMA InvStep ==
  ASSUME Inv, [Next]_vars
  PROVE  Inv'
  <1>1. Types /\ Labels /\ Locks /\ OneStop /\ Threads /\ Starts /\ Ends
    BY DEF Inv, Types
  <1>2. Stays /\ Shape /\ profile' = profile
    BY <1>1, NextShape DEF Stays
  <1>3. Types'
    BY <1>1, <1>2, LabelsKept DEF Stays, Types
  <1>4. Locks' /\ OneStop' /\ Threads' /\ Starts' /\ Ends' /\ (Orderly' => Orderly)
    BY <1>1, <1>2, LocksKept, OneStopKept, ThreadsKept, StartsKept, EndsKept, OrderlyKept
  <1>5. ASSUME Orderly'
        PROVE  /\ Reclaimed'
               /\ profile' = "source" => Signals' /\ SourceStops'
               /\ profile' = "ag" => AgStops'
    <2>1. /\ Orderly /\ Reclaimed /\ ~Gone
          /\ profile = "source" => Signals /\ SourceStops
          /\ profile = "ag" => AgStops
      BY <1>4, <1>5 DEF Inv, Orderly
    <2>2. \A p, q \in Pcm : Fresh(p) => pc[Io(q)] = "none"
      BY <2>1 DEF Reclaimed
    <2>3. Reclaimed'
      BY <1>1, <1>2, <1>5, <2>1, ReclaimedKept
    <2>4. ASSUME profile = "source" PROVE Signals' /\ SourceStops'
      <3>1. \A p \in Pcm : Idle(p) => Ready(p)
        BY DEF Idle, Ready
      <3>2. /\ t.bt_fd = "none" => t.a2dp = "idle"
            /\ pc[Main] \in {"start", "start1", "start2"} => t.a2dp = "active"
        BY <2>1, <2>4 DEF Signals
      <3>3. QED
        BY <1>1, <1>2, <1>5, <2>1, <2>2, <2>4, <3>1, <3>2, SignalsKept, SourceStopsKept
    <2>5. ASSUME profile = "ag" PROVE AgStops'
      BY <1>1, <1>2, <2>1, <2>2, <2>5, AgStopsKept
    <2>6. QED
      BY <1>2, <2>3, <2>4, <2>5
  <1>6. QED
    BY <1>3, <1>4, <1>5 DEF Inv

----------------------------------------------------------------------------
(* The theorem *)

\* The action of ReclaimedFirst.
Reclaims ==
  /\ t.bt_fd = "none" /\ t'.bt_fd # "none" =>
       \A p \in Pcm : pc[Io(p)] = "none" /\ ~pcm[p].fd_bt
  /\ \A p \in Pcm : State(p)' = "STARTING" /\ State(p) # "STARTING" => pc[Io(p)] = "none"

LEMMA OnlyOpenConnects ==
  ASSUME t.bt_fd = "none", t'.bt_fd # "none"
  PROVE  Shape => \E q \in Pcm : OpenConnects(q)
  <1>1. ASSUME Quiet PROVE FALSE
    BY <1>1 DEF Quiet, SameData, SameLink
  <1>2. ASSUME NEW p \in Pcm, IoShape(p) PROVE FALSE
    BY <1>2 DEF IoShape, IoWalks, IoBtReleases, IoReleases, SameData, SameLink
  <1>3. ASSUME NEW th \in Stopper, StopShape(th) PROVE FALSE
    BY <1>3 DEF Stopper, StopShape, Flags, IoFlagged, Joins, Marks, Cancels, SameData,
       SameLink
  <1>4. ASSUME ManagerShape PROVE FALSE
    BY <1>4 DEF ManagerShape, ManagerWalks, ManagerReads, ManagerFlags, ManagerEnds,
       PcmEnds, SameData, SameLink
  <1>5. ASSUME NEW p \in Pcm, OpenShape(p) PROVE \E q \in Pcm : OpenConnects(q)
    BY <1>5 DEF OpenShape, OpenWalks, OpenIdles, OpenStarts, OpenFails, StartsPcm,
       SameData, SameLink
  <1>6. ASSUME SelectWalks PROVE FALSE
    BY <1>6 DEF SelectWalks, SameData, SameLink
  <1>7. ASSUME MainShape PROVE FALSE
    BY <1>7 DEF MainShape, MainWalks, MainSignals, MainDestroys, MainAgain, MainCloses,
       LinkEnds, MainStarts, StartsPcm, SameData, SameLink
  <1>8. QED
    BY <1>1, <1>2, <1>3, <1>4, <1>5, <1>6, <1>7 DEF Shape

LEMMA OnlyStarts ==
  ASSUME NEW p \in Pcm, State(p)' = "STARTING", State(p) # "STARTING", Starts
  PROVE  Shape => Ready(p)
  <1>1. ASSUME Quiet PROVE FALSE
    BY <1>1 DEF Quiet, SameData, SamePcm, NoneStarted
  <1>2. ASSUME NEW q \in Pcm, IoShape(q) PROVE FALSE
    BY <1>2 DEF IoShape, IoWalks, IoBtReleases, IoReleases, SameData, SamePcm,
       NoneStarted
  <1>3. ASSUME NEW th \in Stopper, StopShape(th) PROVE FALSE
    BY <1>3 DEF Stopper, StopShape, Flags, IoFlagged, Joins, Marks, Cancels, SameData,
       SamePcm, NoneStarted
  <1>4. ASSUME ManagerShape PROVE FALSE
    BY <1>4 DEF ManagerShape, ManagerWalks, ManagerReads, ManagerFlags, ManagerEnds,
       PcmEnds, SameData, SamePcm, NoneStarted
  <1>5. ASSUME NEW q \in Pcm, OpenShape(q) PROVE Ready(p)
    BY <1>5 DEF OpenShape, OpenWalks, OpenConnects, OpenIdles, OpenStarts, OpenFails,
       StartsPcm, SameData, SamePcm, NoneStarted, Starts, Starting, Pcm
  <1>6. ASSUME SelectWalks PROVE FALSE
    BY <1>6 DEF SelectWalks, SameData, SamePcm, NoneStarted
  <1>7. ASSUME MainShape PROVE Ready(p)
    BY <1>7 DEF MainShape, MainWalks, MainSignals, MainDestroys, MainAgain, MainCloses,
       LinkEnds, MainStarts, StartsPcm, SameData, SamePcm, NoneStarted, Starts,
       Starting, Pcm
  <1>8. QED
    BY <1>1, <1>2, <1>3, <1>4, <1>5, <1>6, <1>7 DEF Shape

LEMMA StepReclaims ==
  ASSUME Inv, [Next]_vars
  PROVE  Reclaims
  <1>1. /\ Types /\ Locks /\ Threads /\ Starts /\ Shape
        /\ Orderly => Reclaimed
    BY NextShape DEF Inv
  <1>2. t.bt_fd = "none" /\ t'.bt_fd # "none" => \E p \in Pcm : OpenConnects(p)
    BY <1>1, OnlyOpenConnects
  <1>3. ASSUME NEW p \in Pcm, OpenConnects(p)
        PROVE  \A q \in Pcm : pc[Io(q)] = "none" /\ ~pcm[q].fd_bt
    <2>1. pc[Open(p)] = "socket" /\ bluez.state = "idle" /\ t.bt_fd = "none" /\ ~t.stopping
      BY <1>3 DEF OpenConnects
    <2>2. lock["acquisition"] = Open(p)
      BY <1>1, <2>1 DEF Locks, Acquiring
    <2>3. Orderly
      BY <2>1, <2>2, Names DEF Orderly, Gone, Leaked, Acquiring
    <2>4. \A q \in Pcm : pc[Io(q)] = "none"
      BY <1>1, <2>1, <2>3 DEF Reclaimed
    <2>5. QED
      BY <1>1, <2>4 DEF Threads, Using
  <1>4. ASSUME NEW p \in Pcm, State(p)' = "STARTING", State(p) # "STARTING"
        PROVE  pc[Io(p)] = "none"
    <2>1. Ready(p)
      BY <1>1, <1>4, OnlyStarts
    <2>2. QED
      BY <1>1, <2>1 DEF Threads
  <1>5. QED
    BY <1>2, <1>3, <1>4 DEF Reclaims

LEMMA SpecInv == Spec => []Inv
  <1>1. Init => Inv
    BY TransportAssumption, InvInit
  <1>2. Inv /\ [Next]_vars => Inv'
    BY InvStep
  <1>3. QED
    BY <1>1, <1>2, PTL DEF Spec

\* ReclaimedFirst, for every load: whatever calls of Open() and SelectCodec(), ends
\* of clients, losses of the link and disconnections come, and however the threads
\* of the daemon interleave, a socket is acquired only when no IO thread is left and
\* none holds a duplicate of the old socket, and a thread is started only where none
\* is (transport_acquire_bt_a2dp(), transport_acquire_bt_sco(),
\* ba_transport_pcm_start()).
THEOREM SocketIsReclaimed == Spec => ReclaimedFirst
  <1>1. Inv /\ [Next]_vars => [Reclaims]_<<pcm, t>>
    BY StepReclaims
  <1>2. [][Reclaims]_<<pcm, t>> => ReclaimedFirst
    BY PTL DEF ReclaimedFirst, Reclaims
  <1>3. QED
    BY <1>1, <1>2, SpecInv, PTL DEF Spec

============================================================================
