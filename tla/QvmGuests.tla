----------------------------- MODULE QvmGuests -----------------------------
(***************************************************************************)
(* utils/qemu-vm-manager.sh, the machines that run: start gives a machine  *)
(* of mode ssh a port of the host, and writes the port into the name of    *)
(* its process; stop lists the processes, asks for the id of one, finds    *)
(* the port in the lines of the process list that contain the id, and      *)
(* sends the guest behind that port a shutdown command.                    *)
(*                                                                         *)
(* A machine stands for one start: it runs once, under one process id.     *)
(***************************************************************************)
EXTENDS Naturals, FiniteSets

CONSTANTS
  Vm,        \* the starts of machines
  Port,      \* ports of the host
  Console,  \* where stop is typed
  NoVm,      \* no machine
  Occurs,    \* the pairs of which the first one's id occurs in the second's line
  PortOf,    \* the port of each machine in mode ssh (--if ssh,port)
  Graphical  \* the machines started with --if graphical

ASSUME StartsAssumption ==
  /\ PortOf \in [Vm -> Port]
  /\ Occurs \subseteq Vm \X Vm
  /\ Graphical \subseteq Vm /\ NoVm \notin Vm

VARIABLES
  up,       \* the machines that run
  was,      \* those that have been started
  stopAt,       \* the step of each terminal's stop: "idle", "pid", "ssh"
  chosen,   \* the machine whose id was typed
  found,    \* what the lookup printed, one port per matching line of mode ssh
  hits      \* the shutdowns sent (history)

guestVars == <<up, was, stopAt, chosen, found, hits>>

GuestInit ==
  /\ up = {} /\ was = {} /\ hits = {}
  /\ stopAt = [t \in Console |-> "idle"]
  /\ chosen = [t \in Console |-> NoVm]
  /\ found = [t \in Console |-> {}]

----------------------------------------------------------------------------

\* start: qemu does not come up when the host's port is in use.
StartVm(v) ==
  /\ v \notin was
  /\ was' = was \cup {v}
  /\ up' = IF v \notin Graphical /\ \E w \in up \ Graphical : PortOf[w] = PortOf[v]
           THEN up ELSE up \cup {v}
  /\ UNCHANGED <<stopAt, chosen, found, hits>>

\* The guest powers off, or its window is closed.
PowerOff(v) ==
  /\ v \in up /\ up' = up \ {v}
  /\ UNCHANGED <<was, stopAt, chosen, found, hits>>

\* stop: status_vm prints the machines, and the user reads one of them off.
StopVm(t) ==
  /\ stopAt[t] = "idle"
  /\ \E v \in up : chosen' = [chosen EXCEPT ![t] = v]
  /\ stopAt' = [stopAt EXCEPT ![t] = "pid"]
  /\ UNCHANGED <<up, was, found, hits>>

\* ps aux | grep "$pid" | sed: every line that contains the id and "----".
Lookup(t) ==
  /\ stopAt[t] = "pid"
  /\ found' = [found EXCEPT ![t] =
       {w \in up \ Graphical : w = chosen[t] \/ <<chosen[t], w>> \in Occurs}]
  /\ stopAt' = [stopAt EXCEPT ![t] = "ssh"]
  /\ UNCHANGED <<up, was, chosen, hits>>

Record(t, w) == [chosen |-> chosen[t], hit |-> w, running |-> chosen[t] \in up]

\* Slip: of several lines the first one is taken.
SshFirst(t) ==
  /\ stopAt[t] = "ssh"
  /\ stopAt' = [stopAt EXCEPT ![t] = "idle"]
  /\ \/ \E f \in found[t], w \in up \ Graphical :
          PortOf[w] = PortOf[f] /\ hits' = hits \cup {Record(t, w)}
     \/ UNCHANGED hits
  /\ chosen' = [chosen EXCEPT ![t] = NoVm] /\ found' = [found EXCEPT ![t] = {}]
  /\ UNCHANGED <<up, was>>

\* ssh -p "$guest_ssh_port": several lines are no port, and none is none.  The
\* login may fail; the guest powers off later.
Ssh(t) ==
  /\ stopAt[t] = "ssh"
  /\ stopAt' = [stopAt EXCEPT ![t] = "idle"]
  /\ \/ \E f \in found[t], w \in up \ Graphical :
          /\ found[t] = {f} /\ PortOf[w] = PortOf[f]
          /\ hits' = hits \cup {Record(t, w)}
     \/ UNCHANGED hits
  /\ chosen' = [chosen EXCEPT ![t] = NoVm] /\ found' = [found EXCEPT ![t] = {}]
  /\ UNCHANGED <<up, was>>

GuestNext ==
  \/ \E v \in Vm : StartVm(v) \/ PowerOff(v)
  \/ \E t \in Console : StopVm(t) \/ Lookup(t) \/ Ssh(t)

GuestSpec == GuestInit /\ [][GuestNext]_guestVars

----------------------------------------------------------------------------

\* One machine per port, and no lookup of a machine that was never started.
GuestsTypeOK ==
  /\ up \subseteq was /\ was \subseteq Vm
  /\ \A v, w \in up \ Graphical : PortOf[v] = PortOf[w] => v = w
  /\ \A t \in Console : found[t] \subseteq was /\ (stopAt[t] # "idle" => chosen[t] \in was)

\* As long as the chosen machine runs in mode ssh, stop shuts down that machine
\* and no other, whatever else contains its id, starts or ends in between.
StopHitsChosen ==
  \A h \in hits : h.running /\ h.chosen \notin Graphical => h.hit = h.chosen

\* Machines share no port, and what stops one stops no other.
GuestsSafe == GuestsTypeOK /\ StopHitsChosen

============================================================================
