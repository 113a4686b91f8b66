----------------------------- MODULE StatusBar -----------------------------
(***************************************************************************)
(* utils/dwm-status-bar.sh: the "start" process measures the system, puts  *)
(* the result into the name of the root window (which dwm shows) and       *)
(* sleeps ten seconds; every volume key of vendors/dwm/config.h changes    *)
(* the volume and runs "refresh", which kills the sleep of "start" so that *)
(* it measures again.  The processes share nothing but the process table.  *)
(*                                                                         *)
(* vol counts the changes of the volume, so that a value says how recent   *)
(* it is; the other measurements change nothing that a property looks at.  *)
(***************************************************************************)
EXTENDS Naturals, FiniteSets

CONSTANTS
  Refresher,  \* processes of "refresh", one for each press of a volume key
  Within      \* those whose process id occurs, as text, in the id of "start"

ASSUME RefresherAssumption == Within \subseteq Refresher

StartPid == <<"start", 0>>
Sub   == <<"sub", 0>>  \* a $(...) subshell of "start", with the same command line

VARIABLES
  vol,      \* the volume, as the number of its last change
  name,    \* the volume in the name of the root window
  loop,     \* what the loop of "start" does: "begin", "read", "named", "sleep"
  taken,    \* the volume it has measured
  state,    \* each refresher: "none", "run", "listed", "done"
  shell,    \* refreshers whose sh -c "amixer ... && dwm-status-bar" stays alive
  pids      \* what pgrep found, without the ids that sed has destroyed

barVars == <<vol, name, loop, taken, state, shell, pids>>

BarInit ==
  /\ vol = 0 /\ name = 0 /\ taken = 0
  /\ loop = "begin"
  /\ state = [r \in Refresher |-> "none"]
  /\ shell = {} /\ pids = [r \in Refresher |-> {}]

Refreshing == {r \in Refresher : state[r] \in {"run", "listed"}}

\* The processes of which the command line contains dwm-status-bar.
Matching ==
  {StartPid} \cup (IF loop \in {"begin", "read"} THEN {Sub} ELSE {})
          \cup {<<"refresh", r>> : r \in Refreshing}
          \cup {<<"shell", r>> : r \in shell}

----------------------------------------------------------------------------
(* start *)

\* status: vol reads the mixer.
Read ==
  /\ loop = "begin"
  /\ loop' = "read" /\ taken' = vol
  /\ UNCHANGED <<vol, name, state, shell, pids>>

SetName ==
  /\ loop = "read"
  /\ loop' = "named" /\ name' = taken
  /\ UNCHANGED <<vol, taken, state, shell, pids>>

Sleep ==
  /\ loop = "named"
  /\ loop' = "sleep"
  /\ UNCHANGED <<vol, name, taken, state, shell, pids>>

\* Slip: the sleep does not end by itself.
WakeNever ==
  /\ loop = "sleep" /\ loop' = "begin" /\ Refreshing # {}
  /\ UNCHANGED <<vol, name, taken, state, shell, pids>>

\* REFRESH_RATE has passed.
Wake ==
  /\ loop = "sleep"
  /\ loop' = "begin"
  /\ UNCHANGED <<vol, name, taken, state, shell, pids>>

----------------------------------------------------------------------------
(* A volume key and refresh *)

\* dwm's child changes the volume and runs refresh; sh may or may not replace
\* itself by the last command of its list.
Press(r) ==
  /\ state[r] = "none"
  /\ vol' = vol + 1
  /\ state' = [state EXCEPT ![r] = "run"]
  /\ shell' \in {shell, shell \cup {r}}
  /\ UNCHANGED <<name, loop, taken, pids>>

\* pgrep -f; then sed removes every occurrence of the refresher's own id, from
\* other ids too.
ListPids(r) ==
  /\ state[r] = "run"
  /\ state' = [state EXCEPT ![r] = "listed"]
  /\ pids' = [pids EXCEPT ![r] =
                (Matching \ {<<"refresh", r>>})
                  \ (IF r \in Within THEN {StartPid} ELSE {})]
  /\ UNCHANGED <<vol, name, loop, taken, shell>>

\* pkill -P $target_pid sleep: with one id it kills the sleep of that process,
\* with several (the expansion is not quoted) or none it is a usage error.
Kill(r) ==
  /\ state[r] = "listed"
  /\ state' = [state EXCEPT ![r] = "done"]
  /\ shell' = shell \ {r}
  /\ IF pids[r] = {StartPid} /\ loop = "sleep"
     THEN loop' = "begin"
     ELSE UNCHANGED loop
  /\ pids' = [pids EXCEPT ![r] = {}]
  /\ UNCHANGED <<vol, name, taken>>

LoopStep == Read \/ SetName \/ Sleep \/ Wake

BarNext ==
  \/ LoopStep
  \/ \E r \in Refresher : Press(r) \/ ListPids(r) \/ Kill(r)

\* The script has no await of its own: the kernel runs it and ends the sleep.
BarSpec == BarInit /\ [][BarNext]_barVars /\ WF_barVars(LoopStep)

----------------------------------------------------------------------------

\* Whatever refreshes do or fail to do, the bar ends up right: when no key is
\* pressed any more it shows the volume and keeps showing it.
BarCatchesUp == \A n \in 0..Cardinality(Refresher) : <>[](vol = n) => <>[](name = n)

============================================================================
