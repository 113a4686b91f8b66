------------------------------ MODULE MCBluez ------------------------------
(* What the daemon keeps about adapters and devices, and what it tells and asks
   BlueZ about endpoints.  An instance is the sum of the two: each behaviour is
   one of a single part, named by the variable `part`, while the other stays
   where it begins. *)
EXTENDS BaDevices, BaBluez

VARIABLE part

vars == <<part, devVars, bluezVars>>

Init ==
  \/ part = "devices" /\ DevInit /\ BluezInit /\ budget = CHOOSE b \in Budgets : TRUE
  \/ part = "bluez" /\ BluezInit /\ DevInit /\ load = CHOOSE l \in DeviceLoads : TRUE

Dev  == part = "devices" /\ DevNext /\ UNCHANGED <<part, bluezVars>>
Bus  == part = "bluez" /\ BluezNext /\ UNCHANGED <<part, devVars>>

Next == Dev \/ Bus

Spec == Init /\ [][Next]_vars /\ BluezFairness

----------------------------------------------------------------------------

L(adapters, connections, calls, links, settings, batteries) ==
  [adapters |-> adapters, connections |-> connections, calls |-> calls, links |-> links,
   settings |-> settings, batteries |-> batteries]

\* An adapter that comes back with a client's call, a headset link and a setting; a
\* link with a battery; three connections; two links with a setting.
MCLoads == {L(2, 2, 1, 1, 1, 0), L(2, 2, 0, 1, 0, 1), L(2, 3, 1, 0, 1, 0), L(1, 3, 0, 2, 1, 0)}

N(starts, adapters, ends, connects, disconnects, forgets, refusals, timeouts, delays, selects) ==
  [starts |-> starts, adapters |-> adapters, ends |-> ends, connects |-> connects,
   disconnects |-> disconnects, forgets |-> forgets, refusals |-> refusals, timeouts |-> timeouts,
   delays |-> delays, selects |-> selects]

Remote(c, i) == [codec |-> c, id |-> i]

MCRemoteSeps == {Remote(1, 1), Remote(2, 2)}
MCOffers == "x1" :> {Remote(1, 1), Remote(2, 2)} @@ "x2" :> {Remote(1, 1)}

\* Two devices on endpoints of one codec while a client selects the other one;
\* BlueZ and its adapter gone and back; refusals and late answers; a change of
\* the delay while a client selects; end-points that vanish while it does.
MCBudgets ==
  {N(1, 1, 0, 2, 1, 0, 0, 0, 0, 1),
   N(2, 2, 1, 1, 0, 0, 0, 0, 0, 0),
   N(1, 1, 1, 1, 0, 0, 0, 0, 0, 1),
   N(1, 1, 0, 1, 0, 0, 1, 1, 0, 1),
   N(1, 1, 0, 2, 1, 0, 1, 1, 0, 0),
   N(1, 1, 0, 1, 1, 0, 0, 0, 1, 1),
   N(1, 1, 0, 1, 0, 1, 0, 0, 0, 1)}

=============================================================================
