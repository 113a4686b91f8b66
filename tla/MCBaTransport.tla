--------------------------- MODULE MCBaTransport ---------------------------
(* Instances of BaTransport. *)
EXTENDS BaTransport

Load(p, o, e) == [profile |-> p, opens |-> o, events |-> e]

\* Two or three calls of Open() undisturbed, or one of them disturbed.
MCLoads ==
  { Load("source", 2, 0), Load("ag", 3, 0), Load("source", 1, 2), Load("ag", 1, 1) }

\* A client of each PCM, and no disturbance.
TwoClients == { Load("source", 2, 0) }

============================================================================
