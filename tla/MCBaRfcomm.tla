----------------------------- MODULE MCBaRfcomm -----------------------------
(* Instances of BaRfcomm. *)
EXTENDS BaRfcomm

Codecs(ag, hf) == [e \in Ends |-> {Cvsd} \cup IF e = "ag" THEN ag ELSE hf]

\* A connection with s calls of SelectCodec() and u updates, undisturbed.
Between(ag, hf, s, u) ==
  [ hsp |-> FALSE, battery |-> FALSE, selects |-> s, updates |-> u, refusals |-> 0,
    ignores |-> 0, up |-> TRUE, loss |-> FALSE, own |-> Codecs(ag, hf) ]

Plain == Between({}, {}, 0, 1)
Both == Between({2}, {2}, 0, 1)

\* A telephone that ignores one command.
Deaf == { [Plain EXCEPT !.ignores = 1, !.updates = 0] }

MCLinks ==
  { Both, [Both EXCEPT !.selects = 2, !.updates = 0], [Both EXCEPT !.battery = TRUE],
    [Both EXCEPT !.updates = 2],
    [Plain EXCEPT !.hsp = TRUE], [Plain EXCEPT !.selects = 1],
    Between({2}, {3}, 1, 0), Between({2}, {}, 1, 0), Between({}, {2}, 1, 0),
    [Both EXCEPT !.refusals = 4, !.updates = 0],
    [Both EXCEPT !.selects = 1, !.updates = 0, !.loss = TRUE] }
  \cup Deaf

============================================================================
