---------------------------- MODULE MCSequential ----------------------------
(* The screen of the terminal, the choice of a codec, and the coded streams of
   the daemon: three parts without concurrency of their own, that read nothing of
   each other but the sizes that follow from a configuration.  An instance is
   their sum: each behaviour is one of a single part, named by the variable
   `part`, while the others stay where they begin. *)
EXTENDS Terminal, A2dpSelect, A2dpStream

VARIABLE part

vars == <<part, termVars, selVars, streamVars>>

\* Where a part begins that does not run: one state is enough.
SomeSelection ==
  /\ codec = "Opus"
  /\ options = CHOOSE o \in Options(codec) : TRUE
  /\ end = [e \in Role |-> [ours |-> TRUE, caps |-> Ours(e, options, codec)]]

SomeStream == stream = CHOOSE s \in Streams : s.codec = "CVSD"

SomeScreen ==
  LET i == CHOOSE i \in Instances : TRUE
  IN  term = Fresh(i.row, i.col) /\ may = {} /\ did = "none" /\ steps = 0

Init ==
  \/ part = "screen" /\ TermInit /\ SomeSelection /\ SelInit /\ SomeStream /\ StreamInit
  \/ part = "selection" /\ SelInit /\ SomeScreen /\ SomeStream /\ StreamInit
  \/ part = "stream" /\ StreamInit /\ SomeScreen /\ SomeSelection /\ SelInit

Draw   == part = "screen" /\ TermNext /\ UNCHANGED <<part, selVars, streamVars>>
Select == part = "selection" /\ SelNext /\ UNCHANGED <<part, termVars, streamVars>>
Code   == part = "stream" /\ StreamNext /\ UNCHANGED <<part, termVars, selVars>>

Next == Draw \/ Select \/ Code

Spec == Init /\ [][Next]_vars

----------------------------------------------------------------------------

\* A screen of so many rows and columns, what was printed on it, and how many
\* steps of which kinds follow.
Shows(r, k, s, n, m) == [row |-> r, col |-> k, text |-> s, steps |-> n, may |-> m]

Themes == {
  \* reflow, of wide runes and of the line of the cursor
  Shows(2, 3, <<"a","b","c","d","LF","CR","b">>, 3, {"print", "control", "resize", "move"}),
  Shows(3, 2, <<"a","W","b","LF","CR","c","W">>, 3, {"print", "control", "resize", "index"}),
  Shows(2, 3, <<"a","b","c","d","a">>, 4, {"alt", "resize", "origin", "cursor", "reset", "view"}),
  Shows(2, 3, <<"a","b","c","W","a">>, 3, {"tab", "rep", "step", "modes", "region", "origin", "resize"}),
  \* the selection
  Shows(2, 2, <<"a","b","c","d","a">>, 4, {"print", "select", "index", "view"}),
  Shows(3, 2, <<"a","b","c","d","a">>, 3, {"select", "scroll", "lines", "view", "region"}),
  Shows(2, 2, <<"a","b","c","d","a">>, 4, {"select", "grow", "control", "view"}),
  Shows(2, 3, <<"a","b","c","W","a">>, 3, {"alt", "swap", "select", "index", "erase"}),
  \* reading the history, and what is drawn
  Shows(2, 2, <<"a","b","c","d","a","b">>, 4, {"view", "type", "erase", "print", "draw", "control", "scroll"}),
  Shows(2, 3, <<"a","b","c","d","a">>, 4, {"print", "rep", "erase", "shift", "index", "modes", "draw"}),
  Shows(3, 2, <<"a","b","W","LF","a">>, 3, {"erase", "align", "draw", "move", "control", "print", "lines"})}

\* A stream with frames of so many units and bytes, packets of mtu bytes and
\* total units to send, and at most so many faults of each kind.
S(name, frame, len, mtu, total, lost, drops, overruns, opens) ==
  [codec |-> name, frame |-> frame, len |-> len, mtu |-> mtu, dms |-> 100, marks |-> TRUE,
   total |-> total,
   most |-> [lost |-> lost, drops |-> drops, overruns |-> overruns, opens |-> opens]]

\* Frames that are packed, frames that are cut, packets that hold neither a whole
\* nor a half frame, and an AAC encoder that sets no mark.  Three packets in a
\* row are lost where frames are made up.
MCStreams ==
  {S("SBC", 2, 1, 2, 8, 1, 1, 1, 1),
   S("AAC", 2, 3, 2, 6, 1, 1, 0, 1),
   [S("AAC", 2, 1, 2, 8, 1, 0, 0, 0) EXCEPT !.marks = FALSE],
   S("MPEG", 2, 3, 2, 6, 1, 1, 0, 1),
   S("LC3plus", 1, 1, 4, 6, 2, 1, 0, 0),
   S("LC3plus", 2, 5, 2, 6, 2, 0, 0, 1),
   S("LC3plus", 2, 5, 2, 8, 3, 0, 0, 0),
   S("LDAC", 1, 1, 3, 5, 1, 1, 1, 0),
   S("Opus", 2, 1, 2, 6, 1, 1, 1, 1),
   S("aptX", 1, 2, 5, 5, 1, 1, 1, 1),
   S("aptX HD", 1, 2, 5, 5, 1, 1, 0, 0),
   S("FastStream", 2, 1, 4, 10, 1, 1, 1, 0),
   S("mSBC", 2, 3, 2, 10, 3, 0, 0, 0),
   S("mSBC", 2, 3, 2, 6, 1, 1, 1, 0),
   S("mSBC", 2, 3, 2, 8, 1, 0, 0, 1),
   S("mSBC", 1, 1, 1, 8, 1, 0, 0, 1),
   S("LC3plus", 1, 1, 1, 6, 2, 0, 0, 1),
   S("LC3-SWB", 2, 3, 3, 10, 3, 0, 0, 0),
   S("LC3-SWB", 2, 3, 2, 6, 1, 0, 0, 1),
   S("CVSD", 1, 1, 2, 6, 1, 1, 1, 1)}

=============================================================================
