---------------------------- MODULE MCUtilities ----------------------------
(* The screen locker and the scripts share nothing: no step of one reads what
   another writes.  Their side by side execution would only multiply states, so
   an instance is their sum: each behaviour is one of a single program, named
   by the variable `program`, while the others stay where they begin. *)
EXTENDS Slock, StatusBar, GroqSession, QvmDisks, QvmGuests

CONSTANTS i1, i2, r1, r2, r3, t1, t2, v1, v2, v3, v4, p1, p2

VARIABLE program

vars == <<program, lockVars, barVars, groqVars, diskVars, guestVars>>

Init ==
  /\ program \in {"slock", "status-bar", "groqai", "disks", "guests"}
  /\ LockInit /\ BarInit /\ GroqInit /\ DiskInit /\ GuestInit

\* A step A of program p.
Runs(p, A) == program = p /\ A /\ UNCHANGED program

Lock  == Runs("slock", LockNext) /\ UNCHANGED <<barVars, groqVars, diskVars, guestVars>>
Bar   == Runs("status-bar", BarNext) /\ UNCHANGED <<lockVars, groqVars, diskVars, guestVars>>
Groq  == Runs("groqai", GroqNext) /\ UNCHANGED <<lockVars, barVars, diskVars, guestVars>>
Disk  == Runs("disks", DiskNext) /\ UNCHANGED <<lockVars, barVars, groqVars, guestVars>>
Guest == Runs("guests", GuestNext) /\ UNCHANGED <<lockVars, barVars, groqVars, diskVars>>

Next == Lock \/ Bar \/ Groq \/ Disk \/ Guest

Spec == Init /\ [][Next]_vars /\ WF_vars(Bar /\ LoopStep)

----------------------------------------------------------------------------

\* slock: keys of one and of two bytes, and a password that fills the buffer up
\* to its terminating zero.
Bytes == {"a", "b", "c"}

Keys == {<<"a">>, <<"b", "c">>}

Word == <<"b", "c">>

\* groqai: the later runs have the longer summaries.
SummaryLengths == [r \in Run |-> CASE r = r1 -> 1 [] r = r2 -> 3 [] r = r3 -> 5]

\* qemu: two machines have the default port and one is graphical; the ids of
\* some machines occur in lines of others.
StartedPorts == [v \in Vm |-> IF v = v3 THEN p2 ELSE p1]

IdsInLines == {<<v1, v3>>, <<v4, v3>>, <<v4, v1>>, <<v3, v2>>}

============================================================================
