------------------------------- MODULE Slock -------------------------------
(***************************************************************************)
(* vendors/slock/slock.c on a display with one screen: several instances   *)
(* (xautolock starts one after three idle minutes, the Logout entry of     *)
(* utils/custom-dmenu-run.sh another) and other programs compete for the   *)
(* grabs of the pointer and of the keyboard; an instance that has both     *)
(* locks and reads keys until the password was typed, or the mouse moves   *)
(* within the first seconds.                                               *)
(*                                                                         *)
(* Input goes to the queue of whoever holds the grab, from the moment of   *)
(* the grab on.  A key is the sequence of bytes that XLookupString returns *)
(* for it; the password hash is compared with the secret itself.           *)
(***************************************************************************)
EXTENDS Integers, Sequences

CONSTANTS
  Locker,        \* instances of slock
  Nobody, Other, \* holders of a grab: none, and some other program
  Byte,          \* the bytes of texts
  Key,           \* the keys that have a text: sequences of bytes
  Secret,        \* the password, a sequence of bytes
  Size,          \* sizeof(passwd)
  Tries,         \* how often a grab is tried, 6 in the code
  TimeToCancel,  \* timetocancel of config.h, in seconds
  Inputs         \* bound: input events, in all

ASSUME LockAssumption ==
  /\ {Nobody, Other} \cap Locker = {} /\ Nobody # Other
  /\ Key \subseteq Seq(Byte) /\ Secret \in Seq(Byte)
  /\ Size \in Nat \ {0} /\ Tries \in Nat \ {0}
  /\ TimeToCancel \in Nat /\ Inputs \in Nat

VARIABLES
  pc,       \* "off", "pointer", "keyboard", "nap", "locked", "open", "failed"
  left,     \* tries that are left
  ptr, kbd, \* who holds the grabs
  queue,    \* the input an instance has not taken yet
  passwd,   \* the text typed, of each instance
  failure,  \* a wrong password was entered
  shown,    \* oldc: the colour of the logo
  age,      \* seconds since locktime
  inputs

lockVars == <<pc, left, ptr, kbd, queue, passwd, failure, shown, age, inputs>>
reading == <<queue, passwd, failure, shown, age, inputs>>

\* The events without a text.
Return == <<"Return">>
Escape == <<"Escape">>
BackSpace == <<"BackSpace">>
Motion == <<"Motion">>

LockInit ==
  /\ pc = [i \in Locker |-> "off"] /\ left = [i \in Locker |-> Tries]
  /\ ptr = Nobody /\ kbd = Nobody
  /\ queue = [i \in Locker |-> << >>] /\ passwd = [i \in Locker |-> << >>]
  /\ failure = [i \in Locker |-> FALSE] /\ shown = [i \in Locker |-> "INIT"]
  /\ age = [i \in Locker |-> 0] /\ inputs = 0

Goto(i, where) == pc' = [pc EXCEPT ![i] = where]

\* The server drops the grabs of a program that exits.
Exit(i, where) ==
  /\ Goto(i, where)
  /\ ptr' = IF ptr = i THEN Nobody ELSE ptr
  /\ kbd' = IF kbd = i THEN Nobody ELSE kbd

----------------------------------------------------------------------------
(* lockscreen *)

Start(i) ==
  /\ pc[i] = "off" /\ Goto(i, "pointer")
  /\ UNCHANGED <<left, ptr, kbd, reading>>

GrabPointer(i) ==
  /\ pc[i] = "pointer" /\ Goto(i, "keyboard")
  /\ ptr' = IF ptr = Nobody THEN i ELSE ptr
  /\ UNCHANGED <<left, kbd, reading>>

\* Slip: one of the two grabs is taken to be enough.
GrabKeyboardOr(i) ==
  /\ pc[i] = "keyboard"
  /\ LET holder == IF kbd = Nobody THEN i ELSE kbd IN
     IF ptr = i \/ holder = i
     THEN Goto(i, "locked") /\ kbd' = holder /\ UNCHANGED <<ptr, left>>
     ELSE /\ Goto(i, "nap") /\ kbd' = holder
          /\ left' = [left EXCEPT ![i] = @ - 1] /\ UNCHANGED ptr
  /\ UNCHANGED reading

\* With both grabs the screen is locked; AlreadyGrabbed is tried again.
GrabKeyboard(i) ==
  /\ pc[i] = "keyboard"
  /\ LET holder == IF kbd = Nobody THEN i ELSE kbd IN
     IF ptr = i /\ holder = i
     THEN Goto(i, "locked") /\ kbd' = holder /\ UNCHANGED <<ptr, left>>
     ELSE /\ Goto(i, "nap") /\ kbd' = holder
          /\ left' = [left EXCEPT ![i] = @ - 1] /\ UNCHANGED ptr
  /\ UNCHANGED reading

\* An error other than AlreadyGrabbed, such as a frozen device.
GrabFails(i) ==
  /\ pc[i] \in {"pointer", "keyboard"} /\ Exit(i, "failed")
  /\ UNCHANGED <<left, reading>>

\* usleep, and the end of the loop after the last try.
Nap(i) ==
  /\ pc[i] = "nap"
  /\ IF left[i] > 0 THEN Goto(i, "pointer") /\ UNCHANGED <<ptr, kbd>>
                    ELSE Exit(i, "failed")
  /\ UNCHANGED <<left, reading>>

\* Another program grabs what is free, or lets go of it.
OtherGrabs ==
  /\ \/ ptr = Nobody /\ ptr' = Other /\ UNCHANGED kbd
     \/ kbd = Nobody /\ kbd' = Other /\ UNCHANGED ptr
     \/ ptr = Other /\ ptr' = Nobody /\ UNCHANGED kbd
     \/ kbd = Other /\ kbd' = Nobody /\ UNCHANGED ptr
  /\ UNCHANGED <<pc, left, reading>>

----------------------------------------------------------------------------
(* readpw *)

\* A key or a motion reaches whoever has the grab.
Input(i) ==
  /\ inputs < Inputs /\ inputs' = inputs + 1
  /\ \E event \in (IF kbd = i THEN Key \cup {Return, Escape, BackSpace} ELSE {})
                  \cup (IF ptr = i THEN {Motion} ELSE {}) :
       queue' = [queue EXCEPT ![i] = Append(@, event)]
  /\ UNCHANGED <<pc, left, ptr, kbd, passwd, failure, shown, age>>

Second(i) ==
  /\ pc[i] = "locked" /\ age[i] < TimeToCancel
  /\ age' = [age EXCEPT ![i] = @ + 1]
  /\ UNCHANGED <<pc, left, ptr, kbd, queue, passwd, failure, shown, inputs>>

\* The default case: a text that does not fit is dropped as a whole.
Typed(text, key) ==
  IF Len(text) + Len(key) < Size THEN text \o key ELSE text

\* failonclear is set: an empty text looks like a wrong password.
Colour(key, text, failed, old) == IF text # << >> THEN "INPUT" ELSE "FAILED"

\* One key: the text, whether a wrong password was entered, and the colour.
PressKey(i, key) ==
  /\ \/ key = Return /\ passwd[i] = Secret
        /\ Exit(i, "open") /\ passwd' = [passwd EXCEPT ![i] = << >>]
        /\ UNCHANGED <<failure, shown>>
     \/ /\ ~(key = Return /\ passwd[i] = Secret)
        /\ LET text == CASE key \in {Return, Escape} -> << >>
                         [] key = BackSpace ->
                              SubSeq(passwd[i], 1, Len(passwd[i]) - 1)
                         [] OTHER -> Typed(passwd[i], key)
           IN  /\ passwd' = [passwd EXCEPT ![i] = text]
               /\ failure' = [failure EXCEPT ![i] = @ \/ key = Return]
               /\ shown' = [shown EXCEPT ![i] =
                              Colour(key, text, failure'[i], shown[i])]
        /\ UNCHANGED <<pc, ptr, kbd>>

\* Slip: the time since the lock is not looked at.
MoveAlways(i) == Exit(i, "open")

\* running: a motion within the first seconds ends the lock.
Move(i) == IF age[i] < TimeToCancel THEN Exit(i, "open") ELSE UNCHANGED <<pc, ptr, kbd>>

NextEvent(i) ==
  /\ pc[i] = "locked" /\ queue[i] # << >>
  /\ queue' = [queue EXCEPT ![i] = Tail(@)]
  /\ IF Head(queue[i]) = Motion
     THEN Move(i) /\ UNCHANGED <<passwd, failure, shown>>
     ELSE PressKey(i, Head(queue[i]))
  /\ UNCHANGED <<left, age, inputs>>

LockNext ==
  \/ \E i \in Locker :
       \/ Start(i) \/ GrabPointer(i) \/ GrabKeyboard(i) \/ GrabFails(i) \/ Nap(i)
       \/ Input(i) \/ Second(i) \/ NextEvent(i)
  \/ OtherGrabs

LockSpec == LockInit /\ [][LockNext]_lockVars

----------------------------------------------------------------------------

\* An instance that has locked has all input to itself until it ends, so that
\* no two instances have locked and nothing else reads the keys; its logo has the
\* colour of input exactly while there is something to erase, and the text leaves
\* room for its terminating zero.  One that gave up or was opened holds no grab.
LockedHoldsInput ==
  \A i \in Locker :
    /\ pc[i] = "locked" =>
         /\ ptr = i /\ kbd = i
         /\ shown[i] = "INPUT" <=> passwd[i] # << >>
         /\ Len(passwd[i]) < Size
    /\ i \in {ptr, kbd} => pc[i] \in {"pointer", "keyboard", "nap", "locked"}

\* Once the seconds for cancelling are over, a lock ends with the secret typed,
\* even when the motion was made, or even queued, before that.
OnlySecretOpens ==
  [][\A i \in Locker : (pc[i] = "locked" /\ pc'[i] # "locked" /\ age[i] = TimeToCancel)
                        => passwd[i] = Secret]_pc

============================================================================
