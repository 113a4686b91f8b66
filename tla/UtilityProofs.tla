--------------------------- MODULE UtilityProofs ---------------------------
(***************************************************************************)
(* The screen locker and the scripts: theorems about every instance of     *)
(* Slock, GroqSession, QvmGuests and QvmDisks.  They share nothing, so     *)
(* each has an invariant of its own, told at the head of its part.         *)
(***************************************************************************)
EXTENDS Slock, GroqSession, QvmGuests, QvmDisks, SequenceTheorems, TLAPS

----------------------------------------------------------------------------
(***************************************************************************)
(* For every number of instances of slock, every password and every number *)
(* of tries: an instance that has locked has all input, and once the first *)
(* seconds are over only the password ends its lock.                       *)
(*                                                                         *)
(* The grabs are shared, the text typed is not, so the invariant has two   *)
(* halves: who holds a grab at which line (Grabs), and what an instance    *)
(* has typed and shows (Texts).  What is shown agrees with the text from   *)
(* the start to the end of the lock, hence also at the moment of locking.  *)
(***************************************************************************)
Where == {"off", "pointer", "keyboard", "nap", "locked", "open", "failed"}

Event == Key \cup {Return, Escape, BackSpace, Motion}

LockTypeOK ==
  /\ pc \in [Locker -> Where]
  /\ ptr \in Locker \cup {Nobody, Other} /\ kbd \in Locker \cup {Nobody, Other}
  /\ queue \in [Locker -> Seq(Event)]
  /\ passwd \in [Locker -> Seq(Byte)]
  /\ shown \in [Locker -> {"INIT", "INPUT", "FAILED"}]

\* A lock has both grabs, and a grab is held by an instance that tries or has
\* locked.
Grabs ==
  \A i \in Locker :
    /\ pc[i] = "locked" => ptr = i /\ kbd = i
    /\ i \in {ptr, kbd} => pc[i] \in {"pointer", "keyboard", "nap", "locked"}

\* The text fits with its terminating zero, and the logo tells whether there is
\* one.
Texts ==
  \A i \in Locker :
    /\ Len(passwd[i]) < Size
    /\ pc[i] # "open" => (shown[i] = "INPUT" <=> passwd[i] # << >>)

LockInv == LockTypeOK /\ Grabs /\ Texts

----------------------------------------------------------------------------

LEMMA LockInitInv == LockInit => LockInv
  <1> SUFFICES ASSUME LockInit PROVE LockInv
    OBVIOUS
  <1>1. << >> \in Seq(Byte) /\ << >> \in Seq(Event) /\ Len(<< >>) = 0
    OBVIOUS
  <1>2. LockTypeOK
    BY <1>1 DEF LockInit, LockTypeOK, Where
  <1>3. Grabs
    BY LockAssumption DEF LockInit, Grabs
  <1>4. Texts
    <2>1. ASSUME NEW i \in Locker
          PROVE  passwd[i] = << >> /\ shown[i] = "INIT"
      BY DEF LockInit
    <2>2. Len(<< >>) < Size
      BY <1>1, LockAssumption
    <2>3. QED
      BY <2>1, <2>2 DEF Texts
  <1>5. QED
    BY <1>2, <1>3, <1>4 DEF LockInv

\* One instance goes somewhere, the others stay where they are.
LEMMA Goes ==
  ASSUME LockTypeOK, NEW i \in Locker, NEW where \in Where, Goto(i, where)
  PROVE  /\ pc' \in [Locker -> Where]
         /\ pc'[i] = where
         /\ \A j \in Locker : j # i => pc'[j] = pc[j]
  BY DEF LockTypeOK, Goto

\* The end of an instance releases what it held and nothing else.
LEMMA ExitReleases ==
  ASSUME LockTypeOK, Grabs, NEW i \in Locker, NEW where \in {"open", "failed"},
         Exit(i, where)
  PROVE  /\ pc' \in [Locker -> Where]
         /\ ptr' \in Locker \cup {Nobody, Other} /\ kbd' \in Locker \cup {Nobody, Other}
         /\ Grabs'
  <1>1. /\ pc' \in [Locker -> Where] /\ pc'[i] = where
        /\ \A j \in Locker : j # i => pc'[j] = pc[j]
    BY Goes DEF Exit, Where
  <1>2. /\ ptr' = IF ptr = i THEN Nobody ELSE ptr
        /\ kbd' = IF kbd = i THEN Nobody ELSE kbd
    BY DEF Exit
  <1>3. i \notin {ptr', kbd'}
    BY <1>2, LockAssumption
  <1>4. \A j \in Locker : j # i => (ptr' = j <=> ptr = j) /\ (kbd' = j <=> kbd = j)
    BY <1>2, LockAssumption
  <1>5. Grabs'
    BY <1>1, <1>3, <1>4 DEF Grabs
  <1>6. QED
    BY <1>1, <1>2, <1>5 DEF LockTypeOK

----------------------------------------------------------------------------
(* The steps that type nothing *)

LEMMA QuietStep ==
  ASSUME LockInv, UNCHANGED <<queue, passwd, shown>>, pc' \in [Locker -> Where],
         ptr' \in Locker \cup {Nobody, Other}, kbd' \in Locker \cup {Nobody, Other},
         Grabs', \A j \in Locker : pc'[j] # "open" => pc[j] # "open"
  PROVE  LockInv'
  BY DEF LockInv, LockTypeOK, Texts

LEMMA LockingKeeps ==
  ASSUME LockInv, NEW i \in Locker,
         Start(i) \/ GrabPointer(i) \/ GrabKeyboard(i) \/ GrabFails(i) \/ Nap(i)
  PROVE  LockInv'
  <1>1. LockTypeOK /\ Grabs
    BY DEF LockInv
  <1>2. pc[i] \in {"off", "pointer", "keyboard", "nap"} /\ UNCHANGED <<queue, passwd, shown>>
    BY DEF Start, GrabPointer, GrabKeyboard, GrabFails, Nap, reading
  <1>3. ASSUME NEW where \in Where, Goto(i, where), Grabs',
               ptr' \in Locker \cup {Nobody, Other}, kbd' \in Locker \cup {Nobody, Other}
        PROVE  LockInv'
    <2>1. pc' \in [Locker -> Where] /\ \A j \in Locker : j # i => pc'[j] = pc[j]
      BY <1>1, <1>3, Goes
    <2>2. QED
      BY <1>2, <1>3, <2>1, QuietStep
  <1>4. CASE Exit(i, "failed")
    <2>1. Goto(i, "failed")
      BY <1>4 DEF Exit
    <2>2. QED
      BY <1>1, <1>3, <1>4, <2>1, ExitReleases DEF Where
  <1>5. ASSUME NEW where \in {"pointer", "keyboard", "nap", "locked"}, Goto(i, where),
               ptr' = ptr \/ (ptr = Nobody /\ ptr' = i),
               kbd' = kbd \/ (kbd = Nobody /\ kbd' = i),
               where = "locked" => ptr' = i /\ kbd' = i
        PROVE  LockInv'
    <2>1. /\ pc'[i] = where
          /\ \A j \in Locker : j # i => pc'[j] = pc[j]
      BY <1>1, <1>5, Goes DEF Where
    <2>2. \A j \in Locker : j # i => (ptr' = j <=> ptr = j) /\ (kbd' = j <=> kbd = j)
      BY <1>5, LockAssumption
    <2>3. Grabs'
      BY <1>1, <1>5, <2>1, <2>2 DEF Grabs
    <2>4. QED
      BY <1>1, <1>3, <1>5, <2>3 DEF Where, LockTypeOK
  <1>6. CASE Start(i)
    BY <1>5, <1>6 DEF Start
  <1>7. CASE GrabPointer(i)
    BY <1>5, <1>7 DEF GrabPointer
  <1>8. CASE GrabKeyboard(i)
    BY <1>5, <1>8 DEF GrabKeyboard
  <1>9. CASE GrabFails(i)
    BY <1>4, <1>9 DEF GrabFails
  <1>10. CASE Nap(i)
    BY <1>4, <1>5, <1>10 DEF Nap
  <1>11. QED
    BY <1>6, <1>7, <1>8, <1>9, <1>10

LEMMA OtherKeeps == ASSUME LockInv, OtherGrabs PROVE LockInv'
  <1>1. UNCHANGED <<pc, queue, passwd, shown>>
    BY DEF OtherGrabs, reading
  <1>2. /\ ptr' \in {ptr, Nobody, Other} /\ kbd' \in {kbd, Nobody, Other}
        /\ \A i \in Locker : (ptr = i => ptr' = i) /\ (kbd = i => kbd' = i)
    BY LockAssumption DEF OtherGrabs
  <1>3. \A i \in Locker : (ptr' = i => ptr = i) /\ (kbd' = i => kbd = i)
    BY <1>2, LockAssumption
  <1>4. Grabs'
    BY <1>1, <1>2, <1>3 DEF LockInv, Grabs
  <1>5. QED
    BY <1>1, <1>2, <1>4, QuietStep DEF LockInv, LockTypeOK

LEMMA InputKeeps == ASSUME LockInv, NEW i \in Locker, Input(i) \/ Second(i) PROVE LockInv'
  <1>1. UNCHANGED <<pc, ptr, kbd, passwd, shown>>
    BY DEF Input, Second
  <1>2. \/ UNCHANGED queue
        \/ \E event \in Event : queue' = [queue EXCEPT ![i] = Append(@, event)]
    BY DEF Input, Second, Event
  <1>3. queue' \in [Locker -> Seq(Event)]
    <2>1. queue \in [Locker -> Seq(Event)]
      BY DEF LockInv, LockTypeOK
    <2>2. ASSUME NEW event \in Event, queue' = [queue EXCEPT ![i] = Append(@, event)]
          PROVE  queue' \in [Locker -> Seq(Event)]
      <3>1. Append(queue[i], event) \in Seq(Event)
        BY <2>1
      <3>2. QED
        BY <2>1, <2>2, <3>1
    <2>3. QED
      BY <1>2, <2>1, <2>2
  <1>4. QED
    BY <1>1, <1>3 DEF LockInv, LockTypeOK, Grabs, Texts

----------------------------------------------------------------------------
(* The steps that take an event *)

\* A text that is typed, erased or cut short is a text that fits.
LEMMA TextFits ==
  ASSUME NEW text \in Seq(Byte), Len(text) < Size, NEW key \in Seq(Byte)
  PROVE  /\ Typed(text, key) \in Seq(Byte) /\ Len(Typed(text, key)) < Size
         /\ SubSeq(text, 1, Len(text) - 1) \in Seq(Byte)
         /\ Len(SubSeq(text, 1, Len(text) - 1)) < Size
  <1>1. Typed(text, key) \in Seq(Byte) /\ Len(Typed(text, key)) < Size
    BY DEF Typed
  <1>2. \A k \in 1 .. Len(text) - 1 : text[k] \in Byte
    OBVIOUS
  <1>3. Len(text) \in Nat /\ Len(text) - 1 \in Int
    OBVIOUS
  <1>4. /\ SubSeq(text, 1, Len(text) - 1) \in Seq(Byte)
        /\ Len(SubSeq(text, 1, Len(text) - 1)) \in {0, Len(text) - 1}
    BY <1>2, <1>3, SubSeqProperties
  <1>5. QED
    BY <1>1, <1>3, <1>4, LockAssumption

LEMMA KeyKeeps ==
  ASSUME LockInv, NEW i \in Locker, NEW key \in Event \ {Motion}, PressKey(i, key),
         queue' \in [Locker -> Seq(Event)], pc[i] = "locked"
  PROVE  LockInv'
  <1>1. LockTypeOK /\ Grabs /\ Texts
    BY DEF LockInv
  <1>2. CASE key = Return /\ passwd[i] = Secret
    <2>1. /\ Exit(i, "open") /\ passwd' = [passwd EXCEPT ![i] = << >>]
          /\ UNCHANGED shown
      BY <1>2 DEF PressKey
    <2>2. /\ pc' \in [Locker -> Where] /\ pc'[i] = "open"
          /\ \A j \in Locker : j # i => pc'[j] = pc[j]
      BY <1>1, <2>1, Goes DEF Exit, Where
    <2>3. /\ passwd' \in [Locker -> Seq(Byte)] /\ Len(passwd'[i]) = 0
          /\ \A j \in Locker : j # i => passwd'[j] = passwd[j]
      BY <1>1, <2>1 DEF LockTypeOK
    <2>4. Texts'
      BY <1>1, <2>1, <2>2, <2>3, LockAssumption DEF Texts
    <2>5. QED
      BY <1>1, <2>1, <2>3, <2>4, ExitReleases DEF LockInv, LockTypeOK
  <1>3. CASE ~(key = Return /\ passwd[i] = Secret)
    <2> DEFINE text == CASE key \in {Return, Escape} -> << >>
                         [] key = BackSpace -> SubSeq(passwd[i], 1, Len(passwd[i]) - 1)
                         [] OTHER -> Typed(passwd[i], key)
    <2>1. /\ passwd' = [passwd EXCEPT ![i] = text]
          /\ shown' = [shown EXCEPT ![i] = IF text # << >> THEN "INPUT" ELSE "FAILED"]
          /\ UNCHANGED <<pc, ptr, kbd>>
      BY <1>3 DEF PressKey, Colour
    <2>2. text \in Seq(Byte) /\ Len(text) < Size
      <3>1. passwd[i] \in Seq(Byte) /\ Len(passwd[i]) < Size
        BY <1>1 DEF LockTypeOK, Texts
      <3>2. CASE key \in {Return, Escape}
        <4>1. << >> \in Seq(Byte) /\ Len(<< >>) < Size
          BY LockAssumption
        <4>2. text = << >>
          BY <3>2 DEF Return, Escape, BackSpace
        <4>3. QED
          BY <4>1, <4>2
      <3>3. CASE key = BackSpace
        <4>1. key \notin {Return, Escape}
          BY <3>3 DEF Return, Escape, BackSpace
        <4>2. text = SubSeq(passwd[i], 1, Len(passwd[i]) - 1)
          BY <3>3, <4>1
        <4>3. << >> \in Seq(Byte)
          OBVIOUS
        <4>4. QED
          BY <3>1, <4>2, <4>3, TextFits
      <3>4. CASE key \notin {Return, Escape, BackSpace}
        <4>1. key \in Seq(Byte)
          BY <3>4, LockAssumption DEF Event
        <4>2. QED
          BY <3>1, <3>4, <4>1, TextFits
      <3>5. QED
        BY <3>2, <3>3, <3>4
    <2> HIDE DEF text
    <2>3. /\ passwd' \in [Locker -> Seq(Byte)] /\ passwd'[i] = text
          /\ \A j \in Locker : j # i => passwd'[j] = passwd[j]
      BY <1>1, <2>1, <2>2 DEF LockTypeOK
    <2>4. /\ shown' \in [Locker -> {"INIT", "INPUT", "FAILED"}]
          /\ shown'[i] = "INPUT" <=> text # << >>
          /\ \A j \in Locker : j # i => shown'[j] = shown[j]
      BY <1>1, <2>1 DEF LockTypeOK
    <2>5. Texts'
      BY <1>1, <2>1, <2>2, <2>3, <2>4 DEF Texts
    <2>6. QED
      BY <1>1, <2>1, <2>3, <2>4, <2>5 DEF LockInv, LockTypeOK, Grabs
  <1>4. QED
    BY <1>2, <1>3

LEMMA NextEventKeeps == ASSUME LockInv, NEW i \in Locker, NextEvent(i) PROVE LockInv'
  <1>1. LockTypeOK /\ Grabs
    BY DEF LockInv
  <1>2. /\ pc[i] = "locked" /\ queue[i] # << >> /\ queue' = [queue EXCEPT ![i] = Tail(@)]
        /\ queue[i] \in Seq(Event)
    BY <1>1 DEF NextEvent, LockTypeOK
  <1>3. Head(queue[i]) \in Event /\ Tail(queue[i]) \in Seq(Event)
    BY <1>2
  <1>4. queue' \in [Locker -> Seq(Event)]
    BY <1>1, <1>2, <1>3 DEF LockTypeOK
  <1>5. CASE Head(queue[i]) = Motion
    <2>1. Move(i) /\ UNCHANGED <<passwd, shown>>
      BY <1>5 DEF NextEvent
    <2>2. CASE Exit(i, "open")
      <3>1. /\ pc'[i] = "open"
            /\ \A j \in Locker : j # i => pc'[j] = pc[j]
        BY <1>1, <2>2, Goes DEF Exit, Where
      <3>2. Texts'
        BY <2>1, <3>1 DEF LockInv, Texts
      <3>3. QED
        BY <1>1, <1>4, <2>1, <2>2, <3>2, ExitReleases DEF LockInv, LockTypeOK
    <2>3. CASE UNCHANGED <<pc, ptr, kbd>>
      BY <1>4, <2>1, <2>3 DEF LockInv, LockTypeOK, Grabs, Texts
    <2>4. QED
      BY <2>1, <2>2, <2>3 DEF Move
  <1>6. CASE Head(queue[i]) # Motion
    BY <1>2, <1>3, <1>4, <1>6, KeyKeeps DEF NextEvent
  <1>7. QED
    BY <1>5, <1>6

----------------------------------------------------------------------------

LEMMA LockStepInv == LockInv /\ [LockNext]_lockVars => LockInv'
  <1>1. ASSUME LockInv, UNCHANGED lockVars PROVE LockInv'
    BY <1>1 DEF LockInv, LockTypeOK, Grabs, Texts, lockVars
  <1>2. ASSUME LockInv, LockNext PROVE LockInv'
    BY <1>2, LockingKeeps, OtherKeeps, InputKeeps, NextEventKeeps DEF LockNext
  <1>3. QED
    BY <1>1, <1>2

LEMMA LockSpecInv == LockSpec => []LockInv
  BY LockInitInv, LockStepInv, PTL DEF LockSpec

\* However many instances of slock and other programs compete for the grabs,
\* and in whatever order they try, nap, fail and end: a locked screen's input
\* goes to one instance, whose logo tells the truth about what is typed.
THEOREM LockIsExclusive == LockSpec => []LockedHoldsInput
  <1>1. LockInv => LockedHoldsInput
    BY DEF LockInv, Grabs, Texts, LockedHoldsInput
  <1>2. QED
    BY <1>1, LockSpecInv, PTL

\* No motion, no failing grab and no other instance ends a lock after the first
\* seconds: whatever was queued, the text typed is the password.
THEOREM OnlyPasswordUnlocks == LockSpec => OnlySecretOpens
  <1> DEFINE Opens == \A i \in Locker :
               (pc[i] = "locked" /\ pc'[i] # "locked" /\ age[i] = TimeToCancel)
                 => passwd[i] = Secret
  <1>1. ASSUME LockInv, [LockNext]_lockVars PROVE [Opens]_pc
    <2>1. SUFFICES ASSUME NEW i \in Locker, pc[i] = "locked", pc'[i] # "locked",
                          age[i] = TimeToCancel
                   PROVE  passwd[i] = Secret
      OBVIOUS
    <2>2. LockTypeOK
      BY <1>1 DEF LockInv
    <2>3. \A j \in Locker, where \in Where : Goto(j, where) => j = i
      BY <2>1, <2>2, Goes
    <2>4. LockNext /\ pc' # pc
      BY <1>1, <2>1 DEF lockVars
    <2>5. PICK j \in Locker : \/ Start(j) \/ GrabPointer(j) \/ GrabKeyboard(j)
                              \/ GrabFails(j) \/ Nap(j) \/ NextEvent(j)
      BY <2>4 DEF LockNext, Input, Second, OtherGrabs
    <2>6. \E where \in Where : Goto(j, where)
      BY <2>4, <2>5 DEF Start, GrabPointer, GrabKeyboard, GrabFails, Nap, NextEvent, Move,
                        PressKey, Exit, Where
    <2>7. j = i
      BY <2>3, <2>6
    <2>8. NextEvent(i)
      BY <2>1, <2>5, <2>7 DEF Start, GrabPointer, GrabKeyboard, GrabFails, Nap
    <2>9. CASE Head(queue[i]) = Motion
      BY <2>1, <2>4, <2>8, <2>9, LockAssumption DEF NextEvent, Move
    <2>10. CASE Head(queue[i]) # Motion
      BY <2>4, <2>8, <2>10 DEF NextEvent, PressKey
    <2>11. QED
      BY <2>9, <2>10
  <1>2. LockSpec => [][Opens]_pc
    BY <1>1, LockSpecInv, PTL DEF LockSpec
  <1>3. QED
    BY <1>2 DEF OnlySecretOpens


----------------------------------------------------------------------------
(***************************************************************************)
(* For every number of runs, terminals and interrupts the conversation of  *)
(* GroqSession keeps the order in which its summaries were told.           *)
(*                                                                         *)
(* MemoryInOrder is inductive by itself: a list is extended only by the    *)
(* summary that is told in the same step.  That a summary is told once, by *)
(* a run that has read its context, and that the file holds summaries of   *)
(* ended runs only, needs to know what the runs hold: TalkInv.                 *)
(*                                                                         *)
(* That nothing is lost while the runs take turns needs no more than the   *)
(* types: the conversation is either in the file or in the hands of the    *)
(* one run that is about to write it, depending on the run's line: Kept.   *)
(***************************************************************************)
Content == [kind : {"absent", "empty", "list"}, mem : Seq(Run)]

TalkTyped ==
  /\ file \in Content
  /\ runAt \in [Run -> Line]
  /\ held \in [Run -> Content]
  /\ asked \in [Run -> Content]
  /\ told \in Seq(Run)

\* The summary of a run is told once, after its context was read.
ToldOnce ==
  /\ \A i, j \in DOMAIN told : told[i] = told[j] => i = j
  /\ \A i \in DOMAIN told : /\ runAt[told[i]] \in {"open", "write", "end"}
                            /\ asked[told[i]] # Empty

\* What is written was told by the writer or by an ended run.
Ended ==
  /\ \A i \in DOMAIN file.mem : runAt[file.mem[i]] = "end"
  /\ \A r \in Run : \A i \in DOMAIN held[r].mem :
       held[r].mem[i] = r \/ runAt[held[r].mem[i]] = "end"

\* Until its context is read a run holds no summary.
ContextFirst ==
  \A r \in Run :
    /\ asked[r] = Empty => held[r].mem = << >>
    /\ runAt[r] \in {"ask", "summarise", "append", "open"} => asked[r] # Empty

TalkInv == TalkTyped /\ MemoryInOrder /\ ToldOnce /\ Ended /\ ContextFirst

----------------------------------------------------------------------------

\* The empty list repeats a part of every list.
LEMMA RepeatsEmpty == \A t : Repeats(<< >>, t)
  BY DEF Repeats

\* A list that repeats a part of t repeats a part of every extension of t.
LEMMA RepeatsLonger ==
  ASSUME NEW S, NEW m \in Seq(S), NEW t \in Seq(S), NEW x \in S, Repeats(m, t)
  PROVE  Repeats(m, Append(t, x))
  <1> DEFINE u == Append(t, x)
  <1>1. DOMAIN t \subseteq DOMAIN u
    OBVIOUS
  <1>2. \A k \in DOMAIN t : u[k] = t[k]
    OBVIOUS
  <1> HIDE DEF u
  <1>3. Repeats(m, u)
    BY <1>1, <1>2 DEF Repeats
  <1>4. QED
    BY <1>3 DEF u

\* Both lists can be extended by the same element.
LEMMA RepeatsExtended ==
  ASSUME NEW S, NEW m \in Seq(S), NEW t \in Seq(S), NEW x \in S, Repeats(m, t)
  PROVE  Repeats(Append(m, x), Append(t, x))
  <1> DEFINE n == Append(m, x)
             u == Append(t, x)
  <1>1. /\ DOMAIN n = DOMAIN m \cup {Len(m) + 1}
        /\ \A i \in DOMAIN m : n[i] = m[i] /\ i < Len(m) + 1
        /\ n[Len(m) + 1] = x /\ Len(m) \in Nat
        /\ DOMAIN m = 1 .. Len(m)
    OBVIOUS
  <1>2. /\ DOMAIN u = DOMAIN t \cup {Len(t) + 1}
        /\ \A k \in DOMAIN t : u[k] = t[k] /\ k < Len(t) + 1
        /\ u[Len(t) + 1] = x
    OBVIOUS
  <1> HIDE DEF n, u
  <1>3. \A i \in DOMAIN n : \E k \in DOMAIN u : u[k] = n[i]
    BY <1>1, <1>2 DEF Repeats
  <1>4. ASSUME NEW i \in DOMAIN n, NEW j \in DOMAIN n, i < j
        PROVE  \E k, l \in DOMAIN u : k < l /\ u[k] = n[i] /\ u[l] = n[j]
    <2>1. i \in DOMAIN m
      BY <1>1, <1>4
    <2>2. CASE j \in DOMAIN m
      BY <1>1, <1>2, <1>4, <2>1, <2>2 DEF Repeats
    <2>3. CASE j = Len(m) + 1
      <3>1. PICK k \in DOMAIN t : t[k] = m[i]
        BY <2>1 DEF Repeats
      <3>2. k < Len(t) + 1 /\ u[k] = n[i] /\ u[Len(t) + 1] = n[j]
        BY <1>1, <1>2, <2>1, <2>3, <3>1
      <3>3. k \in DOMAIN u /\ Len(t) + 1 \in DOMAIN u
        BY <1>2
      <3>4. QED
        BY <3>2, <3>3
    <2>4. QED
      BY <1>1, <2>2, <2>3
  <1>5. Repeats(n, u)
    BY <1>3, <1>4, Zenon DEF Repeats
  <1>6. QED
    BY <1>5 DEF n, u

----------------------------------------------------------------------------

LEMMA TalkInitInv == GroqInit => TalkInv
  <1> SUFFICES ASSUME GroqInit PROVE TalkInv
    OBVIOUS
  <1>1. << >> \in Seq(Run) /\ DOMAIN << >> = {}
    OBVIOUS
  <1>2. TalkTyped
    BY <1>1 DEF GroqInit, TalkTyped, Content, Absent, Empty, Line
  <1>3. MemoryInOrder
    BY RepeatsEmpty DEF GroqInit, MemoryInOrder, Absent, Empty
  <1>4. ToldOnce /\ Ended /\ ContextFirst
    BY <1>1 DEF GroqInit, ToldOnce, Ended, ContextFirst, Absent, Empty
  <1>5. QED
    BY <1>2, <1>3, <1>4 DEF TalkInv

\* A run's line is what Goto makes it, and no other line changes.
LEMMA Jumps ==
  ASSUME TalkTyped, NEW r \in Run, NEW line \in Line, Proceed(r, line)
  PROVE  /\ runAt' \in [Run -> Line]
         /\ runAt'[r] = line
         /\ \A q \in Run : q # r => runAt'[q] = runAt[q]
  BY DEF TalkTyped, Proceed

\* A step that moves one active run, and changes neither the lists nor the
\* contexts, keeps the invariant if the run moves on past its context only
\* when it has one.
LEMMA MovesOn ==
  ASSUME TalkInv, NEW r \in Run, NEW line \in Line, Proceed(r, line),
         runAt[r] # "end", \A i \in DOMAIN told : told[i] # r \/ line = "end",
         line \in {"ask", "summarise", "append", "open"} => asked[r] # Empty,
         UNCHANGED <<file, held, asked, told>>
  PROVE  TalkInv'
  <1>1. TalkTyped /\ MemoryInOrder /\ ToldOnce /\ Ended /\ ContextFirst
    BY DEF TalkInv
  <1>2. /\ runAt' \in [Run -> Line] /\ runAt'[r] = line
        /\ \A q \in Run : q # r => runAt'[q] = runAt[q]
    BY <1>1, Jumps
  <1>3. \A q \in Run : runAt[q] = "end" => runAt'[q] = "end"
    BY <1>2
  <1>4. TalkTyped'
    BY <1>1, <1>2 DEF TalkTyped
  <1>5. MemoryInOrder'
    BY <1>1 DEF MemoryInOrder
  <1>6. ToldOnce'
    <2>1. \A i \in DOMAIN told : told[i] \in Run
      BY <1>1 DEF TalkTyped
    <2>2. QED
      BY <1>1, <1>2, <2>1 DEF ToldOnce
  <1>7. Ended'
    <2>1. \A i \in DOMAIN file.mem : file.mem[i] \in Run
      BY <1>1 DEF TalkTyped, Content
    <2>2. \A q \in Run : \A i \in DOMAIN held[q].mem : held[q].mem[i] \in Run
      BY <1>1 DEF TalkTyped, Content
    <2>3. QED
      BY <1>1, <1>3, <2>1, <2>2 DEF Ended
  <1>8. ContextFirst'
    BY <1>1, <1>2 DEF ContextFirst
  <1>9. QED
    BY <1>4, <1>5, <1>6, <1>7, <1>8 DEF TalkInv

LEMMA NotTold ==
  ASSUME TalkInv, NEW r \in Run, runAt[r] \notin {"open", "write", "end"}
  PROVE  \A i \in DOMAIN told : told[i] # r
  BY DEF TalkInv, ToldOnce

LEMMA BeginKeeps == ASSUME TalkInv, NEW r \in Run, Begin(r) PROVE TalkInv'
  <1>1. TalkTyped /\ MemoryInOrder /\ ToldOnce /\ Ended /\ ContextFirst
    BY DEF TalkInv
  <1>2. runAt[r] = "idle" /\ UNCHANGED <<file, asked, told>>
    BY DEF Begin
  <1>3. \A i \in DOMAIN told : told[i] # r
    BY <1>2, NotTold
  <1>4. CASE file.kind = "absent"
    <2>1. Proceed(r, "create") /\ held' = [held EXCEPT ![r] = List(<< >>)]
      BY <1>4 DEF Begin
    <2>2. /\ runAt' \in [Run -> Line] /\ runAt'[r] = "create"
          /\ \A q \in Run : q # r => runAt'[q] = runAt[q]
      BY <1>1, <2>1, Jumps DEF Line
    <2>3. /\ held'[r] = List(<< >>) /\ held' \in [Run -> Content]
          /\ \A q \in Run : q # r => held'[q] = held[q]
      BY <1>1, <2>1 DEF TalkTyped, Content, List
    <2>4. TalkTyped'
      BY <1>1, <1>2, <2>2, <2>3 DEF TalkTyped
    <2>5. MemoryInOrder'
      BY <1>1, <1>2, <2>3, RepeatsEmpty DEF MemoryInOrder, List
    <2>6. ToldOnce'
      <3>1. \A i \in DOMAIN told : told[i] \in Run
        BY <1>1 DEF TalkTyped
      <3>2. QED
        BY <1>1, <1>2, <1>3, <2>2, <3>1 DEF ToldOnce
    <2>7. Ended'
      <3>1. \A q \in Run : runAt[q] = "end" => runAt'[q] = "end"
        BY <1>2, <2>2
      <3>2. \A i \in DOMAIN file.mem : file.mem[i] \in Run
        BY <1>1 DEF TalkTyped, Content
      <3>3. \A q \in Run : \A i \in DOMAIN held[q].mem : held[q].mem[i] \in Run
        BY <1>1 DEF TalkTyped, Content
      <3>4. DOMAIN held'[r].mem = {}
        BY <2>3 DEF List
      <3>5. QED
        BY <1>1, <1>2, <2>3, <3>1, <3>2, <3>3, <3>4 DEF Ended
    <2>8. ContextFirst'
      BY <1>1, <1>2, <2>2, <2>3 DEF ContextFirst, List
    <2>9. QED
      BY <2>4, <2>5, <2>6, <2>7, <2>8 DEF TalkInv
  <1>5. CASE file.kind # "absent"
    <2>1. Proceed(r, "context") /\ UNCHANGED held
      BY <1>5 DEF Begin
    <2>2. QED
      BY <1>2, <1>3, <2>1, MovesOn DEF Line
  <1>6. QED
    BY <1>4, <1>5

LEMMA ReadContextKeeps == ASSUME TalkInv, NEW r \in Run, ReadContext(r) PROVE TalkInv'
  <1>1. TalkTyped /\ MemoryInOrder /\ ToldOnce /\ Ended /\ ContextFirst
    BY DEF TalkInv
  <1>2. runAt[r] = "context" /\ UNCHANGED <<file, held, told>>
    BY DEF ReadContext
  <1>3. \A i \in DOMAIN told : told[i] # r
    BY <1>2, NotTold
  <1>4. CASE Readable
    <2>1. Proceed(r, "ask") /\ asked' = [asked EXCEPT ![r] = file]
      BY <1>4 DEF ReadContext
    <2>2. /\ runAt' \in [Run -> Line] /\ runAt'[r] = "ask"
          /\ \A q \in Run : q # r => runAt'[q] = runAt[q]
      BY <1>1, <2>1, Jumps DEF Line
    <2>3. /\ asked'[r] = file /\ file # Empty /\ asked' \in [Run -> Content]
          /\ \A q \in Run : q # r => asked'[q] = asked[q]
      BY <1>1, <1>4, <2>1 DEF TalkTyped, Empty, Readable
    <2>4. TalkTyped'
      BY <1>1, <1>2, <2>2, <2>3 DEF TalkTyped
    <2>5. MemoryInOrder'
      BY <1>1, <1>2, <2>3 DEF MemoryInOrder
    <2>6. ToldOnce'
      <3>1. \A i \in DOMAIN told : told[i] \in Run
        BY <1>1 DEF TalkTyped
      <3>2. QED
        BY <1>1, <1>2, <1>3, <2>2, <2>3, <3>1 DEF ToldOnce
    <2>7. Ended'
      <3>1. \A q \in Run : runAt[q] = "end" => runAt'[q] = "end"
        BY <1>2, <2>2
      <3>2. \A i \in DOMAIN file.mem : file.mem[i] \in Run
        BY <1>1 DEF TalkTyped, Content
      <3>3. \A q \in Run : \A i \in DOMAIN held[q].mem : held[q].mem[i] \in Run
        BY <1>1 DEF TalkTyped, Content
      <3>4. QED
        BY <1>1, <1>2, <3>1, <3>2, <3>3 DEF Ended
    <2>8. ContextFirst'
      BY <1>1, <1>2, <2>2, <2>3 DEF ContextFirst
    <2>9. QED
      BY <2>4, <2>5, <2>6, <2>7, <2>8 DEF TalkInv
  <1>5. CASE ~ Readable
    <2>1. Proceed(r, "end") /\ UNCHANGED asked
      BY <1>5 DEF ReadContext
    <2>2. QED
      BY <1>2, <1>3, <2>1, MovesOn DEF Line
  <1>6. QED
    BY <1>4, <1>5

LEMMA AskKeeps == ASSUME TalkInv, NEW r \in Run, Ask(r) \/ Summarise(r) PROVE TalkInv'
  <1>1. runAt[r] \in {"ask", "summarise"} /\ UNCHANGED <<file, held, asked, told>>
    BY DEF Ask, Summarise
  <1>2. \A i \in DOMAIN told : told[i] # r
    BY <1>1, NotTold
  <1>3. asked[r] # Empty
    BY <1>1 DEF TalkInv, ContextFirst
  <1>4. Proceed(r, "summarise") \/ Proceed(r, "append") \/ Proceed(r, "end")
    BY DEF Ask, Summarise
  <1>5. QED
    BY <1>1, <1>2, <1>3, <1>4, MovesOn DEF Line

LEMMA TalkInterruptKeeps == ASSUME TalkInv, NEW r \in Run, InterruptRun(r) PROVE TalkInv'
  <1>1. runAt[r] # "end" /\ Proceed(r, "end") /\ UNCHANGED <<file, held, asked, told>>
    BY DEF InterruptRun, Active
  <1>2. QED
    BY <1>1, MovesOn DEF Line

LEMMA OpenKeeps == ASSUME TalkInv, NEW r \in Run, Open(r) PROVE TalkInv'
  <1>1. TalkTyped /\ MemoryInOrder /\ ToldOnce /\ Ended /\ ContextFirst
    BY DEF TalkInv
  <1>2. /\ runAt[r] \in {"create", "open"} /\ file' = Empty /\ Proceed(r, "write")
        /\ UNCHANGED <<held, asked, told>>
    BY DEF Open
  <1>3. /\ runAt' \in [Run -> Line] /\ runAt'[r] = "write"
        /\ \A q \in Run : q # r => runAt'[q] = runAt[q]
    BY <1>1, <1>2, Jumps DEF Line
  <1>4. Empty \in Content /\ DOMAIN Empty.mem = {} /\ Repeats(Empty.mem, told)
    BY RepeatsEmpty DEF Empty, Content
  <1>5. TalkTyped'
    BY <1>1, <1>2, <1>3, <1>4 DEF TalkTyped
  <1>6. MemoryInOrder'
    BY <1>1, <1>2, <1>4 DEF MemoryInOrder
  <1>7. ToldOnce'
    <2>1. \A i \in DOMAIN told : told[i] \in Run
      BY <1>1 DEF TalkTyped
    <2>2. QED
      BY <1>1, <1>2, <1>3, <2>1 DEF ToldOnce
  <1>8. Ended'
    <2>1. \A q \in Run : runAt[q] = "end" => runAt'[q] = "end"
      BY <1>2, <1>3
    <2>2. \A q \in Run : \A i \in DOMAIN held[q].mem : held[q].mem[i] \in Run
      BY <1>1 DEF TalkTyped, Content
    <2>3. QED
      BY <1>1, <1>2, <1>4, <2>1, <2>2 DEF Ended
  <1>9. ContextFirst'
    BY <1>1, <1>2, <1>3 DEF ContextFirst
  <1>10. QED
    BY <1>5, <1>6, <1>7, <1>8, <1>9 DEF TalkInv

LEMMA WriteKeeps == ASSUME TalkInv, NEW r \in Run, Write(r) PROVE TalkInv'
  <1>1. TalkTyped /\ MemoryInOrder /\ ToldOnce /\ Ended /\ ContextFirst
    BY DEF TalkInv
  <1> DEFINE next == IF asked[r] = Empty THEN "context" ELSE "end"
  <1>2. /\ runAt[r] = "write" /\ file' = held[r] /\ Proceed(r, next)
        /\ UNCHANGED <<held, asked, told>>
    BY DEF Write
  <1>3. next \in Line /\ next \in {"context", "end"}
    BY DEF Line
  <1>4. asked[r] = Empty => \A i \in DOMAIN told : told[i] # r
    BY <1>1 DEF ToldOnce
  <1>5. asked[r] # Empty => next = "end"
    OBVIOUS
  <1> HIDE DEF next
  <1>6. /\ runAt' \in [Run -> Line] /\ runAt'[r] = next
        /\ \A q \in Run : q # r => runAt'[q] = runAt[q]
    BY <1>1, <1>2, <1>3, Jumps
  <1>7. TalkTyped'
    BY <1>1, <1>2, <1>6 DEF TalkTyped
  <1>8. MemoryInOrder'
    BY <1>1, <1>2 DEF MemoryInOrder
  <1>9. ToldOnce'
    <2>1. \A i \in DOMAIN told : told[i] \in Run
      BY <1>1 DEF TalkTyped
    <2>2. QED
      BY <1>1, <1>2, <1>4, <1>5, <1>6, <2>1 DEF ToldOnce
  <1>10. Ended'
    <2>1. \A q \in Run : runAt[q] = "end" => runAt'[q] = "end"
      BY <1>2, <1>6
    <2>2. \A q \in Run : \A i \in DOMAIN held[q].mem : held[q].mem[i] \in Run
      BY <1>1 DEF TalkTyped, Content
    <2>3. \A i \in DOMAIN held[r].mem : runAt'[held[r].mem[i]] = "end"
      <3>1. CASE asked[r] = Empty
        <4>1. DOMAIN held[r].mem = {}
          BY <1>1, <3>1 DEF ContextFirst
        <4>2. QED
          BY <4>1
      <3>2. CASE asked[r] # Empty
        BY <1>1, <1>5, <1>6, <2>1, <2>2, <3>2 DEF Ended
      <3>3. QED
        BY <3>1, <3>2
    <2>4. QED
      BY <1>1, <1>2, <2>1, <2>2, <2>3 DEF Ended
  <1>11. ContextFirst'
    BY <1>1, <1>2, <1>3, <1>6 DEF ContextFirst
  <1>12. QED
    BY <1>7, <1>8, <1>9, <1>10, <1>11 DEF TalkInv

LEMMA AppendKeeps == ASSUME TalkInv, NEW r \in Run, AppendSummary(r) PROVE TalkInv'
  <1>1. TalkTyped /\ MemoryInOrder /\ ToldOnce /\ Ended /\ ContextFirst
    BY DEF TalkInv
  <1> DEFINE new == IF file.kind = "list" THEN List(Append(file.mem, r)) ELSE Empty
             longer == Append(told, r)
  <1>2. /\ runAt[r] = "append" /\ held' = [held EXCEPT ![r] = new]
        /\ told' = longer /\ Proceed(r, "open")
        /\ UNCHANGED <<file, asked>>
    BY DEF AppendSummary
  <1>3. \A i \in DOMAIN told : told[i] # r
    BY <1>2, NotTold
  <1>4. asked[r] # Empty
    BY <1>1, <1>2 DEF ContextFirst
  <1>5. /\ runAt' \in [Run -> Line] /\ runAt'[r] = "open"
        /\ \A q \in Run : q # r => runAt'[q] = runAt[q]
    BY <1>1, <1>2, Jumps DEF Line
  <1>6. file.mem \in Seq(Run) /\ told \in Seq(Run)
    BY <1>1 DEF TalkTyped, Content
  <1>7. /\ longer \in Seq(Run)
        /\ DOMAIN longer = DOMAIN told \cup {Len(told) + 1}
        /\ longer[Len(told) + 1] = r
        /\ \A i \in DOMAIN told : longer[i] = told[i]
    BY <1>6
  <1>8. new \in Content /\ Repeats(new.mem, longer)
    <2>1. CASE file.kind = "list"
      <3>1. Append(file.mem, r) \in Seq(Run)
        BY <1>6
      <3>2. Repeats(Append(file.mem, r), longer)
        BY <1>1, <1>6, RepeatsExtended DEF MemoryInOrder
      <3>3. QED
        BY <2>1, <3>1, <3>2 DEF List, Content
    <2>2. CASE file.kind # "list"
      BY <2>2, RepeatsEmpty DEF Empty, Content
    <2>3. QED
      BY <2>1, <2>2
  <1>9. \A i \in DOMAIN new.mem : new.mem[i] = r \/ runAt[new.mem[i]] = "end"
    <2>1. CASE file.kind = "list"
      <3>1. \A i \in DOMAIN Append(file.mem, r) :
              \/ Append(file.mem, r)[i] = r
              \/ i \in DOMAIN file.mem /\ Append(file.mem, r)[i] = file.mem[i]
        BY <1>6
      <3>2. QED
        BY <1>1, <2>1, <3>1 DEF List, Ended
    <2>2. CASE file.kind # "list"
      BY <2>2 DEF Empty
    <2>3. QED
      BY <2>1, <2>2
  <1>10. \A i \in DOMAIN new.mem : new.mem[i] \in Run
    BY <1>8 DEF Content
  <1> HIDE DEF new
  <1>11. /\ held'[r] = new /\ held' \in [Run -> Content]
         /\ \A q \in Run : q # r => held'[q] = held[q]
    BY <1>1, <1>2, <1>8 DEF TalkTyped
  <1>12. TalkTyped'
    BY <1>1, <1>2, <1>5, <1>7, <1>11 DEF TalkTyped
  <1>13. MemoryInOrder'
    <2>1. \A m \in Seq(Run) : Repeats(m, told) => Repeats(m, longer)
      BY <1>6, RepeatsLonger
    <2>2. \A q \in Run : held[q].mem \in Seq(Run) /\ asked[q].mem \in Seq(Run)
      BY <1>1 DEF TalkTyped, Content
    <2> HIDE DEF longer
    <2>3. QED
      BY <1>1, <1>2, <1>6, <1>8, <1>11, <2>1, <2>2 DEF MemoryInOrder
  <1>14. ToldOnce'
    <2>1. \A i \in DOMAIN told : told[i] \in Run
      BY <1>6
    <2> HIDE DEF longer
    <2>2. \A i, j \in DOMAIN longer : longer[i] = longer[j] => i = j
      BY <1>1, <1>3, <1>7 DEF ToldOnce
    <2>3. \A i \in DOMAIN longer : /\ runAt'[longer[i]] \in {"open", "write", "end"}
                                   /\ asked[longer[i]] # Empty
      BY <1>1, <1>3, <1>4, <1>5, <1>7, <2>1 DEF ToldOnce
    <2>4. QED
      BY <1>2, <2>2, <2>3 DEF ToldOnce
  <1>15. Ended'
    <2>1. \A q \in Run : runAt[q] = "end" => runAt'[q] = "end"
      BY <1>2, <1>5
    <2>2. \A i \in DOMAIN file.mem : file.mem[i] \in Run
      BY <1>6
    <2>3. \A q \in Run : \A i \in DOMAIN held[q].mem : held[q].mem[i] \in Run
      BY <1>1 DEF TalkTyped, Content
    <2>4. QED
      BY <1>1, <1>2, <1>9, <1>10, <1>11, <2>1, <2>2, <2>3 DEF Ended
  <1>16. ContextFirst'
    BY <1>1, <1>2, <1>4, <1>5, <1>11 DEF ContextFirst
  <1>17. QED
    BY <1>12, <1>13, <1>14, <1>15, <1>16 DEF TalkInv

----------------------------------------------------------------------------

LEMMA TalkStepInv == TalkInv /\ [GroqNext]_groqVars => TalkInv'
  <1> SUFFICES ASSUME TalkInv, [GroqNext]_groqVars PROVE TalkInv'
    OBVIOUS
  <1>1. CASE UNCHANGED groqVars
    BY <1>1 DEF groqVars, TalkInv, TalkTyped, MemoryInOrder, ToldOnce, Ended, ContextFirst
  <1>2. ASSUME NEW r \in Run, RunStep(r) \/ InterruptRun(r) PROVE TalkInv'
    BY <1>2, BeginKeeps, OpenKeeps, WriteKeeps, ReadContextKeeps, AskKeeps,
       AppendKeeps, TalkInterruptKeeps DEF RunStep
  <1>3. QED
    BY <1>1, <1>2 DEF GroqNext

LEMMA TalkSpecInv == GroqSpec => []TalkInv
  BY TalkInitInv, TalkStepInv, PTL DEF GroqSpec

\* However many runs of groqai.sh overlap and wherever they are interrupted, no
\* context and no session file holds summaries out of order or twice.
THEOREM ConversationInOrder == GroqSpec => []MemoryInOrder
  <1>1. TalkInv => MemoryInOrder
    BY DEF TalkInv
  <1>2. QED
    BY <1>1, TalkSpecInv, PTL

\* A run is summarised once, after its answer, and does nothing more once its
\* summary is in the session file.
THEOREM SummariesToldOnce == GroqSpec => []GroqTypeOK
  <1>1. TalkInv => GroqTypeOK
    BY DEF TalkInv, TalkTyped, ToldOnce, Ended, GroqTypeOK
  <1>2. QED
    BY <1>1, TalkSpecInv, PTL

----------------------------------------------------------------------------
(* Runs that take turns *)

Writing == {"create", "open", "write"}
Reading == {"context", "ask", "summarise", "append"}

\* The file is one list of all that was told.
Whole == file = List(told) /\ rest = file

\* Where the conversation is while no two runs have overlapped and none was
\* interrupted: in the file, or held by the run that has emptied the file or is
\* about to.  A file that was never written goes with an empty conversation.
InHands ==
  /\ \A p, q \in Active : p = q
  /\ \A r \in Run : /\ runAt[r] \in Writing => held[r] = List(told)
                    /\ runAt[r] = "write" => rest = Empty
                    /\ runAt[r] \in Reading => Whole
  /\ Active = {} => Whole \/ (file = Absent /\ told = << >>)

Kept == runKills \in Nat /\ inTurn \in BOOLEAN /\ (inTurn /\ runKills = 0 => InHands)

LEMMA InitKept == GroqInit => Kept
  BY DEF GroqInit, Kept, InHands, Active, Writing, Reading

\* A run is active at the lines between the first and the last.
LEMMA ActiveLines ==
  ASSUME TalkTyped
  PROVE  /\ Active \subseteq Run
         /\ \A r \in Run : r \in Active <=> runAt[r] \in Writing \cup Reading
  BY DEF TalkTyped, Line, Active, Writing, Reading

\* The one active run goes on to another line or ends, and the conversation is
\* where the new line wants it.
LEMMA TurnGoesOn ==
  ASSUME TalkTyped, InHands, NEW r \in Active, NEW line \in Line \ {"idle"}, Proceed(r, line),
         line \in Writing => held'[r] = List(told'),
         line = "write" => rest' = Empty,
         line \notin Writing => Whole'
  PROVE  InHands'
  <1>1. r \in Run /\ \A q \in Active : q = r
    BY DEF InHands, Active
  <1>2. /\ runAt' \in [Run -> Line] /\ runAt'[r] = line
        /\ \A q \in Run : q # r => runAt'[q] = runAt[q]
    BY <1>1, Jumps
  <1>3. \A q \in Run : q # r => runAt'[q] \in {"idle", "end"}
    BY <1>1, <1>2 DEF Active
  <1>4. Active' \subseteq {r} /\ (line # "end" => r \in Active')
    BY <1>1, <1>2, <1>3 DEF Active, Line
  <1>5. \A p, q \in Active' : p = q
    BY <1>4
  <1>6. \A q \in Run : /\ runAt'[q] \in Writing => held'[q] = List(told')
                       /\ runAt'[q] = "write" => rest' = Empty
                       /\ runAt'[q] \in Reading => Whole'
    BY <1>2, <1>3 DEF Writing, Reading
  <1>7. Active' = {} => Whole'
    BY <1>4 DEF Writing
  <1>8. QED
    BY <1>5, <1>6, <1>7 DEF InHands

LEMMA BeginKept == ASSUME TalkTyped, Kept, NEW r \in Run, Begin(r) PROVE Kept'
  <1>1. runKills' \in Nat /\ inTurn' \in BOOLEAN
    BY DEF Kept, Begin
  <1>2. ASSUME inTurn', runKills' = 0 PROVE InHands'
    <2>1. Active = {} /\ InHands /\ UNCHANGED <<file, rest, told>>
      BY <1>2 DEF Kept, Begin
    <2>2. \A q \in Run : runAt[q] \in {"idle", "end"}
      BY <2>1 DEF Active
    <2>3. ASSUME NEW line \in {"create", "context"}, Proceed(r, line),
                 line = "create" => held'[r] = List(told'),
                 line = "context" => Whole'
          PROVE  InHands'
      <3>1. /\ runAt' \in [Run -> Line] /\ runAt'[r] = line
            /\ \A q \in Run : q # r => runAt'[q] = runAt[q]
        BY <2>3, Jumps DEF Line
      <3>2. Active' = {r}
        BY <2>2, <2>3, <3>1 DEF Active
      <3>3. QED
        BY <2>2, <2>3, <3>1, <3>2 DEF InHands, Writing, Reading
    <2>4. CASE file.kind = "absent"
      <3>1. Proceed(r, "create") /\ held' = [held EXCEPT ![r] = List(<< >>)]
        BY <2>4 DEF Begin
      <3>2. held'[r] = List(<< >>)
        BY <3>1 DEF TalkTyped
      <3>3. told' = << >>
        BY <2>1, <2>4 DEF InHands, Whole, List
      <3>4. QED
        BY <2>3, <3>1, <3>2, <3>3
    <2>5. CASE file.kind # "absent"
      <3>1. Proceed(r, "context")
        BY <2>5 DEF Begin
      <3>2. Whole'
        BY <2>1, <2>5 DEF InHands, Whole, Absent
      <3>3. QED
        BY <2>3, <3>1, <3>2
    <2>6. QED
      BY <2>4, <2>5
  <1>3. QED
    BY <1>1, <1>2 DEF Kept

\* What every step of an active run has in common.
LEMMA TurnStep ==
  ASSUME TalkTyped, Kept, NEW r \in Run, RunStep(r), ~ Begin(r)
  PROVE  /\ UNCHANGED <<runKills, inTurn>> /\ r \in Active
         /\ inTurn /\ runKills = 0 => InHands
  <1>1. runAt[r] \notin {"idle", "end"} /\ UNCHANGED <<runKills, inTurn>>
    BY DEF RunStep, Open, Write, ReadContext, Ask, Summarise, AppendSummary
  <1>2. QED
    BY <1>1 DEF Active, Kept

LEMMA TurnKept ==
  ASSUME TalkTyped, Kept, NEW r \in Run, RunStep(r), ~ Begin(r) PROVE Kept'
  <1>1. /\ UNCHANGED <<runKills, inTurn>> /\ r \in Active
        /\ inTurn /\ runKills = 0 => InHands
    BY TurnStep
  <1>2. SUFFICES ASSUME InHands PROVE InHands'
    BY <1>1 DEF Kept
  <1>3. CASE Open(r)
    <2>1. held'[r] = List(told') /\ rest' = Empty /\ Proceed(r, "write")
      BY <1>2, <1>3 DEF Open, InHands, Writing
    <2>2. QED
      BY <1>1, <1>2, <2>1, TurnGoesOn DEF Line, Writing
  <1>4. CASE Write(r)
    <2>1. held[r] = List(told) /\ rest = Empty
      BY <1>2, <1>4 DEF Write, InHands, Writing
    <2>2. ~ Outlasts(rest, held[r])
      BY <2>1 DEF Outlasts, Empty
    <2>3. Whole' /\ (Proceed(r, "context") \/ Proceed(r, "end"))
      BY <1>4, <2>1, <2>2 DEF Write, Whole
    <2>4. QED
      BY <1>1, <1>2, <2>3, TurnGoesOn DEF Line, Writing
  <1>5. CASE ReadContext(r) \/ Ask(r) \/ Summarise(r)
    <2>1. runAt[r] \in Reading /\ UNCHANGED <<file, rest, told>>
      BY <1>5 DEF ReadContext, Ask, Summarise, Reading
    <2>2. Whole'
      BY <1>2, <2>1 DEF InHands, Whole
    <2>3. \E line \in {"ask", "end", "summarise", "append"} : Proceed(r, line)
      BY <1>5 DEF ReadContext, Ask, Summarise
    <2>4. QED
      BY <1>1, <1>2, <2>2, <2>3, TurnGoesOn DEF Line, Writing
  <1>6. CASE AppendSummary(r)
    <2>1. file = List(told)
      BY <1>2, <1>6 DEF AppendSummary, InHands, Whole, Reading
    <2>2. held' = [held EXCEPT ![r] = List(Append(told, r))]
      BY <1>6, <2>1 DEF AppendSummary, List
    <2>3. held'[r] = List(told') /\ Proceed(r, "open")
      BY <1>6, <2>2 DEF AppendSummary, TalkTyped
    <2>4. QED
      BY <1>1, <1>2, <2>3, TurnGoesOn DEF Line, Writing
  <1>7. QED
    BY <1>3, <1>4, <1>5, <1>6 DEF RunStep

LEMMA InterruptKept == ASSUME Kept, NEW r \in Run, InterruptRun(r) PROVE Kept'
  BY DEF Kept, InterruptRun

LEMMA StepKept == TalkTyped /\ Kept /\ [GroqNext]_groqVars => Kept'
  <1>1. ASSUME Kept, UNCHANGED groqVars PROVE Kept'
    BY <1>1 DEF Kept, InHands, Whole, Active, groqVars
  <1>2. ASSUME TalkTyped, Kept, NEW r \in Run, RunStep(r) \/ InterruptRun(r) PROVE Kept'
    BY <1>2, BeginKept, TurnKept, InterruptKept
  <1>3. QED
    BY <1>1, <1>2 DEF GroqNext

\* Each summary is told once and in order, also when runs that overlap write over
\* each other's text, and as long as the terminals take turns with groqai.sh the
\* file is one list of all that was told, whichever requests fail.
THEOREM ConversationSound == GroqSpec => []MemorySound
  <1>1. TalkInv => TalkTyped
    BY DEF TalkInv
  <1>2. Kept => MemoryComplete
    BY DEF Kept, InHands, Whole, Readable, List, MemoryComplete
  <1>3. GroqSpec => []Kept
    BY <1>1, InitKept, StepKept, TalkSpecInv, PTL DEF GroqSpec
  <1>4. GroqTypeOK /\ MemoryInOrder /\ MemoryComplete => MemorySound
    BY DEF MemorySound
  <1>5. QED
    BY <1>2, <1>3, <1>4, ConversationInOrder, SummariesToldOnce, PTL


----------------------------------------------------------------------------
(***************************************************************************)
(* utils/qemu-vm-manager.sh, for every number of machines, ports and       *)
(* terminals.                                                              *)
(*                                                                         *)
(* The machines that run: stop shuts down the machine that was chosen,     *)
(* whatever process ids occur in whatever lines of the process list.  A    *)
(* machine that runs in mode ssh is always among the lines that its own id *)
(* finds, so a lookup with one result found its port, and nobody else can  *)
(* have that port while it runs.  Since a start is never repeated, a       *)
(* machine that runs when ssh connects ran at the lookup too.              *)
(*                                                                         *)
(* The files: the block device is given back, and the image of the disks   *)
(* is not written again.  The first is inductive with the types.  For the  *)
(* second, terminals that wait for each other have at most one command,    *)
(* and a command that may write the image has found none, so that no disk  *)
(* can have been made of it yet (OneCommand, ImageFirst).                  *)
(***************************************************************************)
QvmTyped ==
  /\ stopAt \in [Console -> {"idle", "pid", "ssh"}]
  /\ chosen \in [Console -> Vm \cup {NoVm}]
  /\ found \in [Console -> SUBSET Vm]

\* The lookup found the chosen machine if it still runs.
FoundItself ==
  \A t \in Console :
    stopAt[t] = "ssh" /\ chosen[t] \in up \ Graphical => chosen[t] \in found[t]

QvmInv == QvmTyped /\ GuestsTypeOK /\ FoundItself /\ StopHitsChosen

LEMMA QvmInitInv == GuestInit => QvmInv
  BY DEF GuestInit, QvmInv, QvmTyped, GuestsTypeOK, FoundItself, StopHitsChosen

LEMMA StartKeeps == ASSUME QvmInv, NEW v \in Vm, StartVm(v) PROVE QvmInv'
  <1>1. /\ v \notin was /\ was' = was \cup {v}
        /\ up' = up \/ (/\ up' = up \cup {v}
                        /\ v \in Graphical \/
                           \A w \in up \ Graphical : PortOf[w] # PortOf[v])
        /\ UNCHANGED <<stopAt, chosen, found, hits>>
    BY DEF StartVm
  <1>2. QvmTyped'
    BY <1>1 DEF QvmInv, QvmTyped
  <1>3. GuestsTypeOK'
    BY <1>1 DEF QvmInv, GuestsTypeOK
  <1>4. FoundItself'
    BY <1>1 DEF QvmInv, GuestsTypeOK, FoundItself, QvmTyped
  <1>5. StopHitsChosen'
    BY <1>1 DEF QvmInv, StopHitsChosen
  <1>6. QED
    BY <1>2, <1>3, <1>4, <1>5 DEF QvmInv

LEMMA PowerOffKeeps == ASSUME QvmInv, NEW v \in Vm, PowerOff(v) PROVE QvmInv'
  BY DEF PowerOff, QvmInv, QvmTyped, GuestsTypeOK, FoundItself, StopHitsChosen

LEMMA StopVmKeeps == ASSUME QvmInv, NEW t \in Console, StopVm(t) PROVE QvmInv'
  <1>1. PICK v \in up : chosen' = [chosen EXCEPT ![t] = v]
    BY DEF StopVm
  <1>2. /\ stopAt' = [stopAt EXCEPT ![t] = "pid"] /\ UNCHANGED <<up, was, found, hits>>
    BY DEF StopVm
  <1>3. v \in Vm /\ v \in was
    BY DEF QvmInv, GuestsTypeOK
  <1>4. QvmTyped'
    BY <1>1, <1>2, <1>3 DEF QvmInv, QvmTyped
  <1>5. GuestsTypeOK'
    BY <1>1, <1>2, <1>3 DEF QvmInv, QvmTyped, GuestsTypeOK
  <1>6. FoundItself'
    BY <1>1, <1>2 DEF QvmInv, QvmTyped, FoundItself
  <1>7. StopHitsChosen'
    BY <1>2 DEF QvmInv, StopHitsChosen
  <1>8. QED
    BY <1>4, <1>5, <1>6, <1>7 DEF QvmInv

LEMMA LookupKeeps == ASSUME QvmInv, NEW t \in Console, Lookup(t) PROVE QvmInv'
  <1> DEFINE lines == {w \in up \ Graphical :
                         w = chosen[t] \/ <<chosen[t], w>> \in Occurs}
  <1>1. /\ stopAt[t] = "pid" /\ found' = [found EXCEPT ![t] = lines]
        /\ stopAt' = [stopAt EXCEPT ![t] = "ssh"] /\ UNCHANGED <<up, was, chosen, hits>>
    BY DEF Lookup
  <1>2. /\ lines \subseteq Vm /\ lines \subseteq was
        /\ chosen[t] \in up \ Graphical => chosen[t] \in lines
    BY DEF QvmInv, GuestsTypeOK
  <1> HIDE DEF lines
  <1>3. QvmTyped'
    BY <1>1, <1>2 DEF QvmInv, QvmTyped
  <1>4. GuestsTypeOK'
    BY <1>1, <1>2 DEF QvmInv, QvmTyped, GuestsTypeOK
  <1>5. FoundItself'
    BY <1>1, <1>2 DEF QvmInv, QvmTyped, FoundItself
  <1>6. StopHitsChosen'
    BY <1>1 DEF QvmInv, StopHitsChosen
  <1>7. QED
    BY <1>3, <1>4, <1>5, <1>6 DEF QvmInv

LEMMA SshKeeps == ASSUME QvmInv, NEW t \in Console, Ssh(t) PROVE QvmInv'
  <1>1. /\ stopAt[t] = "ssh" /\ stopAt' = [stopAt EXCEPT ![t] = "idle"]
        /\ chosen' = [chosen EXCEPT ![t] = NoVm]
        /\ found' = [found EXCEPT ![t] = {}] /\ UNCHANGED <<up, was>>
    BY DEF Ssh
  <1>2. QvmTyped'
    BY <1>1 DEF QvmInv, QvmTyped
  <1>3. GuestsTypeOK'
    BY <1>1 DEF QvmInv, QvmTyped, GuestsTypeOK
  <1>4. FoundItself'
    BY <1>1 DEF QvmInv, QvmTyped, FoundItself
  <1>5. StopHitsChosen'
    <2>1. CASE hits' = hits
      BY <2>1 DEF QvmInv, StopHitsChosen
    <2>2. ASSUME NEW f \in found[t], NEW w \in up \ Graphical,
                 found[t] = {f}, PortOf[w] = PortOf[f],
                 hits' = hits \cup {Record(t, w)}
          PROVE  StopHitsChosen'
      <3>1. chosen[t] \in up \ Graphical => w = chosen[t]
        <4>1. SUFFICES ASSUME chosen[t] \in up \ Graphical PROVE w = chosen[t]
          OBVIOUS
        <4>2. chosen[t] = f
          BY <1>1, <2>2, <4>1 DEF QvmInv, FoundItself
        <4>3. QED
          BY <2>2, <4>1, <4>2 DEF QvmInv, GuestsTypeOK
      <3>2. \A h \in hits : h.running /\ h.chosen \notin Graphical
                            => h.hit = h.chosen
        BY DEF QvmInv, StopHitsChosen
      <3>3. LET h == Record(t, w)
            IN  h.running /\ h.chosen \notin Graphical => h.hit = h.chosen
        BY <3>1 DEF Record
      <3>4. QED
        BY <2>2, <3>2, <3>3 DEF StopHitsChosen
    <2>3. QED
      BY <2>1, <2>2 DEF Ssh
  <1>6. QED
    BY <1>2, <1>3, <1>4, <1>5 DEF QvmInv

LEMMA QvmStepInv == QvmInv /\ [GuestNext]_guestVars => QvmInv'
  <1> SUFFICES ASSUME QvmInv, [GuestNext]_guestVars PROVE QvmInv'
    OBVIOUS
  <1>1. CASE UNCHANGED guestVars
    BY <1>1 DEF guestVars, QvmInv, QvmTyped, GuestsTypeOK, FoundItself, StopHitsChosen
  <1>2. ASSUME NEW v \in Vm, StartVm(v) \/ PowerOff(v) PROVE QvmInv'
    BY <1>2, StartKeeps, PowerOffKeeps
  <1>3. ASSUME NEW t \in Console, StopVm(t) \/ Lookup(t) \/ Ssh(t) PROVE QvmInv'
    BY <1>3, StopVmKeeps, LookupKeeps, SshKeeps
  <1>4. QED
    BY <1>1, <1>2, <1>3 DEF GuestNext

LEMMA QvmSpecInv == GuestSpec => []QvmInv
  BY QvmInitInv, QvmStepInv, PTL DEF GuestSpec

\* While the machine chosen by its process id runs in mode ssh, the shutdown
\* command of stop reaches it and no other machine.
THEOREM StopIsPrecise == GuestSpec => []StopHitsChosen
  <1>1. QvmInv => StopHitsChosen
    BY DEF QvmInv
  <1>2. QED
    BY <1>1, QvmSpecInv, PTL

\* No two machines of mode ssh that run have the same port of the host.
THEOREM PortsAreExclusive == GuestSpec => []GuestsTypeOK
  <1>1. QvmInv => GuestsTypeOK
    BY DEF QvmInv
  <1>2. QED
    BY <1>1, QvmSpecInv, PTL

\* For any machines, ports, ids and terminals: no two machines share a port, and
\* none is shut down in the place of another.
THEOREM GuestsStaySafe == GuestSpec => []GuestsSafe
  <1>1. GuestsTypeOK /\ StopHitsChosen => GuestsSafe
    BY DEF GuestsSafe
  <1>2. QED
    BY <1>1, PortsAreExclusive, StopIsPrecise, PTL

----------------------------------------------------------------------------
(* The files *)

DiskTypeOK ==
  /\ base \in {"absent", "partial", "full"} /\ seed \in {"absent", "partial", "full"}
  /\ disk \in {"absent", "blank", "half", "installed"}
  /\ nbd \in BOOLEAN /\ boot \in Tty \cup {None}
  /\ at \in [Tty -> Step]
  /\ leaks \in Nat

DiskInv == DiskTypeOK /\ DeviceReleased

\* One terminal goes to another step, the others stay.
LEMMA StepGoes ==
  ASSUME DiskTypeOK, NEW t \in Tty, NEW step \in Step, GotoStep(t, step)
  PROVE  /\ at' \in [Tty -> Step] /\ at'[t] = step
         /\ \A u \in Tty : u # t => at'[u] = at[u]
  BY DEF DiskTypeOK, GotoStep

Fetching == {"image", "curl", "data", "late"}
Building == {"seed", "mkisofs", "iso", "create", "qemu", "guest"}
OnDevice == {"fdisk", "device", "release", "disconnect"}

LEMMA DiskInitInv == DiskInit => DiskInv
  <1>1. ASSUME DiskInit PROVE DiskTypeOK
    BY <1>1 DEF DiskInit, DiskTypeOK, Step
  <1>2. ASSUME DiskInit PROVE DeviceReleased
    BY <1>2 DEF DiskInit, DeviceReleased
  <1>3. QED
    BY <1>1, <1>2 DEF DiskInv

\* The steps that leave the device and qemu alone.
LEMMA FilesKeep ==
  ASSUME DiskInv, NEW t \in Tty,
         \/ InstallVm(t) \/ Download(t) \/ Fetch(t) \/ Downloaded(t) \/ SeedMissing(t)
         \/ Mkisofs(t) \/ Seeded(t) \/ CreateDisk(t) \/ RemoveSeed(t) \/ MountQcow(t)
  PROVE  DiskInv'
  <1> USE DEF files, Command, Step
  <1>1. DiskTypeOK /\ DeviceReleased
    BY DEF DiskInv
  <1>2. /\ UNCHANGED <<nbd, boot, leaks>> /\ at[t] \notin OnDevice \cup {"guest"}
        /\ base' \in {"absent", "partial", "full"} /\ seed' \in {"absent", "partial", "full"}
        /\ disk' = disk \/ (boot = None /\ disk' = "blank")
    BY <1>1 DEF InstallVm, Download, Fetch, Downloaded, SeedMissing, Mkisofs, Seeded,
                CreateDisk, Locked, RemoveSeed, MountQcow, DiskTypeOK, OnDevice
  <1>3. /\ at' \in [Tty -> Step]
        /\ \A u \in Tty : at[u] \in OnDevice \cup {"guest"} => at'[u] = at[u]
    <2>1. ASSUME NEW step \in Step, GotoStep(t, step)
          PROVE  /\ at' \in [Tty -> Step]
                 /\ \A u \in Tty : at[u] \in OnDevice \cup {"guest"} => at'[u] = at[u]
      BY <1>1, <1>2, <2>1, StepGoes
    <2>2. CASE Fetch(t)
      <3>1. CASE at' = [u \in Tty |-> IF u = t THEN "data"
                                      ELSE IF at[u] = "data" THEN "late" ELSE at[u]]
        BY <1>1, <1>2, <3>1 DEF DiskTypeOK, OnDevice
      <3>2. QED
        BY <2>1, <2>2, <3>1 DEF Fetch
    <2>3. CASE ~ Fetch(t)
      BY <2>1, <2>3 DEF InstallVm, Download, Downloaded, SeedMissing, Mkisofs, Seeded,
                        CreateDisk, RemoveSeed, MountQcow
    <2>4. QED
      BY <2>2, <2>3
  <1>4. DiskTypeOK'
    BY <1>1, <1>2, <1>3 DEF DiskTypeOK
  <1>5. DeviceReleased'
    BY <1>1, <1>2, <1>3 DEF DiskTypeOK, DeviceReleased, OnDevice
  <1>6. QED
    BY <1>4, <1>5 DEF DiskInv

LEMMA QemuKeeps == ASSUME DiskInv, NEW t \in Tty, BootInstaller(t) \/ Installed(t) PROVE DiskInv'
  <1>1. DiskTypeOK /\ DeviceReleased
    BY DEF DiskInv
  <1>2. /\ UNCHANGED <<base, seed, nbd, leaks>> /\ at[t] \in {"qemu", "guest"}
        /\ \/ GotoStep(t, "rmseed") /\ boot' = boot /\ disk' = disk /\ at[t] = "qemu"
           \/ GotoStep(t, "rmseed") /\ boot' = None /\ disk' \in {"half", "installed"}
           \/ GotoStep(t, "guest") /\ boot = None /\ boot' = t /\ disk' = "half" /\ ~nbd
    BY DEF BootInstaller, Installed, Locked
  <1>3. \E step \in {"rmseed", "guest"} : GotoStep(t, step)
    BY <1>2
  <1>4. /\ at' \in [Tty -> Step]
        /\ GotoStep(t, "guest") => at'[t] = "guest"
        /\ \A u \in Tty : u # t => at'[u] = at[u]
    BY <1>1, <1>3, StepGoes DEF Step
  <1>5. DiskTypeOK'
    BY <1>1, <1>2, <1>4 DEF DiskTypeOK
  <1>6. DeviceReleased'
    BY <1>1, <1>2, <1>4, TtyAssumption DEF DiskTypeOK, DeviceReleased
  <1>7. QED
    BY <1>5, <1>6 DEF DiskInv

LEMMA DeviceKeeps ==
  ASSUME DiskInv, NEW t \in Tty,
         Connect(t) \/ ListPartitions(t) \/ MountDevice(t) \/ Release(t) \/ UmountQcow(t)
  PROVE  DiskInv'
  <1> USE DEF files, Command
  <1>1. DiskTypeOK /\ DeviceReleased
    BY DEF DiskInv
  <1>2. UNCHANGED <<base, seed, disk, boot>> /\ at[t] # "guest"
    BY DEF Connect, ListPartitions, MountDevice, Release, UmountQcow
  <1>3. PICK step \in OnDevice \cup {"idle"} : GotoStep(t, step)
    BY DEF Connect, ListPartitions, MountDevice, Release, UmountQcow, OnDevice
  <1>4. /\ at' \in [Tty -> Step] /\ at'[t] = step
        /\ \A u \in Tty : u # t => at'[u] = at[u]
    BY <1>1, <1>3, StepGoes DEF Step, OnDevice
  <1>5. /\ nbd' \in BOOLEAN /\ leaks' \in Nat
        /\ boot # None => ~nbd'
        /\ nbd' => leaks' > 0 \/ step # "idle" \/ (at[t] \notin OnDevice /\ nbd /\ leaks' = leaks)
    <2>1. CASE Connect(t)
      <3>1. CASE Locked
        BY <1>1, <2>1, <3>1 DEF Connect, DiskTypeOK, DeviceReleased, OnDevice
      <3>2. CASE ~Locked
        <4>1. GotoStep(t, "fdisk") /\ nbd' = TRUE /\ boot = None /\ UNCHANGED leaks
          BY <2>1, <3>2 DEF Connect, Locked
        <4>2. step = "fdisk"
          BY <1>1, <1>4, <4>1, StepGoes DEF Step
        <4>3. QED
          BY <1>1, <4>1, <4>2 DEF DiskTypeOK
      <3>3. QED
        BY <3>1, <3>2
    <2>2. CASE ListPartitions(t)
      <3>1. CASE GotoStep(t, "device") /\ UNCHANGED leaks
        BY <1>1, <1>4, <2>2, <3>1, StepGoes DEF ListPartitions, DiskTypeOK, DeviceReleased, Step
      <3>2. CASE leaks' = leaks + 1
        BY <1>1, <2>2, <3>2 DEF ListPartitions, DiskTypeOK, DeviceReleased
      <3>3. QED
        BY <2>2, <3>1, <3>2 DEF ListPartitions
    <2>3. CASE MountDevice(t)
      <3>1. step = "release"
        BY <1>1, <1>4, <2>3, StepGoes DEF MountDevice, Step
      <3>2. QED
        BY <1>1, <2>3, <3>1 DEF MountDevice, DiskTypeOK, DeviceReleased
    <2>4. CASE Release(t)
      BY <2>4 DEF Release
    <2>5. CASE UmountQcow(t)
      <3>1. step = "disconnect"
        BY <1>1, <1>4, <2>5, StepGoes DEF UmountQcow, Step
      <3>2. QED
        BY <1>1, <2>5, <3>1 DEF UmountQcow, DiskTypeOK, DeviceReleased
    <2>6. QED
      BY <2>1, <2>2, <2>3, <2>4, <2>5
  <1>6. DiskTypeOK'
    BY <1>1, <1>2, <1>4, <1>5 DEF DiskTypeOK
  <1>7. nbd' => leaks' > 0 \/ \E u \in Tty : at'[u] \in OnDevice
    <2>1. CASE step # "idle"
      BY <1>4, <2>1
    <2>2. CASE at[t] \notin OnDevice /\ nbd /\ leaks' = leaks
      BY <1>1, <1>4, <2>2 DEF DeviceReleased, OnDevice
    <2>3. QED
      BY <1>5, <2>1, <2>2
  <1>8. boot # None => at'[boot] = "guest"
    BY <1>1, <1>2, <1>4 DEF DiskTypeOK, DeviceReleased
  <1>9. DeviceReleased'
    BY <1>1, <1>2, <1>5, <1>7, <1>8 DEF DeviceReleased, OnDevice
  <1>10. QED
    BY <1>6, <1>9 DEF DiskInv

\* Where an interrupt can take a terminal.
LEMMA Interrupted ==
  ASSUME DiskTypeOK, NEW t \in Tty, Interrupt(t)
  PROVE  /\ at' \in [Tty -> Step]
         /\ at'[t] \in {"idle", "rmseed", "release"}
         /\ at[t] \in {"device", "release"} => at'[t] = "release"
         /\ \A u \in Tty : u # t => at'[u] = at[u]
         /\ leaks' = IF at[t] \in {"fdisk", "disconnect"} THEN leaks + 1 ELSE leaks
         /\ boot' = IF boot = t THEN None ELSE boot
         /\ UNCHANGED <<files, alone>>
  <1>1. PICK step \in {"idle", "rmseed", "release"} :
          /\ at[t] \in {"device", "release"} => step = "release"
          /\ GotoStep(t, step)
    BY DEF Interrupt
  <1>2. QED
    BY <1>1, StepGoes DEF Interrupt, Step

LEMMA QvmInterruptKeeps == ASSUME DiskInv, NEW t \in Tty, Interrupt(t) PROVE DiskInv'
  <1> USE DEF files
  <1>1. DiskTypeOK /\ DeviceReleased
    BY DEF DiskInv
  <1>2. DiskTypeOK'
    BY <1>1, Interrupted DEF DiskTypeOK
  <1>3. nbd' => leaks' > 0 \/ \E u \in Tty : at'[u] \in OnDevice
    <2> SUFFICES ASSUME nbd', ~(leaks' > 0)
                 PROVE  \E u \in Tty : at'[u] \in OnDevice
      OBVIOUS
    <2>0. leaks \in Nat /\ leaks' = IF at[t] \in {"fdisk", "disconnect"} THEN leaks + 1 ELSE leaks
      BY <1>1, Interrupted DEF DiskTypeOK
    <2>1. nbd /\ ~(leaks > 0) /\ at[t] \notin {"fdisk", "disconnect"}
      <3>1. nbd
        BY <1>1, Interrupted
      <3>2. at[t] \notin {"fdisk", "disconnect"}
        BY <2>0
      <3>3. QED
        BY <2>0, <3>1, <3>2
    <2>2. PICK u \in Tty : at[u] \in OnDevice
      BY <1>1, <2>1 DEF DeviceReleased, OnDevice
    <2>3. CASE u = t
      BY <1>1, <2>1, <2>2, <2>3, Interrupted DEF OnDevice, DiskTypeOK
    <2>4. CASE u # t
      BY <1>1, <2>2, <2>4, Interrupted
    <2>5. QED
      BY <2>3, <2>4
  <1>4. boot' # None => at'[boot'] = "guest" /\ ~nbd' /\ disk' \in {"half", "installed"}
    BY <1>1, Interrupted DEF DiskTypeOK, DeviceReleased
  <1>5. QED
    BY <1>2, <1>3, <1>4 DEF DiskInv, DeviceReleased, OnDevice

LEMMA DiskStepInv == DiskInv /\ [DiskNext]_diskVars => DiskInv'
  <1>1. ASSUME DiskInv, UNCHANGED diskVars PROVE DiskInv'
    BY <1>1 DEF DiskInv, DiskTypeOK, DeviceReleased, diskVars
  <1>2. ASSUME DiskInv, DiskNext PROVE DiskInv'
    BY <1>2, FilesKeep, QemuKeeps, DeviceKeeps, QvmInterruptKeeps DEF DiskNext
  <1>3. QED
    BY <1>1, <1>2

LEMMA DiskSpecInv == DiskSpec => []DiskInv
  BY DiskInitInv, DiskStepInv, PTL DEF DiskSpec

\* Whatever terminals mount, install and interrupt: the block device is connected
\* only during a command or because one ended without its trap, and never while
\* a guest has the disk.
THEOREM DeviceIsReleased == DiskSpec => []DeviceReleased
  BY DiskSpecInv, PTL DEF DiskInv

----------------------------------------------------------------------------

\* Terminals that wait for each other have one command at a time.
OneCommand == alone => \A t, u \in Tty : at[t] # "idle" /\ at[u] # "idle" => t = u

\* A command that may write the image has found none, one that uses it has found
\* it, and every disk was made of it.
ImageFirst ==
  alone =>
    /\ disk # "absent" => base # "absent"
    /\ \A t \in Tty : /\ at[t] \in {"curl", "data", "late"} => disk = "absent"
                      /\ at[t] = "curl" => base = "absent"
                      /\ at[t] \in {"data", "late"} => base # "absent"
                      /\ at[t] \in Building => base # "absent"

ImageInv == DiskTypeOK /\ OneCommand /\ ImageFirst

\* A step of one terminal keeps both if it goes where the image allows.
LEMMA OneMoves ==
  ASSUME ImageInv, NEW t \in Tty, NEW step \in Step, GotoStep(t, step),
         \/ alone' = (alone /\ \A u \in Tty : at[u] = "idle")
         \/ alone' = alone /\ at[t] # "idle",
         alone' => /\ disk' # "absent" => base' # "absent"
                   /\ step \in {"curl", "data", "late"} => disk' = "absent"
                   /\ step = "curl" => base' = "absent"
                   /\ step \in {"data", "late"} \cup Building => base' # "absent"
  PROVE  OneCommand' /\ ImageFirst'
  <1>1. DiskTypeOK /\ OneCommand
    BY DEF ImageInv
  <1>2. at'[t] = step /\ \A u \in Tty : u # t => at'[u] = at[u]
    BY <1>1, StepGoes
  <1>3. alone' => \A u \in Tty : u # t => at'[u] = "idle"
    BY <1>1, <1>2 DEF OneCommand
  <1>4. QED
    BY <1>2, <1>3 DEF OneCommand, ImageFirst, Building

\* The commands that are typed.
LEMMA CommandImage ==
  ASSUME ImageInv, NEW t \in Tty, InstallVm(t) \/ MountQcow(t) \/ UmountQcow(t)
  PROVE  OneCommand' /\ ImageFirst'
  <1>1. UNCHANGED <<base, disk>> /\ alone' = (alone /\ \A u \in Tty : at[u] = "idle")
    BY DEF InstallVm, MountQcow, UmountQcow, Command, files
  <1>2. PICK step \in {"image", "connect", "disconnect"} : GotoStep(t, step)
    BY DEF InstallVm, MountQcow, UmountQcow
  <1>3. alone' => (disk' # "absent" => base' # "absent")
    BY <1>1 DEF ImageInv, ImageFirst
  <1>4. QED
    BY <1>1, <1>2, <1>3, OneMoves DEF Step, Building

\* The steps of a command but for the transfer of the image.
LEMMA BuildImage ==
  ASSUME ImageInv, NEW t \in Tty,
         \/ Download(t) \/ SeedMissing(t) \/ Mkisofs(t) \/ Seeded(t) \/ CreateDisk(t)
         \/ BootInstaller(t) \/ Installed(t) \/ RemoveSeed(t) \/ Connect(t)
         \/ ListPartitions(t) \/ MountDevice(t) \/ Release(t) \/ Interrupt(t)
  PROVE  OneCommand' /\ ImageFirst'
  <1> USE DEF files
  <1>1. UNCHANGED <<base, alone>> /\ at[t] # "idle"
    BY DEF Download, SeedMissing, Mkisofs, Seeded, CreateDisk, BootInstaller, Installed,
           RemoveSeed, Connect, ListPartitions, MountDevice, Release, Interrupt
  <1>2. PICK step \in Step :
          /\ GotoStep(t, step)
          /\ step = "curl" => at[t] = "image" /\ base = "absent" /\ disk' = disk
          /\ step \notin {"image", "data", "late"}
          /\ step \in Building => at[t] \in Building \/ base # "absent"
    BY DEF Download, SeedMissing, Mkisofs, Seeded, CreateDisk, BootInstaller, Installed,
           RemoveSeed, Connect, ListPartitions, MountDevice, Release, Interrupt,
           Step, Building
  <1>3. disk' = disk \/ at[t] \in Building
    BY DEF Download, SeedMissing, Mkisofs, Seeded, CreateDisk, BootInstaller, Installed,
           RemoveSeed, Connect, ListPartitions, MountDevice, Release, Interrupt, Building
  <1>4. alone' => /\ disk' # "absent" => base' # "absent"
                  /\ step = "curl" => disk' = "absent" /\ base' = "absent"
                  /\ step \in Building => base' # "absent"
    BY <1>1, <1>2, <1>3 DEF ImageInv, ImageFirst
  <1>5. QED
    BY <1>1, <1>2, <1>4, OneMoves DEF Building

LEMMA TransferImage ==
  ASSUME ImageInv, NEW t \in Tty, Fetch(t) \/ Downloaded(t)
  PROVE  OneCommand' /\ ImageFirst'
  <1>1. UNCHANGED <<disk, alone>> /\ at[t] \in {"curl", "data", "late"}
    BY DEF Fetch, Downloaded
  <1>2. SUFFICES ASSUME alone PROVE OneCommand' /\ ImageFirst'
    BY <1>1 DEF OneCommand, ImageFirst
  <1>3. disk = "absent" /\ \A u \in Tty : u # t => at[u] = "idle"
    BY <1>1, <1>2 DEF ImageInv, OneCommand, ImageFirst
  <1>4. ASSUME at' = [u \in Tty |-> IF u = t THEN "data"
                                   ELSE IF at[u] = "data" THEN "late" ELSE at[u]]
        PROVE  GotoStep(t, "data")
    BY <1>3, <1>4 DEF GotoStep, ImageInv, DiskTypeOK
  <1>5. PICK step \in {"data", "seed", "idle"} :
          GotoStep(t, step) /\ (step # "idle" => base' # "absent")
    BY <1>1, <1>2, <1>4 DEF Fetch, Downloaded, ImageInv, ImageFirst
  <1>6. QED
    BY <1>1, <1>3, <1>5, OneMoves DEF Step, Building

LEMMA ImageStep == ImageInv /\ DiskTypeOK' /\ [DiskNext]_diskVars => ImageInv'
  <1>1. ASSUME ImageInv, UNCHANGED diskVars PROVE OneCommand' /\ ImageFirst'
    BY <1>1 DEF ImageInv, diskVars, OneCommand, ImageFirst
  <1>2. ASSUME ImageInv, DiskNext PROVE OneCommand' /\ ImageFirst'
    BY <1>2, CommandImage, BuildImage, TransferImage DEF DiskNext
  <1>3. QED
    BY <1>1, <1>2 DEF ImageInv

LEMMA ImageSpecInv == DiskSpec => []ImageInv
  <1>1. DiskInit => ImageInv
    <2>1. DiskInit => DiskTypeOK
      BY DiskInitInv DEF DiskInv
    <2>2. QED
      BY <2>1 DEF DiskInit, ImageInv, OneCommand, ImageFirst, Building
  <1>2. DiskInv => DiskTypeOK
    BY DEF DiskInv
  <1>3. QED
    BY <1>1, <1>2, ImageStep, DiskSpecInv, PTL DEF DiskSpec

\* In terminals that wait for each other no install writes the cloud image once
\* a disk depends on it, whatever downloads and installs broke off before.
THEOREM ImageIsKept == DiskSpec => BaseKept
  <1>1. ASSUME ImageInv, [DiskNext]_diskVars
        PROVE  [alone' /\ disk # "absent" => base' = base]_base
    <2>1. SUFFICES ASSUME alone', disk # "absent", base' # base PROVE FALSE
      OBVIOUS
    <2>2. PICK t \in Tty : Fetch(t) \/ Downloaded(t)
      BY <1>1, <2>1
         DEF diskVars, DiskNext, files, InstallVm, Download, SeedMissing, Mkisofs, Seeded,
             CreateDisk, BootInstaller, Installed, RemoveSeed, MountQcow, Connect,
             ListPartitions, MountDevice, Release, UmountQcow, Interrupt
    <2>3. alone /\ at[t] \in {"curl", "data", "late"}
      BY <2>1, <2>2 DEF Fetch, Downloaded
    <2>4. QED
      BY <1>1, <2>1, <2>3 DEF ImageInv, ImageFirst
  <1>2. QED
    BY <1>1, ImageSpecInv, PTL DEF DiskSpec, BaseKept

=============================================================================
