---------------------------- MODULE GroqSession ----------------------------
(***************************************************************************)
(* utils/groqai.sh: one question to a language model, with the summaries   *)
(* of the earlier answers as context.  The conversation is a file shared   *)
(* by every terminal; a run of the script reads it before it asks, and     *)
(* reads it again, appends its summary and writes it back when the summary *)
(* has arrived.  A summary is named by the run that asked for it.          *)
(*                                                                         *)
(* The shell opens (and empties) the file of a redirection before the      *)
(* command writes to it, so these are two steps, and the command writes    *)
(* from the beginning of the file whatever another run wrote there in the  *)
(* meantime: a longer text leaves its end behind a shorter one.  A text is *)
(* read or written in one step.  An answer, an error of the service and a  *)
(* broken connection are choices of the environment.                       *)
(***************************************************************************)
EXTENDS Naturals, Sequences, FiniteSets

LOCAL INSTANCE SequencesExt

CONSTANTS
  Run,         \* the runs of the script, one question each
  Together,    \* bound: runs that are active at the same time
  RunInterrupts,  \* bound: runs that the user interrupts with Ctrl-C
  Length       \* the bytes that the summary of a run takes in a list

ASSUME BoundsAssumption == Together \in Nat \ {0} /\ RunInterrupts \in Nat

ASSUME LengthAssumption == Length \in [Run -> Nat \ {0}]

VARIABLES
  file,     \* SESSION_FILE: the text at its beginning, a list of summaries
  rest,     \* the text its last bytes are from: another one if it was longer
  runAt,       \* the line every run is at
  held,     \* what a run has read and is about to write back
  asked,    \* the context each run has sent with its question
  told,     \* the summaries that a run was given, oldest first (history)
  runKills,    \* interrupts so far
  inTurn     \* no two runs have been active at the same time (history)

groqVars == <<file, rest, runAt, held, asked, told, runKills, inTurn>>

Absent  == [kind |-> "absent", mem |-> << >>]
Empty   == [kind |-> "empty", mem |-> << >>]   \* no JSON value in it
List(m) == [kind |-> "list", mem |-> m]

\* The bytes of a text: "[", "]" and the summaries.  echo adds a newline.
Extent(text) ==
  IF text.kind = "list" THEN 2 + FoldLeft(LAMBDA n, r : n + Length[r], 0, text.mem)
  ELSE 0

\* Something of the text old is left behind new, which was written over it.
Outlasts(old, new) == old.kind = "list" /\ Extent(old) > Extent(new) + 1

\* The file as a whole is one JSON list.
Readable == file.kind = "list" /\ rest = file

Line == {"idle", "create", "context", "ask", "summarise", "append",
         "open", "write", "end"}

GroqInit ==
  /\ file = Absent /\ rest = Absent
  /\ runAt = [r \in Run |-> "idle"]
  /\ held = [r \in Run |-> Empty] /\ asked = [r \in Run |-> Empty]
  /\ told = << >> /\ runKills = 0 /\ inTurn = TRUE

Active == {r \in Run : runAt[r] \notin {"idle", "end"}}

Proceed(r, line) == runAt' = [runAt EXCEPT ![r] = line]

----------------------------------------------------------------------------

\* if [ ! -f "$SESSION_FILE" ]
Begin(r) ==
  /\ runAt[r] = "idle" /\ Cardinality(Active) < Together
  /\ IF file.kind = "absent"
     THEN Proceed(r, "create") /\ held' = [held EXCEPT ![r] = List(<< >>)]
     ELSE Proceed(r, "context") /\ UNCHANGED held
  /\ inTurn' = (inTurn /\ Active = {})
  /\ UNCHANGED <<file, rest, asked, told, runKills>>

\* The redirection of echo empties the file.
Open(r) ==
  /\ runAt[r] \in {"create", "open"}
  /\ file' = Empty /\ rest' = Empty
  /\ Proceed(r, "write")
  /\ UNCHANGED <<held, asked, told, runKills, inTurn>>

\* echo: first the new file, "[]"; at the end of the run UPDATED_CONTEXT.
Write(r) ==
  /\ runAt[r] = "write"
  /\ file' = held[r] /\ rest' = IF Outlasts(rest, held[r]) THEN rest ELSE held[r]
  /\ Proceed(r, IF asked[r] = Empty THEN "context" ELSE "end")
  /\ UNCHANGED <<held, asked, told, runKills, inTurn>>

\* CONTEXT=$(cat ...); a context that is not one JSON value leaves an empty
\* question, and the service answers with an error.
ReadContext(r) ==
  /\ runAt[r] = "context"
  /\ IF Readable
     THEN Proceed(r, "ask") /\ asked' = [asked EXCEPT ![r] = file]
     ELSE Proceed(r, "end") /\ UNCHANGED asked
  /\ UNCHANGED <<file, rest, held, told, runKills, inTurn>>

\* The answer, or an error message, or no content: then exit 1.
Ask(r) ==
  /\ runAt[r] = "ask"
  /\ \/ Proceed(r, "summarise")
     \/ Proceed(r, "end")
  /\ UNCHANGED <<file, rest, held, asked, told, runKills, inTurn>>

\* SUMMARY; nothing is written when it is empty.
Summarise(r) ==
  /\ runAt[r] = "summarise"
  /\ \/ Proceed(r, "append")
     \/ Proceed(r, "end")
  /\ UNCHANGED <<file, rest, held, asked, told, runKills, inTurn>>

\* Slip: the new summary is put before the others.
AppendFirst(r) ==
  /\ runAt[r] = "append"
  /\ held' = [held EXCEPT ![r] = IF file.kind = "list"
                                 THEN List(<<r>> \o file.mem) ELSE Empty]
  /\ told' = Append(told, r)
  /\ Proceed(r, "open")
  /\ UNCHANGED <<file, rest, asked, runKills, inTurn>>

\* jq '. + [...]' on the file: it answers for the list at the beginning before
\* it fails on what follows; without a list there it prints nothing, and that
\* is what will be written.
AppendSummary(r) ==
  /\ runAt[r] = "append"
  /\ held' = [held EXCEPT ![r] = IF file.kind = "list"
                                 THEN List(Append(file.mem, r)) ELSE Empty]
  /\ told' = Append(told, r)
  /\ Proceed(r, "open")
  /\ UNCHANGED <<file, rest, asked, runKills, inTurn>>

\* Ctrl-C in the terminal of a run.
InterruptRun(r) ==
  /\ r \in Active /\ runKills < RunInterrupts
  /\ runKills' = runKills + 1
  /\ Proceed(r, "end")
  /\ UNCHANGED <<file, rest, held, asked, told, inTurn>>

RunStep(r) == \/ Begin(r) \/ Open(r) \/ Write(r) \/ ReadContext(r) \/ Ask(r)
           \/ Summarise(r) \/ AppendSummary(r)

GroqNext == \E r \in Run : RunStep(r) \/ InterruptRun(r)

GroqSpec == GroqInit /\ [][GroqNext]_groqVars

----------------------------------------------------------------------------

\* m repeats a part of t, in the same order.
Repeats(m, t) ==
  /\ \A i \in DOMAIN m : \E k \in DOMAIN t : t[k] = m[i]
  /\ \A i, j \in DOMAIN m : i < j =>
       \E k, l \in DOMAIN t : k < l /\ t[k] = m[i] /\ t[l] = m[j]

\* Two terminals may lose each other's summaries and leave the file unreadable,
\* and an interrupt may empty it, but what is remembered is in the order in
\* which it was said and nothing is remembered twice: the list at the beginning
\* of the file, the context of a question and an update under way are each a
\* part of what was told.
MemoryInOrder ==
  /\ Repeats(file.mem, told)
  /\ \A r \in Run : Repeats(held[r].mem, told) /\ Repeats(asked[r].mem, told)

\* As long as no two runs have overlapped and none was interrupted, nothing is
\* lost: between two runs the file is absent or is one list of every summary
\* that was told, whichever runs failed.
MemoryComplete ==
  inTurn /\ runKills = 0 /\ Active = {} =>
    file = Absent \/ (Readable /\ file.mem = told)

\* A summary is told once, by a run past its answer, and a run whose summary is
\* in the file has nothing more to write.
GroqTypeOK ==
  /\ runAt \in [Run -> Line]
  /\ told \in Seq(Run)
  /\ \A i, j \in DOMAIN told : told[i] = told[j] => i = j
  /\ \A i \in DOMAIN told : runAt[told[i]] \in {"open", "write", "end"}
  /\ \A i \in DOMAIN file.mem : runAt[file.mem[i]] = "end"

\* The conversation, for all runs and interrupts: told once, in order, complete
\* where one terminal waits for the other.
MemorySound == GroqTypeOK /\ MemoryInOrder /\ MemoryComplete

============================================================================
