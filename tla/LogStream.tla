----------------------------- MODULE LogStream -----------------------------
(***************************************************************************)
(* The log: createLogStream writes the records of a day into the file of   *)
(* that day.  The file may be removed under it and a write may fail; a     *)
(* timer looks for the file, and the next record opens a new stream.  A    *)
(* file is a number: one that is removed and made again is another.        *)
(***************************************************************************)
EXTENDS Naturals, FiniteSets

CONSTANTS
  Days,        \* bound on the days
  MaxRemoved,  \* bound: how often a file is removed, or a write fails
  MaxRecords,  \* bound: records that are written
  None

VARIABLES
  today,    \* the date
  file,     \* for each day its file, None or a number
  made,     \* how many files were made
  removed,  \* how often one was removed
  stream,   \* the stream: its day and its file, None until it is opened
  date,     \* currentDate
  failed,   \* streamFailed
  writing,  \* the day of the record that is being written, or None
  target,   \* the stream it was given to
  asked,    \* the day whose file stat was asked for, or None
  fresh,    \* history: that file was not removed since
  seen,     \* history: nor was that of currentDate since a check was begun that has ended
  sound,    \* history: the record being written is to be in the file
  records,  \* how many were written
  lost      \* history: one was not

vars == <<today, file, made, removed, stream, date, failed, writing, target, asked, fresh, seen,
          sound, records, lost>>

ofLoss == <<fresh, seen, sound, records, lost>>

Files == 1..(MaxRecords + MaxRemoved + Days + 1)
Stream == [day : 1..Days, file : Files \cup {None}]

TypeOK ==
  /\ today \in 1..Days /\ date \in 1..Days
  /\ file \in [1..Days -> Files \cup {None}] /\ made \in 0..Cardinality(Files)
  /\ removed \in 0..MaxRemoved /\ records \in 0..MaxRecords
  /\ stream \in Stream /\ target \in Stream \cup {None}
  /\ {failed, fresh, seen, sound, lost} \subseteq BOOLEAN
  /\ {writing, asked} \subseteq 1..Days \cup {None}

\* openLogStream
Opened(day) == [day |-> day, file |-> None]

Init ==
  /\ today = 1 /\ date = 1 /\ file = [d \in 1..Days |-> None] /\ made = 0 /\ removed = 0
  /\ stream = Opened(1) /\ failed = FALSE /\ writing = None /\ target = None /\ asked = None
  /\ fresh = FALSE /\ seen = TRUE /\ sound = FALSE /\ records = 0 /\ lost = FALSE
-----------------------------------------------------------------------------
Midnight ==
  /\ today < Days /\ today' = today + 1
  /\ UNCHANGED <<file, made, removed, stream, date, failed, writing, target, asked, ofLoss>>

\* Somebody removes the file of a day.
Remove ==
  /\ removed < MaxRemoved /\ removed' = removed + 1
  /\ \E d \in 1..Days :
       /\ file[d] # None /\ file' = [file EXCEPT ![d] = None]
       /\ fresh' = (fresh /\ d # asked)
       /\ seen' = (seen /\ d # date) /\ sound' = (sound /\ d # date)
  /\ UNCHANGED <<today, made, stream, date, failed, writing, target, asked, records, lost>>

\* A stream opens its file when it has something to write.
FileOf(s) ==
  IF s.file # None THEN s.file ELSE IF file[s.day] # None THEN file[s.day] ELSE made + 1

\* write: a new day or a failure makes a new stream, which gets the record.
Write ==
  /\ writing = None /\ records < MaxRecords /\ records' = records + 1
  /\ stream' = (IF today # date \/ failed THEN Opened(today) ELSE stream)
  /\ sound' = (seen \/ today # date \/ failed) /\ seen' = sound'
  /\ date' = today /\ failed' = FALSE
  /\ writing' = today /\ target' = stream'
  /\ UNCHANGED <<today, file, made, removed, asked, fresh, lost>>

\* The record reaches the file, which may be one that was removed.
Written ==
  /\ writing # None /\ writing' = None /\ target' = None
  /\ LET f == FileOf(target) IN
     /\ file' = (IF f > made THEN [file EXCEPT ![target.day] = f] ELSE file)
     /\ made' = (IF f > made THEN f ELSE made)
     /\ stream' = (IF stream = target THEN [stream EXCEPT !.file = f] ELSE stream)
     /\ lost' = (lost \/ (sound /\ file'[writing] # f))
  /\ sound' = FALSE
  /\ UNCHANGED <<today, removed, date, failed, asked, fresh, seen, records>>

\* The stream or its directory cannot be written to; the record is lost.
WriteFails ==
  /\ writing # None /\ removed < MaxRemoved /\ removed' = removed + 1
  /\ writing' = None /\ target' = None /\ failed' = TRUE /\ sound' = FALSE
  /\ UNCHANGED <<today, file, made, stream, date, asked, fresh, seen, records, lost>>
-----------------------------------------------------------------------------
\* The timer asks for the file of currentDate ...
Look ==
  /\ asked = None /\ asked' = date /\ fresh' = TRUE
  /\ UNCHANGED <<today, file, made, removed, stream, date, failed, writing, target, seen, sound,
                 records, lost>>

Looked ==
  /\ asked # None /\ asked' = None /\ seen' = (seen \/ (fresh /\ asked = date))
  /\ UNCHANGED <<today, file, made, removed, date, writing, target, fresh, sound, records, lost>>

\* ... and finds it: a stream that had failed is opened again.
Present ==
  /\ Looked /\ file[asked] # None
  /\ stream' = (IF failed THEN Opened(date) ELSE stream) /\ failed' = FALSE

\* BUG: a file that is missing is not noted.
MissingIgnored == Looked /\ file[asked] = None /\ UNCHANGED <<stream, failed>>

\* ... or does not: the next record is to open a new stream.
Missing == Looked /\ file[asked] = None /\ failed' = TRUE /\ UNCHANGED stream

Next == \/ Midnight \/ Remove \/ Write \/ Written \/ WriteFails
        \/ Look \/ Present \/ Missing
Spec == Init /\ [][Next]_vars
-----------------------------------------------------------------------------
(***************************************************************************)
(* A record that is written after a check of the file, or after a new      *)
(* stream was begun, is in the file of its day, unless that was removed    *)
(* since: at most the records between a removal and the check after it go  *)
(* into a file that nobody sees.                                           *)
(***************************************************************************)
LossBounded == ~lost
=============================================================================
