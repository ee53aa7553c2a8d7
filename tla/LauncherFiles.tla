--------------------------- MODULE LauncherFiles ---------------------------
(***************************************************************************)
(* The manifest of the launcher's files: FilesService.  Files come and go  *)
(* by other hands; the manifest follows through the start-up scan, the     *)
(* watcher's events and a periodic comparison of names.  The content of a  *)
(* file is a number, and so is its hash; the statistics of two contents    *)
(* differ.                                                                 *)
(***************************************************************************)
EXTENDS Naturals, Sequences, FiniteSets

CONSTANTS
  Names,
  MaxContents,  \* bound: contents written to one file
  MaxHashings,  \* bound: hashings under way when the timer adds its own
  None

VARIABLES
  disk,      \* the content of each file, or None
  written,   \* how many contents each file has had
  index,     \* launcherHash
  watching,  \* the watcher is at work
  events,    \* per file: what the watcher has yet to report, in order
  hashing,   \* the hashings under way
  reported,  \* history: how many changes of each file the watcher reported
  applied,   \* history: the newest of them that is in the manifest
  astray     \* history: files whose hash may be wrong for ever, see below

vars == <<disk, written, index, watching, events, hashing, reported, applied, astray>>

Contents == 1..MaxContents
Hashing == [name : Names, by : {"scan", "event"}, number : 0..MaxContents,
            before : Contents \cup {None}, hash : Contents \cup {None}]

TypeOK ==
  /\ {disk, index} \subseteq [Names -> Contents \cup {None}]
  /\ {written, reported, applied} \subseteq [Names -> 0..MaxContents]
  /\ watching \in BOOLEAN
  /\ \A n \in Names : \A i \in DOMAIN events[n] : events[n][i] \in {"change", "unlink"}
  /\ hashing \subseteq Hashing
  /\ astray \subseteq Names

Init ==
  /\ disk \in [Names -> {1, None}]
  /\ written = [n \in Names |-> 1]
  /\ index = [n \in Names |-> None]
  /\ watching = FALSE
  /\ events = [n \in Names |-> <<>>]
  /\ hashing = {[name |-> n, by |-> "scan", number |-> 0, before |-> disk[n], hash |-> None]
                  : n \in {k \in Names : disk[k] # None}}
  /\ reported = [n \in Names |-> 0] /\ applied = [n \in Names |-> 0]
  /\ astray = {}
-----------------------------------------------------------------------------
\* The watcher sees a change, or misses it; before it is at work it sees none.
See(n, event) ==
  \/ watching /\ events' = [events EXCEPT ![n] = Append(@, event)] /\ UNCHANGED astray
  \/ astray' = astray \cup {n} /\ UNCHANGED events

Write(n) ==
  /\ written[n] < MaxContents /\ written' = [written EXCEPT ![n] = @ + 1]
  /\ disk' = [disk EXCEPT ![n] = written'[n]] /\ See(n, "change")
  /\ UNCHANGED <<index, watching, hashing, reported, applied>>

Remove(n) ==
  /\ disk[n] # None /\ disk' = [disk EXCEPT ![n] = None] /\ See(n, "unlink")
  /\ UNCHANGED <<written, index, watching, hashing, reported, applied>>

\* createWatcher, when the first scan is done.
StartWatching ==
  /\ ~watching /\ hashing = {} /\ watching' = TRUE
  /\ UNCHANGED <<disk, written, index, events, hashing, reported, applied, astray>>

\* getHash of a file; it answers null when the file is not there.
ReadHash(n) ==
  /\ \E h \in hashing :
       /\ h.name = n /\ h.hash = None
       /\ hashing' = (hashing \ {h})
            \cup (IF disk[n] = None THEN {} ELSE {[h EXCEPT !.hash = disk[n]]})
  /\ UNCHANGED <<disk, written, index, watching, events, reported, applied, astray>>

\* A file that is there cannot be read: that is logged, and nobody tries again
\* for what was a change of it.
FailHash(n) ==
  /\ \E h \in hashing : h.name = n /\ h.hash = None /\ hashing' = hashing \ {h}
  /\ disk[n] # None /\ astray' = astray \cup {n}
  /\ UNCHANGED <<disk, written, index, watching, events, reported, applied>>

\* BUG: a scan takes the hash although the file has changed since.
Unchanged(h) == disk[h.name] # None

\* The end of indexFile: the file must be the one that was there before.  For
\* an event it only has to be there.
Steady(h) == disk[h.name] # None /\ (h.by = "scan" => disk[h.name] = h.before)

Alone(h) ==
  watching /\ events[h.name] = <<>> /\ \A k \in hashing : k.name = h.name => k = h

\* A hash that comes after that of a later event is put all the same.  A hash of
\* what the file has, with nothing else on its way, makes good what went wrong.
SetHash ==
  /\ \E h \in hashing :
       LET n == h.name IN
       /\ h.hash # None /\ hashing' = hashing \ {h}
       /\ IF Steady(h)
          THEN /\ index' = [index EXCEPT ![n] = h.hash]
               /\ applied' = [applied EXCEPT ![n] = IF h.number > @ THEN h.number ELSE @]
               /\ astray' = IF Alone(h) /\ h.hash = disk[n] THEN astray \ {n}
                            ELSE IF h.by = "event" /\ h.number < applied[n] THEN astray \cup {n}
                            ELSE astray
          ELSE UNCHANGED <<index, applied, astray>>
  /\ UNCHANGED <<disk, written, watching, events, reported>>

\* The handlers of the watcher.
Report(n) ==
  /\ events[n] # <<>> /\ events' = [events EXCEPT ![n] = Tail(@)]
  /\ IF Head(events[n]) = "unlink"
     THEN index' = [index EXCEPT ![n] = None] /\ UNCHANGED <<hashing, reported>>
     ELSE /\ reported' = [reported EXCEPT ![n] = @ + 1] /\ UNCHANGED index
          /\ hashing' = hashing \cup {[name |-> n, by |-> "event", number |-> reported'[n],
                                       before |-> None, hash |-> None]}
  /\ UNCHANGED <<disk, written, watching, applied, astray>>

\* reconcileLauncherIndex compares names: an entry without a file goes, a file
\* without an entry is hashed.
Phantoms == {n \in Names : disk[n] = None /\ index[n] # None}
Missing == {n \in Names : disk[n] # None /\ index[n] = None}
Reconcile ==
  /\ watching /\ Phantoms \cup Missing # {} /\ Cardinality(hashing) < MaxHashings
  /\ index' = [n \in Names |-> IF n \in Phantoms THEN None ELSE index[n]]
  /\ hashing' = hashing \cup
       {[name |-> n, by |-> "scan", number |-> 0, before |-> disk[n], hash |-> None] : n \in Missing}
  /\ UNCHANGED <<disk, written, watching, events, reported, applied, astray>>

Next ==
  \/ \E n \in Names : Write(n) \/ Remove(n) \/ Report(n) \/ ReadHash(n) \/ FailHash(n)
  \/ StartWatching \/ SetHash \/ Reconcile

\* Events are delivered and the timer fires; a file that is tried again and again
\* is read to its end at last.
Fairness ==
  /\ WF_vars(StartWatching) /\ WF_vars(Reconcile) /\ WF_vars(SetHash)
  /\ \A n \in Names : WF_vars(Report(n)) /\ SF_vars(ReadHash(n))

Spec == Init /\ [][Next]_vars /\ Fairness
-----------------------------------------------------------------------------
(***************************************************************************)
(* When nothing is on its way the manifest has the hash of every file: no  *)
(* mixture of scan and events leaves an old one.  astray leaves out what   *)
(* the code does not notice, until a hash of the file's content is put     *)
(* with nothing else on its way: a change the watcher missed, in           *)
(* particular one between the first scan and its start; a hashing that     *)
(* ends after that of a later event; and one that fails, since events are  *)
(* not repeated and the periodic comparison is one of names.               *)
(***************************************************************************)
Quiet == watching /\ hashing = {} /\ \A n \in Names : events[n] = <<>>
ManifestCurrent == Quiet => \A n \in Names \ astray : index[n] = disk[n]

(* Even then the names of the manifest become those of the files. *)
NamesSettle ==
  \A n \in Names : <>[](watching /\ (index[n] = None <=> disk[n] = None))
=============================================================================
