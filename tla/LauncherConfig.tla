--------------------------- MODULE LauncherConfig ---------------------------
(***************************************************************************)
(* The configuration of the launcher: LauncherService keeps what it has    *)
(* read from config.toml and reads it again when the watcher reports that  *)
(* the file was made, changed or removed.  Of the contents of the file     *)
(* some are not a configuration.                                           *)
(***************************************************************************)
EXTENDS Naturals, Sequences

CONSTANTS
  MaxWritten,  \* bound: how often the file is written or removed
  Invalid,     \* contents that are no configuration
  None

VARIABLES
  content,   \* of config.toml, or None
  changes,   \* how often it was changed
  at,        \* "boot", "loaded" or "watching"
  queue,     \* what the watcher has yet to report
  config,    \* config
  unnoticed  \* history: a change was not seen, or the file could not be read

vars == <<content, changes, at, queue, config, unnoticed>>

Contents == 0..MaxWritten
TypeOK ==
  /\ {content, config} \subseteq Contents \cup {None} /\ changes \in 0..MaxWritten
  /\ at \in {"boot", "loaded", "watching"}
  /\ queue \in Seq({"change", "unlink"}) /\ unnoticed \in BOOLEAN

Init ==
  /\ content \in {0, None} /\ changes = 0 /\ at = "boot" /\ queue = <<>>
  /\ config = None /\ unnoticed = FALSE

Parsed(c) == IF c \in Invalid THEN None ELSE c

\* loadConfig; when the file cannot be read there is no configuration.
LoadConfig == \/ config' = Parsed(content) /\ unnoticed' = FALSE
              \/ content # None /\ config' = None /\ unnoticed' = TRUE
-----------------------------------------------------------------------------
\* The file is written or removed; the watcher does not see it before its own
\* first look at the directory, which comes after loadConfig.
Change ==
  /\ changes < MaxWritten /\ changes' = changes + 1
  /\ \/ content' = changes' /\ queue' = Append(queue, "change")
     \/ content # None /\ content' = None /\ queue' = Append(queue, "unlink")
  /\ at = "watching" /\ UNCHANGED <<at, config, unnoticed>>

ChangeUnseen ==
  /\ changes < MaxWritten /\ changes' = changes + 1 /\ at # "watching"
  /\ content' \in {changes', None} \ {content}
  /\ unnoticed' = (at = "loaded") /\ UNCHANGED <<at, queue, config>>

Load ==
  /\ at = "boot" /\ at' = "loaded" /\ LoadConfig
  /\ UNCHANGED <<content, changes, queue>>

Watch == at = "loaded" /\ at' = "watching" /\ UNCHANGED <<content, changes, queue, config, unnoticed>>

\* BUG: the configuration of a file that was removed stays.
HandleChange ==
  /\ queue # <<>> /\ queue' = Tail(queue)
  /\ IF Head(queue) = "unlink" THEN UNCHANGED <<config, unnoticed>> ELSE LoadConfig
  /\ UNCHANGED <<content, changes, at>>

\* The handlers of the watcher read what is there now.
Handle ==
  /\ queue # <<>> /\ queue' = Tail(queue)
  /\ IF Head(queue) = "unlink" THEN config' = None /\ unnoticed' = FALSE ELSE LoadConfig
  /\ UNCHANGED <<content, changes, at>>

Next == Change \/ ChangeUnseen \/ Load \/ Watch \/ Handle
Spec == Init /\ [][Next]_vars
-----------------------------------------------------------------------------
(***************************************************************************)
(* When every event is handled the launcher gets the configuration in the  *)
(* file, or none when that is not one: unless the file was changed between *)
(* its first reading and the start of the watcher or could not be read,    *)
(* which the next event makes good.                                        *)
(***************************************************************************)
ConfigCurrent ==
  at = "watching" /\ queue = <<>> /\ ~unnoticed => config = Parsed(content)
=============================================================================
