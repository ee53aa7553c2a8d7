----------------------------- MODULE FileStream -----------------------------
(***************************************************************************)
(* A file sent to a client: streamFileToReply.  The file is opened and its *)
(* size read while the client may leave; the handle is closed by the       *)
(* "close" event of the answer, by the code that gives up, or not at all.  *)
(* A file is the set of the places 0..size-1.                              *)
(***************************************************************************)
EXTENDS Integers, FiniteSets, FiniteSetsExt

CONSTANTS
  MaxSize,  \* bound: sizes of files
  None

VARIABLES
  size,       \* of the file
  header,     \* Range: its first and last place, of which one may be missing
  at,         \* where streamFileToReply is
  client,     \* "there", "gone" (destroyed) or "closed": the event has come
  listening,  \* closeHandle waits for the event
  handle,     \* "none", "open" or "closed"
  status,     \* of the answer, 0 before it is sent
  length,     \* Content-Length
  places      \* what the body is read from

vars == <<size, header, at, client, listening, handle, status, length, places>>

Numbers == 0..(MaxSize + 1)
TypeOK ==
  /\ size \in 0..MaxSize
  /\ header \in [first : Numbers \cup {None}, last : Numbers \cup {None}]
  /\ at \in {"open", "check", "stat", "sending", "done"}
  /\ client \in {"there", "gone", "closed"} /\ listening \in BOOLEAN
  /\ handle \in {"none", "open", "closed"}
  /\ status \in {0, 200, 206, 404, 416, 500}
  /\ length \in 0..MaxSize /\ places \subseteq 0..MaxSize

\* Without Range both are missing.
Init ==
  /\ size \in 0..MaxSize
  /\ header \in [first : Numbers \cup {None}, last : Numbers \cup {None}]
  /\ at = "open" /\ client = "there" /\ listening = FALSE /\ handle = "none"
  /\ status = 0 /\ length = 0 /\ places = {}

Over(code) == at' = "done" /\ status' = code
-----------------------------------------------------------------------------
\* The range that parseByteRange finds in the two forms of a header.
ByteRange ==
  IF header.first = None THEN [start |-> Max({0, size - header.last}), end |-> size - 1]
  ELSE [start |-> header.first,
        end |-> IF header.last = None THEN size - 1 ELSE Min({header.last, size - 1})]

Ignored == \/ header.first = None /\ header.last = None
           \/ None \notin {header.first, header.last} /\ header.first < size /\ header.last < header.first
Unsatisfiable == \/ header.first # None /\ header.first >= size
                 \/ header.first = None /\ header.last = 0

\* open; a file that is missing is answered with 404.
Open ==
  /\ at = "open"
  /\ \/ handle' = "open" /\ at' = "check" /\ UNCHANGED status
     \/ \E code \in {404, 500} : Over(code) /\ UNCHANGED handle
  /\ UNCHANGED <<size, header, client, listening, length, places>>

\* BUG: a client that has left already is listened to.
CheckNobody ==
  /\ at = "check" /\ listening' = TRUE /\ at' = "stat"
  /\ UNCHANGED <<size, header, client, handle, status, length, places>>

\* A client that has left in the meantime is noticed, another is listened to.
Check ==
  /\ at = "check"
  /\ IF client # "there" THEN handle' = "closed" /\ Over(0) /\ UNCHANGED listening
     ELSE listening' = TRUE /\ at' = "stat" /\ UNCHANGED <<handle, status>>
  /\ UNCHANGED <<size, header, client, length, places>>

\* The size is known and the answer begins.
Answer ==
  /\ at = "stat"
  /\ \/ ~Ignored /\ Unsatisfiable /\ handle' = "closed" /\ Over(416) /\ UNCHANGED <<length, places>>
     \/ /\ ~Ignored /\ ~Unsatisfiable /\ at' = "sending" /\ status' = 206
        /\ length' = ByteRange.end - ByteRange.start + 1 /\ places' = ByteRange.start..ByteRange.end
        /\ UNCHANGED handle
     \/ /\ Ignored /\ at' = "sending" /\ status' = 200
        /\ length' = size /\ places' = 0..(size - 1) /\ UNCHANGED handle
  /\ UNCHANGED <<size, header, client, listening>>

\* stat fails, also because the handle was closed under it.
Fail ==
  /\ at = "stat" /\ handle' = "closed" /\ Over(IF client = "there" THEN 500 ELSE 0)
  /\ UNCHANGED <<size, header, client, listening, length, places>>

\* The last byte has gone out; the stream ends early when it is closed.
Sent ==
  /\ at = "sending" /\ at' = "done"
  /\ UNCHANGED <<size, header, client, listening, handle, status, length, places>>

\* The client leaves, or the answer was its last.
Leave ==
  /\ client = "there" /\ client' = "gone"
  /\ UNCHANGED <<size, header, at, listening, handle, status, length, places>>

\* The "close" event reaches those who listen when it comes.
Close ==
  /\ client = "gone" /\ client' = "closed"
  /\ handle' = (IF listening THEN "closed" ELSE handle)
  /\ UNCHANGED <<size, header, at, listening, status, length, places>>

Next == Open \/ Check \/ Answer \/ Fail \/ Sent \/ Leave \/ Close
Spec == Init /\ [][Next]_vars
-----------------------------------------------------------------------------
\* What a Range header asks for; one that is no range asks for the whole file.
Asked ==
  IF Ignored THEN 0..(size - 1)
  ELSE IF header.first = None THEN {i \in 0..(size - 1) : i >= size - header.last}
  ELSE {i \in 0..(size - 1) : i >= header.first /\ (header.last # None => i <= header.last)}

(***************************************************************************)
(* What is sent is what was asked for, with its length, and an empty range *)
(* is refused, but for one in an empty file.  When the client has left and *)
(* the call is over the handle is closed, and never under a client that    *)
(* still reads.                                                            *)
(***************************************************************************)
SentAsAsked ==
  /\ status \in {200, 206} => places = Asked /\ length = Cardinality(Asked)
  /\ status = 206 => Asked # {} \/ size = 0
  /\ status = 416 => Asked = {}
HandleClosed ==
  /\ at = "done" /\ client = "closed" => handle # "open"
  /\ at = "sending" /\ client = "there" => handle = "open"
=============================================================================
