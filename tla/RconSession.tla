---------------------------- MODULE RconSession ----------------------------
(***************************************************************************)
(* One session with the console of the game server: SourceRconClient.  The *)
(* server answers the password, then the command in any number of packets, *)
(* and at last an empty packet, the sentinel, that the client has sent     *)
(* after the command.  A packet is two units on the wire, which arrive as  *)
(* they like.                                                              *)
(***************************************************************************)
EXTENDS Naturals, Sequences

CONSTANTS
  MaxBodies,    \* bound: packets of an answer
  MaxReceived,  \* MAX_RESPONSE_BYTES, in units
  None

VARIABLES
  task,      \* executeCommand or checkAvailable
  total,     \* the server: packets of its answer to the command
  given,     \* the server: packets of it that it has sent
  sent,      \* the server: all packets it has sent
  arrived,   \* units that arrived at the client
  taken,     \* packets the client has read
  at,        \* where the client is
  failure,   \* failure: what became of the connection
  answered,  \* the command was answered by some packet
  output,    \* parts
  result     \* what the caller got: None, ok or error

vars == <<task, total, given, sent, arrived, taken, at, failure, answered, output, result>>

\* Bodies are numbered; 0 is empty.
Auth(good) == [kind |-> "auth", body |-> IF good THEN 1 ELSE 0]
Value(body) == [kind |-> "value", body |-> body]
Sentinel == [kind |-> "sentinel", body |-> 0]
Packets == {Auth(TRUE), Auth(FALSE), Sentinel} \cup {Value(b) : b \in 0..MaxBodies}

TypeOK ==
  /\ task \in {"execute", "check"}
  /\ total \in 1..MaxBodies /\ given \in 0..total
  /\ sent \in Seq(Packets)
  /\ arrived \in 0..2 * Len(sent) /\ taken \in 0..Len(sent)
  /\ at \in {"connect", "auth", "write", "pause", "read", "done"}
  /\ failure \in {None, "transport", "large"}
  /\ answered \in BOOLEAN
  /\ output \in Seq(0..MaxBodies)
  /\ result \in {None, "ok", "error"}

Init ==
  /\ task \in {"execute", "check"} /\ total \in 1..MaxBodies
  /\ given = 0 /\ sent = <<>> /\ arrived = 0 /\ taken = 0
  /\ at = "connect" /\ failure = None
  /\ answered = FALSE /\ output = <<>> /\ result = None

Finish(r) == at' = "done" /\ result' = r
Buffered == 2 * (taken + 1) <= arrived
Reading == at \in {"auth", "read"}
Ready == Reading /\ (Buffered \/ failure # None)
-----------------------------------------------------------------------------
(* The server and the network; what the client can go on with comes first. *)
ServerAuth ==
  /\ at = "auth" /\ sent = <<>>
  /\ \E good \in BOOLEAN :
       sent' \in {<<Auth(good)>>, <<Value(0), Auth(good)>>, <<Auth(good), Value(0)>>}
  /\ UNCHANGED <<task, total, given, arrived, taken, at, failure, answered, output, result>>

ServerAnswer ==
  /\ at \in {"pause", "read"} /\ given < total
  /\ given' = given + 1 /\ sent' = Append(sent, Value(given'))
  /\ UNCHANGED <<task, total, arrived, taken, at, failure, answered, output, result>>

ServerSentinel ==
  /\ at = "read" /\ given = total /\ sent[Len(sent)] # Sentinel
  /\ sent' = Append(sent, Sentinel)
  /\ UNCHANGED <<task, total, given, arrived, taken, at, failure, answered, output, result>>

\* onData; a chunk over the limit is dropped and is the end.
Arrive ==
  /\ at \notin {"connect", "done"} /\ ~Ready
  /\ \E n \in 1..2 * Len(sent) - arrived :
       IF arrived + n - 2 * taken > MaxReceived
       THEN failure' = (IF failure = None THEN "large" ELSE failure) /\ UNCHANGED arrived
       ELSE arrived' = arrived + n /\ UNCHANGED failure
  /\ UNCHANGED <<task, total, given, sent, taken, at, answered, output, result>>

\* The connection fails or is closed.  The time to read is over only for who
\* reads.
Lose ==
  /\ at \notin {"connect", "done"} /\ ~Ready /\ failure = None
  /\ failure' = "transport"
  /\ IF at = "write" THEN Finish("error") ELSE UNCHANGED <<at, result>>
  /\ UNCHANGED <<task, total, given, sent, arrived, taken, answered, output>>
-----------------------------------------------------------------------------
(* The client. *)
Connect ==
  /\ at = "connect" /\ ((at' = "auth" /\ UNCHANGED result) \/ Finish("error"))
  /\ UNCHANGED <<task, total, given, sent, arrived, taken, failure, answered, output>>

\* drainTrailingResponseValues: how many packets it takes, the first that is
\* not a value included.
Drained(from) ==
  LET complete == arrived \div 2
      others == {i \in from + 1..complete : sent[i].kind # "value"}
  IN IF others = {} THEN complete ELSE CHOOSE i \in others : \A j \in others : i <= j

\* readPacket of authenticate; what is buffered comes before the failure.
ReadAuth ==
  /\ at = "auth" /\ Ready
  /\ IF ~Buffered THEN Finish("error") /\ UNCHANGED taken
     ELSE LET p == sent[taken + 1] IN
          \/ p.kind = "value" /\ taken' = taken + 1 /\ UNCHANGED <<at, result>>
          \/ p = Auth(FALSE) /\ taken' = taken + 1 /\ Finish("error")
          \/ p = Auth(TRUE) /\ taken' = Drained(taken + 1)
             /\ IF task = "check" THEN Finish("ok") ELSE at' = "write" /\ UNCHANGED result
  /\ UNCHANGED <<task, total, given, sent, arrived, failure, answered, output>>

\* writeDrained, and a pause so that the sentinel has a segment of its own.
WriteCommand ==
  /\ at = "write" /\ (IF failure = None THEN at' = "pause" /\ UNCHANGED result ELSE Finish("error"))
  /\ UNCHANGED <<task, total, given, sent, arrived, taken, failure, answered, output>>

WriteSentinel ==
  /\ at = "pause" /\ at' = "read"
  /\ UNCHANGED <<task, total, given, sent, arrived, taken, failure, answered, output, result>>

\* BUG: an empty packet is taken for the end of the answer.
EmptyEnds(p) == p.body = 0

Ends(p) == p.kind = "sentinel"

\* An answer that was begun is given to the caller when the connection fails,
\* but not when it is too large.
ReadAnswer ==
  /\ at = "read" /\ Ready
  /\ IF ~Buffered
     THEN /\ Finish(IF answered /\ failure = "transport" THEN "ok" ELSE "error")
          /\ UNCHANGED <<taken, answered, output>>
     ELSE LET p == sent[taken + 1] IN
          /\ taken' = taken + 1 /\ answered' = TRUE
          /\ IF Ends(p) THEN Finish("ok") /\ UNCHANGED output
             ELSE output' = Append(output, p.body) /\ UNCHANGED <<at, result>>
  /\ UNCHANGED <<task, total, given, sent, arrived, failure>>

Client == Connect \/ ReadAuth \/ WriteCommand \/ WriteSentinel \/ ReadAnswer
Next == ServerAuth \/ ServerAnswer \/ ServerSentinel \/ Arrive \/ Lose \/ Client

\* The client goes on, and its timers close what does not answer.
Fairness == WF_vars(Client) /\ WF_vars(Lose)

Spec == Init /\ [][Next]_vars /\ Fairness
-----------------------------------------------------------------------------
(***************************************************************************)
(* What an execution answers is the server's output from its beginning and *)
(* in its order, however it was cut into packets and chunks, and all of it *)
(* unless the connection was lost; an answer over the limit is an error.   *)
(* An empty packet that belongs to the password may come first.            *)
(***************************************************************************)
OutputWhole ==
  result = "ok" /\ task = "execute" =>
    \E early \in 0..1 :
      /\ \A i \in DOMAIN output : output[i] = IF i <= early THEN 0 ELSE i - early
      /\ failure # "transport" => Len(output) = total + early

(* A session ends once the server falls silent. *)
SessionEnds == <>(at = "done")
=============================================================================
