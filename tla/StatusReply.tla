---------------------------- MODULE StatusReply ----------------------------
(***************************************************************************)
(* The answer of the game server, which comes in pieces: status of         *)
(* minecraft-slp.  A byte has a digit and a bit that says that more follow;*)
(* the digits of a VarInt come lowest first, and the highest is the sign.  *)
(* The answer is a packet: its length, its id 0, the length of the JSON and *)
(* the JSON, of which only the numbers of players matter.                  *)
(***************************************************************************)
EXTENDS Integers, Sequences, SequencesExt, FiniteSets

CONSTANTS
  Base,         \* how many digits there are, 128 in the code
  MaxVarInt,    \* MAX_VARINT_BYTES
  Sign,         \* numbers from here on are negative, 2^31 in the code
  MaxResponse,  \* MAX_RESPONSE_BYTES
  Bytes,        \* the bytes that the server may send
  Players,      \* numbers of players
  None

VARIABLES
  received,       \* chunks
  expectedTotal,  \* how long the answer is to be, None before that is known
  outcome         \* None, the players the check found, or "error"

vars == <<received, expectedTotal, outcome>>

Status == [online : Players, max : Players]
TypeOK ==
  /\ received \in Seq(Bytes)
  /\ expectedTotal \in Nat \cup {None}
  /\ outcome \in Status \cup {None, [error |-> TRUE]}

Init == received = <<>> /\ expectedTotal = None /\ outcome = None

More(byte) == byte >= Base
Digit(byte) == byte % Base
-----------------------------------------------------------------------------
\* The bytes of a VarInt at an offset: up to the first one that has no more.
Ends(bytes, offset) == {n \in 1..MaxVarInt : /\ offset + n <= Len(bytes)
                                             /\ ~More(bytes[offset + n])
                                             /\ \A i \in 1..(n - 1) : More(bytes[offset + i])}

\* The number that its n digits make, five at most.
Weighted(bytes, offset, n) ==
  LET d(i) == IF i <= n THEN Digit(bytes[offset + i]) ELSE 0
  IN d(1) + Base * (d(2) + Base * (d(3) + Base * (d(4) + Base * d(5))))

\* readVarInt: a value and the offset behind it, or None when the bytes end
\* before it or it is too long.
ReadVarInt(bytes, offset) ==
  IF Ends(bytes, offset) = {} THEN None
  ELSE LET n == CHOOSE k \in Ends(bytes, offset) : TRUE
           unsigned == Weighted(bytes, offset, n) % (2 * Sign)
       IN [value |-> IF unsigned >= Sign THEN unsigned - 2 * Sign ELSE unsigned,
           offset |-> offset + n]

\* writeVarInt of the small numbers of a packet.
WriteVarInt(value) ==
  IF value < Base THEN <<value>> ELSE <<Base + (value % Base), value \div Base>>

\* assertLength
Fits(declared, available) == declared >= 0 /\ declared <= available

\* extractStatusJson
Valid(json) == Len(json) = 2 /\ ToSet(json) \subseteq Players /\ json[1] <= json[2]

Error == [error |-> TRUE]

\* parseStatusResponse
Parsed(bytes) ==
  LET length == ReadVarInt(bytes, 0)
      packet == SubSeq(bytes, length.offset + 1, length.offset + length.value)
      id == ReadVarInt(packet, 0)
      text == IF id = None THEN None ELSE ReadVarInt(packet, id.offset)
      json == SubSeq(packet, text.offset + 1, text.offset + text.value)
  IN IF /\ Fits(length.value, Len(bytes) - length.offset)
        /\ id # None /\ text # None
        /\ id.value = 0 /\ Fits(text.value, Len(packet) - text.offset) /\ Valid(json)
     THEN [online |-> json[1], max |-> json[2]] ELSE Error

\* BUG: a length whose last byte is yet to come is an error.
ReadHeaderAtOnce(bytes) ==
  LET header == ReadVarInt(bytes, 0)
  IN IF header = None THEN Error ELSE [total |-> header.offset + header.value]

\* readResponseHeader: None while it is not there yet.
ReadResponseHeader(bytes) ==
  LET header == ReadVarInt(bytes, 0) IN
  IF header = None THEN IF Len(bytes) < MaxVarInt THEN None ELSE Error
  ELSE IF header.value \notin 0..MaxResponse THEN Error
  ELSE [total |-> header.offset + header.value]

\* The handler of "data".
Data(chunk) ==
  LET bytes == received \o chunk
      header == IF expectedTotal # None THEN [total |-> expectedTotal]
                ELSE ReadResponseHeader(bytes)
  IN
  /\ outcome = None
  /\ IF Len(bytes) > MaxResponse + MaxVarInt
     THEN outcome' = Error /\ UNCHANGED <<received, expectedTotal>>
     ELSE /\ received' = bytes
          /\ expectedTotal' = (IF header \in {None, Error} THEN None ELSE header.total)
          /\ outcome' = IF header = Error THEN Error
                        ELSE IF expectedTotal' = None \/ Len(bytes) < expectedTotal' THEN None
                        ELSE Parsed(bytes)

Next == \E a \in Bytes : Data(<<a>>) \/ \E b \in Bytes : Data(<<a, b>>)
Spec == Init /\ [][Next]_vars
-----------------------------------------------------------------------------
\* The packet of a server that has these players.
Packet(s) ==
  LET body == WriteVarInt(0) \o WriteVarInt(2) \o <<s.online, s.max>>
  IN WriteVarInt(Len(body)) \o body

(***************************************************************************)
(* An answer is read whole however it is cut into pieces: the packet of a  *)
(* server gives its players as soon as its last byte is there, no error    *)
(* before that, and nothing else gives players.                            *)
(***************************************************************************)
AnswerWhole ==
  /\ \A s \in {t \in Status : t.online <= t.max} :
       /\ IsPrefix(Packet(s), received) => outcome = [online |-> s.online, max |-> s.max]
       /\ IsStrictPrefix(received, Packet(s)) => outcome = None
  /\ outcome \in Status => outcome.online <= outcome.max
=============================================================================
