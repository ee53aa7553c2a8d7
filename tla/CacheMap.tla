------------------------------ MODULE CacheMap ------------------------------
(***************************************************************************)
(* The cache of one process: CacheMapStore.  The entries are in the order  *)
(* of their last use; a new one takes the place of those that expired or,  *)
(* when there are none, of the one used longest ago.                       *)
(***************************************************************************)
EXTENDS Naturals, FiniteSets

CONSTANTS
  Keys, Values,
  MaxEntries,  \* of the store
  Lifetimes,   \* ttlMs of a set
  MaxClock,    \* bound on the clock
  None

VARIABLES
  clock,
  record,   \* cacheEntries: the value and the expiry of each key that is in it
  behind,   \* its order: for each key in it those after it
  answer,   \* what the last get returned: its key and value
  put,      \* history: for each key what was set last, None when it was deleted
  since     \* history: for each key the others used since it was

vars == <<clock, record, behind, answer, put, since>>

Record == [value : Values, expires : Nat]
TypeOK ==
  /\ clock \in 0..MaxClock
  /\ {record, put} \subseteq [Keys -> Record \cup {None}]
  /\ answer = None \/ answer \in [key : Keys, value : Values \cup {None}]
  /\ {behind, since} \subseteq [Keys -> SUBSET Keys]

Init ==
  /\ clock = 0 /\ answer = None
  /\ record = [k \in Keys |-> None] /\ put = record
  /\ behind = [k \in Keys |-> {}] /\ since = behind

Tick ==
  /\ clock < MaxClock /\ clock' = clock + 1 /\ answer' = None
  /\ UNCHANGED <<record, behind, put, since>>
-----------------------------------------------------------------------------
Entries == {k \in Keys : record[k] # None}
EntryExpired(k) == record[k].expires <= clock

\* What is left in the map keeps its record and its order.
Leave(ks) ==
  /\ record' = [k \in Keys |-> IF k \in ks THEN record[k] ELSE None]
  /\ behind' = [k \in Keys |-> IF k \in ks THEN behind[k] \cap ks ELSE {}]

\* Among those that are left the key goes to the end.
TouchEntry(ks, k) ==
  behind' = [j \in Keys |-> IF j \in ks \ {k} THEN ((behind[j] \cap ks) \ {k}) \cup {k} ELSE {}]
Used(k) == since' = [j \in Keys |-> IF j = k THEN {} ELSE since[j] \cup {k}]

Get(k) ==
  /\ \/ k \notin Entries /\ UNCHANGED <<record, behind, since>>
        /\ answer' = [key |-> k, value |-> None]
     \/ /\ k \in Entries /\ EntryExpired(k) /\ Leave(Entries \ {k}) /\ UNCHANGED since
        /\ answer' = [key |-> k, value |-> None]
     \/ /\ k \in Entries /\ ~EntryExpired(k)
        /\ TouchEntry(Entries, k) /\ UNCHANGED record /\ Used(k)
        /\ answer' = [key |-> k, value |-> record[k].value]
  /\ UNCHANGED <<clock, put>>

PurgeExpired == {j \in Entries : ~EntryExpired(j)}

\* BUG: nothing goes from a map that is just full.
EvictAbove(k) ==
  IF k \in Entries \/ Cardinality(Entries) <= MaxEntries THEN Entries
  ELSE {j \in PurgeExpired : Cardinality(behind[j] \cap PurgeExpired) < MaxEntries - 1}

\* evictFilledSlots, for a key that is not in the map: what stays of it.
Evict(k) ==
  IF k \in Entries \/ Cardinality(Entries) < MaxEntries THEN Entries
  ELSE {j \in PurgeExpired : Cardinality(behind[j] \cap PurgeExpired) < MaxEntries - 1}

Set(k) ==
  /\ \E v \in Values, life \in Lifetimes :
       LET r == [value |-> v, expires |-> clock + life] IN
       /\ record' = [j \in Keys |-> IF j = k THEN r
                                    ELSE IF j \in Evict(k) THEN record[j] ELSE None]
       /\ put' = [put EXCEPT ![k] = r]
  /\ TouchEntry(Evict(k), k) /\ Used(k) /\ answer' = None /\ UNCHANGED clock

Delete(k) ==
  /\ Leave(Entries \ {k}) /\ put' = [put EXCEPT ![k] = None]
  /\ answer' = None /\ UNCHANGED <<clock, since>>

Next == Tick \/ \E k \in Keys : Get(k) \/ Set(k) \/ Delete(k)
Spec == Init /\ [][Next]_vars
-----------------------------------------------------------------------------
(***************************************************************************)
(* The map keeps its bound; a get answers with what was set last, if that  *)
(* has not expired, and an entry goes early only when as many others as    *)
(* the map holds were used since.                                          *)
(***************************************************************************)
RecentKept ==
  /\ Cardinality(Entries) <= MaxEntries
  /\ \A k \in Keys :
       put[k] # None /\ put[k].expires > clock /\ Cardinality(since[k]) < MaxEntries
         => k \in Entries
  /\ answer # None =>
       LET p == put[answer.key] IN
       answer.value # None => p # None /\ p.value = answer.value /\ p.expires > clock
=============================================================================
