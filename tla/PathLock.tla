------------------------------ MODULE PathLock ------------------------------
(***************************************************************************)
(* withPathLock(lockKey, fn) of src/utils/path-lock.ts: a lock per key     *)
(* made of promises.  The map pathLocks keeps, for a key, the chain of the *)
(* last call; a call waits for the chain it finds there, puts its own in   *)
(* its place, runs fn, resolves its promise and takes the entry away when  *)
(* it is still its own.                                                    *)
(*                                                                         *)
(* A call is one evaluation of withPathLock, so it happens once.  The      *)
(* chain of a call is previous.then(() => current): it is settled when the *)
(* chain before it and its own promise are.  A call resolves its promise   *)
(* only after it waited for the chain before it, so "the chain of c is     *)
(* settled" is done[c] here.                                               *)
(***************************************************************************)
EXTENDS Naturals

CONSTANTS Calls,     \* the calls of withPathLock
          Keys,      \* the lock keys
          NoCall     \* pathLocks has no entry / the call found none

ASSUME NoCallAssumption == NoCall \notin Calls

VARIABLES key,       \* key[c]: the lockKey argument of the call
          tail,      \* tail[k]: whose chain is pathLocks.get(k)
          previous,  \* previous[c]: whose chain the call waits for
          phase,     \* phase[c]: where the call is
          arrival,   \* history: arrival[c] numbers the calls as they come
          clock      \* history: the next number

vars == <<key, tail, previous, phase, arrival, clock>>

Phases == {"idle", "waiting", "running", "done"}

TypeOK ==
  /\ key \in [Calls -> Keys]
  /\ tail \in [Keys -> Calls \cup {NoCall}]
  /\ previous \in [Calls -> Calls \cup {NoCall}]
  /\ phase \in [Calls -> Phases]
  /\ arrival \in [Calls -> Nat]
  /\ clock \in Nat

Init ==
  /\ key \in [Calls -> Keys]
  /\ tail = [k \in Keys |-> NoCall]
  /\ previous = [c \in Calls |-> NoCall]
  /\ phase = [c \in Calls |-> "idle"]
  /\ arrival = [c \in Calls |-> 0]
  /\ clock = 0

\* BUG: the call keeps the key instead of the chain it found there.
EnqueueKey(c) ==
  /\ phase[c] = "idle"
  /\ previous' = [previous EXCEPT ![c] = key[c]]
  /\ tail' = [tail EXCEPT ![key[c]] = c]
  /\ phase' = [phase EXCEPT ![c] = "waiting"]
  /\ arrival' = [arrival EXCEPT ![c] = clock]
  /\ clock' = clock + 1
  /\ UNCHANGED key

\* Lines 4-10 run without a pause: read the entry, put the own chain there.
Enqueue(c) ==
  /\ phase[c] = "idle"
  /\ previous' = [previous EXCEPT ![c] = tail[key[c]]]
  /\ tail' = [tail EXCEPT ![key[c]] = c]
  /\ phase' = [phase EXCEPT ![c] = "waiting"]
  /\ arrival' = [arrival EXCEPT ![c] = clock]
  /\ clock' = clock + 1
  /\ UNCHANGED key

\* BUG: a call waits only until the call before it has started.
EnterAtOnce(c) ==
  /\ phase[c] = "waiting"
  /\ previous[c] # NoCall => phase[previous[c]] \in {"running", "done"}
  /\ phase' = [phase EXCEPT ![c] = "running"]
  /\ UNCHANGED <<key, tail, previous, arrival, clock>>

\* "await previous" returns: there was no chain, or it is settled.
Enter(c) ==
  /\ phase[c] = "waiting"
  /\ previous[c] # NoCall => phase[previous[c]] = "done"
  /\ phase' = [phase EXCEPT ![c] = "running"]
  /\ UNCHANGED <<key, tail, previous, arrival, clock>>

\* BUGS: the entry is removed whoever owns it; it is never removed; only the
\* last call resolves its promise.
LeaveRemoving(c) ==
  /\ phase[c] = "running"
  /\ phase' = [phase EXCEPT ![c] = "done"]
  /\ tail' = [tail EXCEPT ![key[c]] = NoCall]
  /\ UNCHANGED <<key, previous, arrival, clock>>
LeaveKeeping(c) ==
  /\ phase[c] = "running"
  /\ phase' = [phase EXCEPT ![c] = "done"]
  /\ UNCHANGED <<key, tail, previous, arrival, clock>>
LeaveWhenLast(c) ==
  /\ phase[c] = "running" /\ tail[key[c]] = c
  /\ phase' = [phase EXCEPT ![c] = "done"]
  /\ tail' = [tail EXCEPT ![key[c]] = NoCall]
  /\ UNCHANGED <<key, previous, arrival, clock>>

\* fn has returned or thrown: the finally block resolves the promise and
\* removes the entry when no later call has replaced it.
Leave(c) ==
  /\ phase[c] = "running"
  /\ phase' = [phase EXCEPT ![c] = "done"]
  /\ tail' = IF tail[key[c]] = c THEN [tail EXCEPT ![key[c]] = NoCall] ELSE tail
  /\ UNCHANGED <<key, previous, arrival, clock>>

Next == \E c \in Calls : Enqueue(c) \/ Enter(c) \/ Leave(c)

\* A settled promise wakes its waiter, and fn ends; no call has to be made.
Fairness == \A c \in Calls : WF_vars(Enter(c)) /\ WF_vars(Leave(c))

Spec == Init /\ [][Next]_vars

FairSpec == Spec /\ Fairness

-----------------------------------------------------------------------------
Started(c) == phase[c] # "idle"

\* c asked for the same key before d did.
Before(c, d) == /\ Started(c) /\ Started(d)
                /\ key[c] = key[d]
                /\ arrival[c] < arrival[d]

\* First come, first served: a call is past the wait only when every earlier
\* call for its key has left.  (await previous, and the chain being replaced
\* in the same turn in which it is read)
FirstComeFirstServed ==
  \A c, d \in Calls :
    Before(c, d) /\ phase[d] \in {"running", "done"} => phase[c] = "done"

\* The map does not grow: when nobody holds or waits for a key, its entry is
\* gone, and an entry always belongs to the last call that came.
TailIsLast ==
  \A k \in Keys :
    IF tail[k] = NoCall
    THEN \A c \in Calls : key[c] = k => phase[c] \in {"idle", "done"}
    ELSE /\ key[tail[k]] = k
         /\ phase[tail[k]] \in {"waiting", "running"}
         /\ \A c \in Calls : Started(c) /\ key[c] = k
                               => arrival[c] <= arrival[tail[k]]

\* The calls inside the section of a key, and the lock they implement.
Inside == [k \in Keys |-> {c \in Calls : key[c] = k /\ phase[c] = "running"}]

Mutex == INSTANCE KeyedMutex WITH Callers <- Calls, holder <- Inside

\* The promise chain implements the keyed lock.
ImplementsMutex == Mutex!Spec

\* No call waits for ever, whatever the other calls do with their keys.
EveryCallServed == \A c \in Calls : phase[c] = "waiting" ~> phase[c] = "done"
=============================================================================
