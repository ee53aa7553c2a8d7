----------------------------- MODULE KeyedMutex -----------------------------
(***************************************************************************)
(* What the services expect of a lock on a key: at most one caller is      *)
(* inside the section of a key, and a caller that leaves gives back        *)
(* everything it holds.  No order among the callers that wait is promised  *)
(* here; PathLock shows that src/utils/path-lock.ts implements this and    *)
(* serves the callers of a key in the order of their calls.                *)
(***************************************************************************)
CONSTANTS Callers,   \* the calls (or requests) that take locks
          Keys       \* the lock keys

VARIABLE holder      \* holder[k]: the callers inside the section of k

TypeOK == holder \in [Keys -> SUBSET Callers]

Init == holder = [k \in Keys |-> {}]

Acquire(c, k) == /\ holder[k] = {}
                 /\ holder' = [holder EXCEPT ![k] = {c}]

ReleaseAll(c) == holder' = [k \in Keys |-> holder[k] \ {c}]

Next == \E c \in Callers : \/ \E k \in Keys : Acquire(c, k)
                           \/ ReleaseAll(c)

Spec == Init /\ [][Next]_holder

\* Two callers are never inside the section of the same key.
Exclusive == \A k \in Keys : \A c, d \in holder[k] : c = d
=============================================================================
