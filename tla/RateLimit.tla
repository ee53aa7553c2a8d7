----------------------------- MODULE RateLimit -----------------------------
(***************************************************************************)
(* The limit on attempts to log in: registerAuthRateLimit, with its        *)
(* SlidingWindowRateLimiter over the store of the process or over Redis.   *)
(* A request is counted for its user name, then for its address, and is    *)
(* admitted when both counts are within their limits.  Every request is    *)
(* counted, a denied one too.  A hit is the number of its request and its  *)
(* time.                                                                   *)
(***************************************************************************)
EXTENDS Naturals, FiniteSets

CONSTANTS
  Requests,   \* how many requests come
  Users, Addresses,
  UserMax, AddressMax,
  Window,
  MaxKeys,    \* what the store of the process keeps
  MaxTime,    \* bound on the clock
  None

VARIABLES
  redis,      \* the counts are in Redis
  now,        \* the clock
  at,         \* where a request is
  user, address,  \* what a request between its counts is counted for,
  within,     \* whether its first count was within the limit,
  since,      \* and when that was
  hits,       \* the hits recorded for each key
  behind,     \* the order of the store's Map: for each key in it those after it
  seen,       \* history: for each key the others hit since it was
  excused,    \* history: keys whose hits were lost as the design has it
  admitted    \* history: for each key its hits whose requests were admitted

vars == <<redis, now, at, user, address, within, since, hits, behind, seen, excused, admitted>>

Keys == Users \cup Addresses
Limit(key) == IF key \in Users THEN UserMax ELSE AddressMax
Hits == (1..Requests) \X (0..MaxTime)
Time(h) == h[2]

TypeOK ==
  /\ redis \in BOOLEAN /\ now \in 0..MaxTime
  /\ at \in [1..Requests -> {"coming", "counted", "done"}]
  /\ user \in [1..Requests -> Users \cup {None}]
  /\ address \in [1..Requests -> Addresses \cup {None}]
  /\ within \in [1..Requests -> BOOLEAN] /\ since \in [1..Requests -> 0..MaxTime]
  /\ {hits, admitted} \subseteq [Keys -> SUBSET Hits]
  /\ {behind, seen} \subseteq [Keys -> SUBSET Keys] /\ excused \subseteq Keys

Init ==
  /\ redis \in BOOLEAN /\ now = 0
  /\ at = [r \in 1..Requests |-> "coming"]
  /\ user = [r \in 1..Requests |-> None] /\ address = [r \in 1..Requests |-> None]
  /\ within = [r \in 1..Requests |-> FALSE]
  /\ since = [r \in 1..Requests |-> 0]
  /\ hits = [k \in Keys |-> {}] /\ admitted = hits
  /\ behind = [k \in Keys |-> {}] /\ seen = behind /\ excused = {}

Tick ==
  /\ now < MaxTime /\ now' = now + 1
  /\ UNCHANGED <<redis, at, user, address, within, since, hits, behind, seen, excused, admitted>>
-----------------------------------------------------------------------------
Recent(hs) == {h \in hs : Time(h) + Window > now}

\* BUG: a hit is compared with the limit before it is counted.
CountBefore(key, hit) == Cardinality(Recent(hits[key]))

\* Pruned and with this hit: what record answers.
Count(key, hit) == Cardinality(Recent(hits[key]) \cup {hit})

\* A key that was ever recorded has a hit, if only one that is old.
Tracked == {k \in Keys : hits[k] # {}}

\* refreshKey: the key goes to the end.
Touched(key) ==
  [k \in Keys |-> IF k \in Tracked \ {key} THEN behind[k] \cup {key} ELSE {}]

\* evictOverflow takes the first ones, as long as there are too many.
Evicted(key) == IF redis THEN {} ELSE {k \in Tracked : Cardinality(Touched(key)[k]) >= MaxKeys}

\* The hit is put to the others of its key; Redis forgets no key.
Record(key, hit) ==
  /\ hits' = [k \in Keys |-> IF k = key THEN Recent(hits[k]) \cup {hit}
                             ELSE IF k \in Evicted(key) THEN {} ELSE hits[k]]
  /\ behind' = IF redis THEN behind
               ELSE [k \in Keys |-> IF k \in Evicted(key) THEN {}
                                    ELSE Touched(key)[k] \ Evicted(key)]

\* One call of hit.  A key may be forgotten when MaxKeys others were hit since.
\* A command of Redis that fails lets the request through, whether it was
\* carried out or not.
Hit(key, r, allowed) ==
  /\ seen' = [k \in Keys |-> IF redis \/ k = key THEN {} ELSE seen[k] \cup {key}]
  /\ \/ /\ allowed = (Count(key, <<r, now>>) <= Limit(key)) /\ Record(key, <<r, now>>)
        /\ excused' = excused \cup
             (IF redis THEN {} ELSE {k \in Keys \ {key} : Cardinality(seen'[k]) >= MaxKeys})
     \/ /\ redis /\ allowed = TRUE /\ excused' = excused \cup {key}
        /\ Record(key, <<r, now>>) \/ UNCHANGED <<hits, behind>>

\* The two hits of a request; time and other requests come between them.
CountUser(r) ==
  /\ at[r] = "coming" /\ (r > 1 => at[r - 1] # "coming")
  /\ \E u \in Users, a \in Addresses, allowed \in BOOLEAN :
       /\ Hit(u, r, allowed) /\ within' = [within EXCEPT ![r] = allowed]
       /\ user' = [user EXCEPT ![r] = u] /\ address' = [address EXCEPT ![r] = a]
  /\ at' = [at EXCEPT ![r] = "counted"] /\ since' = [since EXCEPT ![r] = now]
  /\ UNCHANGED <<redis, now, admitted>>

CountAddress(r) ==
  /\ at[r] = "counted" /\ at' = [at EXCEPT ![r] = "done"]
  /\ \E allowed \in BOOLEAN :
       /\ Hit(address[r], r, allowed)
       /\ admitted' = IF within[r] /\ allowed
                      THEN [admitted EXCEPT ![user[r]] = @ \cup {<<r, since[r]>>},
                                            ![address[r]] = @ \cup {<<r, now>>}]
                      ELSE admitted
  /\ user' = [user EXCEPT ![r] = None] /\ address' = [address EXCEPT ![r] = None]
  /\ within' = [within EXCEPT ![r] = FALSE] /\ since' = [since EXCEPT ![r] = 0]
  /\ UNCHANGED <<redis, now>>

Next == Tick \/ \E r \in 1..Requests : CountUser(r) \/ CountAddress(r)

Spec == Init /\ [][Next]_vars
-----------------------------------------------------------------------------
\* The hits of the window that ends at a time.
During(hs, last) == {h \in hs : Time(h) <= last /\ Time(h) + Window > last}

(***************************************************************************)
(* No window of time has more admitted requests of one user name or one    *)
(* address than its limit, however requests interleave, unless MaxKeys     *)
(* other keys were hit since or Redis failed.                              *)
(***************************************************************************)
LimitHolds ==
  \A k \in Keys \ excused, last \in 0..now :
    Cardinality(During(admitted[k], last)) <= Limit(k)
=============================================================================
