--------------------------- MODULE PathLock_proofs ---------------------------
(***************************************************************************)
(* For any set of calls and keys: the promise chain of path-lock.ts serves *)
(* the calls of a key in the order they came, and implements KeyedMutex.   *)
(*                                                                         *)
(* FirstComeFirstServed is not inductive: that a call may enter is decided *)
(* by the one call it waits for.  Chain says that this call is the last of *)
(* the earlier ones, and TailIsLast why the map names exactly that call.   *)
(***************************************************************************)
EXTENDS PathLock, NumberLemmas, TLAPS

\* Between a call and the one it waits for there is no other call, and a call
\* that found no entry had nobody before it that had not left.
Chain ==
  \A d \in Calls : Started(d) =>
    /\ previous[d] # NoCall => Before(previous[d], d)
    /\ \A c \in Calls : Before(c, d) =>
         IF previous[d] = NoCall
         THEN phase[c] = "done"
         ELSE arrival[c] <= arrival[previous[d]]

\* Arrival numbers are given out once.
Numbered ==
  /\ \A c \in Calls : Started(c) => arrival[c] < clock
  /\ \A c, d \in Calls : Started(c) /\ Started(d) /\ arrival[c] = arrival[d] => c = d

IInv == TypeOK /\ Numbered /\ TailIsLast /\ Chain /\ FirstComeFirstServed

LEMMA InitIInv == Init => IInv
BY NoCallAssumption
   DEF Init, IInv, TypeOK, Phases, Numbered, TailIsLast, Chain,
       FirstComeFirstServed, Before, Started

LEMMA EnqueueKeepsIInv ==
  ASSUME IInv, NEW e \in Calls, Enqueue(e)
  PROVE  IInv'
<1> USE NoCallAssumption DEF IInv, Enqueue
<1>1. TypeOK'
  BY DEF TypeOK, Phases
<1>2. Numbered'
  BY DEF TypeOK, Phases, Numbered, Started
<1>3. TailIsLast'
  BY DEF TypeOK, Phases, Numbered, TailIsLast, Started
<1>4. ASSUME NEW d \in Calls, Started(d)'
      PROVE  /\ previous'[d] # NoCall => Before(previous[d], d)'
             /\ \A c \in Calls : Before(c, d)' =>
                  IF previous'[d] = NoCall
                  THEN phase'[c] = "done"
                  ELSE arrival'[c] <= arrival'[previous'[d]]
  <2>1. CASE d = e
    <3>1. previous'[d] = tail[key[e]] /\ arrival'[d] = clock
      BY <2>1 DEF TypeOK
    <3>2. ASSUME NEW c \in Calls, Before(c, d)'
          PROVE  c # e /\ Started(c) /\ key[c] = key[e] /\ arrival'[c] = arrival[c]
                 /\ phase'[c] = phase[c]
      BY <2>1, <3>2 DEF TypeOK, Before, Started
    <3>3. CASE tail[key[e]] = NoCall
      BY <2>1, <3>1, <3>2, <3>3 DEF TailIsLast, TypeOK, Started
    <3>4. CASE tail[key[e]] # NoCall
      <4>1. tail[key[e]] \in Calls /\ tail[key[e]] # e
        BY <3>4 DEF TypeOK, TailIsLast
      <4>2. Before(previous[d], d)'
        BY <2>1, <3>1, <3>4, <4>1 DEF TailIsLast, TypeOK, Started, Before, Numbered, Phases
      <4>3. \A c \in Calls : Before(c, d)' => arrival'[c] <= arrival'[previous'[d]]
        BY <2>1, <3>1, <3>2, <3>4, <4>1 DEF TailIsLast, TypeOK, Started
      <4> QED BY <3>1, <3>4, <4>2, <4>3
    <3> QED BY <3>3, <3>4
  <2>2. CASE d # e
    <3>1. Started(d) /\ previous'[d] = previous[d] /\ arrival'[d] = arrival[d]
          /\ phase'[d] = phase[d]
      BY <1>4, <2>2 DEF TypeOK, Started
    <3>2. ~ Before(e, d)'
      BY <2>2, <3>1 DEF TypeOK, Before, Started, Numbered
    <3>3. \A c \in Calls : Before(c, d)' => c # e /\ Before(c, d)
      BY <2>2, <3>1, <3>2 DEF TypeOK, Before, Started
    <3>4. \A c \in Calls : c # e => phase'[c] = phase[c] /\ arrival'[c] = arrival[c]
      BY DEF TypeOK
    <3>5. previous[d] # NoCall => previous[d] \in Calls /\ previous[d] # e
                                  /\ Before(previous[d], d)
      BY <3>1 DEF TypeOK, Chain, Before, Started
    <3>6. previous'[d] # NoCall => Before(previous[d], d)'
      BY <2>2, <3>1, <3>4, <3>5 DEF TypeOK, Before, Started
    <3> QED BY <3>1, <3>3, <3>4, <3>5, <3>6 DEF Chain
  <2> QED BY <2>1, <2>2
<1>5. Chain'
  BY <1>4 DEF Chain
<1>6. FirstComeFirstServed'
  BY DEF FirstComeFirstServed, TypeOK, Phases, Before, Started, Numbered
<1> QED BY <1>1, <1>2, <1>3, <1>5, <1>6

LEMMA EnterKeepsIInv ==
  ASSUME IInv, NEW e \in Calls, Enter(e)
  PROVE  IInv'
<1> USE NoCallAssumption DEF IInv, Enter
<1>0. \A c, d \in Calls : Before(c, d)' <=> Before(c, d)
  BY DEF TypeOK, Before, Started
<1>1. TypeOK'
  BY DEF TypeOK, Phases
<1>2. Numbered'
  BY DEF TypeOK, Numbered, Started
<1>3. TailIsLast'
  BY DEF TypeOK, TailIsLast, Started
<1>4. Chain'
  BY <1>0 DEF TypeOK, Chain, Started, Before
<1>5. \A c \in Calls : Before(c, e) => phase[c] = "done"
  <2>1. CASE previous[e] = NoCall
    BY <2>1 DEF Chain, Started
  <2>2. CASE previous[e] # NoCall
    <3>1. previous[e] \in Calls /\ phase[previous[e]] = "done" /\ Before(previous[e], e)
      BY <2>2 DEF Chain, Started, TypeOK
    <3>2. ASSUME NEW c \in Calls, Before(c, e)
          PROVE  c = previous[e] \/ Before(c, previous[e])
      <4>1. arrival[c] <= arrival[previous[e]]
        BY <2>2, <3>2 DEF Chain, Started, TypeOK
      <4> QED BY <3>1, <3>2, <4>1 DEF Before, Numbered, TypeOK
    <3> QED BY <3>1, <3>2 DEF FirstComeFirstServed
  <2> QED BY <2>1, <2>2
<1>6. FirstComeFirstServed'
  BY <1>0, <1>5 DEF FirstComeFirstServed, TypeOK, Before
<1> QED BY <1>1, <1>2, <1>3, <1>4, <1>6

LEMMA LeaveKeepsIInv ==
  ASSUME IInv, NEW e \in Calls, Leave(e)
  PROVE  IInv'
<1> USE NoCallAssumption DEF IInv, Leave
<1>0. \A c, d \in Calls : Before(c, d)' <=> Before(c, d)
  BY DEF TypeOK, Before, Started
<1>1. TypeOK'
  BY DEF TypeOK, Phases
<1>2. Numbered'
  BY DEF TypeOK, Numbered, Started
<1>3. TailIsLast'
  <2>1. CASE tail[key[e]] = e
    <3>1. \A c \in Calls : key[c] = key[e] /\ Started(c) /\ c # e => phase[c] = "done"
      BY <2>1 DEF TypeOK, TailIsLast, Numbered, Started, Before, FirstComeFirstServed
    <3> QED BY <2>1, <3>1 DEF TypeOK, TailIsLast, Started
  <2>2. CASE tail[key[e]] # e
    BY <2>2 DEF TypeOK, TailIsLast, Started
  <2> QED BY <2>1, <2>2
<1>4. Chain'
  BY <1>0 DEF TypeOK, Chain, Started, Before
<1>5. FirstComeFirstServed'
  BY <1>0 DEF FirstComeFirstServed, TypeOK, Before
<1> QED BY <1>1, <1>2, <1>3, <1>4, <1>5

LEMMA NextKeepsIInv == IInv /\ [Next]_vars => IInv'
<1>1. IInv /\ UNCHANGED vars => IInv'
  BY DEF IInv, vars, TypeOK, Numbered, TailIsLast, Chain, FirstComeFirstServed,
         Before, Started
<1> QED BY <1>1, EnqueueKeepsIInv, EnterKeepsIInv, LeaveKeepsIInv DEF Next

\* The inductive invariant, from which the rest follows.
THEOREM SpecIInv == Spec => []IInv
BY InitIInv, NextKeepsIInv, PTL DEF Spec

\* Type correctness of the promise chain.
THEOREM SpecTypeOK == Spec => []TypeOK
BY SpecIInv, PTL DEF IInv

\* Calls for one key pass in the order in which withPathLock was called.
THEOREM SpecFirstComeFirstServed == Spec => []FirstComeFirstServed
BY SpecIInv, PTL DEF IInv

\* pathLocks holds an entry exactly while somebody holds or waits for the key.
THEOREM SpecTailIsLast == Spec => []TailIsLast
BY SpecIInv, PTL DEF IInv
-----------------------------------------------------------------------------
LEMMA InitImplements == Init => Mutex!Init
BY DEF Init, Mutex!Init, Inside

\* When a call enters, nobody is inside the section of its key.
LEMMA EnterFindsNobody ==
  ASSUME IInv, NEW e \in Calls, Enter(e)
  PROVE  Inside[key[e]] = {}
<1> USE NoCallAssumption DEF IInv
<1>1. SUFFICES ASSUME NEW c \in Calls, key[c] = key[e], phase[c] = "running"
               PROVE  FALSE
  BY DEF Inside, TypeOK
<1>2. Started(c) /\ Started(e) /\ c # e
  BY <1>1 DEF Enter, Started
<1>3. Before(c, e) \/ Before(e, c)
  BY <1>1, <1>2 DEF Before, Numbered, TypeOK
<1>4. FirstComeFirstServed'
  BY EnterKeepsIInv
<1>5. phase'[e] = "running" /\ phase'[c] = "running"
  BY <1>1, <1>2 DEF Enter, TypeOK
<1>6. Before(c, e)' \/ Before(e, c)'
  BY <1>3 DEF Enter, TypeOK, Before, Started
<1> QED BY <1>4, <1>5, <1>6 DEF FirstComeFirstServed

LEMMA EnterImplements ==
  ASSUME IInv, NEW e \in Calls, Enter(e)
  PROVE  Mutex!Acquire(e, key[e])
<1>1. Inside[key[e]] = {}
  BY EnterFindsNobody
<1>2. key' = key /\ phase' = [phase EXCEPT ![e] = "running"]
  BY DEF Enter
<1>3. Inside' = [k \in Keys |-> IF k = key[e] THEN {e} ELSE Inside[k]]
  <2>1. ASSUME NEW k \in Keys
        PROVE  {c \in Calls : key[c] = k /\ phase'[c] = "running"}
                 = IF k = key[e] THEN {e} ELSE {c \in Calls : key[c] = k /\ phase[c] = "running"}
    <3>1. \A c \in Calls : key[c] = key[e] => phase[c] # "running"
      BY <1>1 DEF Inside, IInv, TypeOK
    <3> QED BY <1>2, <3>1 DEF IInv, TypeOK
  <2> QED BY <1>2, <2>1 DEF Inside
<1>4. [Inside EXCEPT ![key[e]] = {e}] = [k \in Keys |-> IF k = key[e] THEN {e} ELSE Inside[k]]
  BY DEF Inside
<1> QED BY <1>1, <1>3, <1>4 DEF Mutex!Acquire

LEMMA LeaveImplements ==
  ASSUME IInv, NEW e \in Calls, Leave(e)
  PROVE  Mutex!ReleaseAll(e)
<1>1. key' = key /\ phase' = [phase EXCEPT ![e] = "done"]
  BY DEF Leave
<1>2. Inside' = [k \in Keys |-> Inside[k] \ {e}]
  BY <1>1 DEF Inside, IInv, TypeOK
<1> QED BY <1>2 DEF Mutex!ReleaseAll

LEMMA StepImplements == IInv /\ [Next]_vars => [Mutex!Next]_Inside
<1> SUFFICES ASSUME IInv, [Next]_vars PROVE [Mutex!Next]_Inside
  OBVIOUS
<1>1. ASSUME NEW e \in Calls, Enqueue(e) PROVE Inside' = Inside
  BY <1>1 DEF Enqueue, Inside, IInv, TypeOK
<1>2. ASSUME NEW e \in Calls, Enter(e) PROVE Mutex!Next
  <2>1. key[e] \in Keys
    BY DEF IInv, TypeOK
  <2> QED BY <1>2, <2>1, EnterImplements DEF Mutex!Next
<1>3. ASSUME NEW e \in Calls, Leave(e) PROVE Mutex!Next
  BY <1>3, LeaveImplements DEF Mutex!Next
<1>4. CASE UNCHANGED vars
  BY <1>4 DEF vars, Inside
<1> QED BY <1>1, <1>2, <1>3, <1>4 DEF Next

\* withPathLock implements a lock per key: every step of the promise chain is
\* a step of KeyedMutex or changes nothing a caller can see.
THEOREM SpecImplementsMutex == Spec => ImplementsMutex
BY SpecIInv, InitImplements, StepImplements, PTL DEF Spec, ImplementsMutex, Mutex!Spec

-----------------------------------------------------------------------------
\* The next step of c finds what it waits for.
CanGoOn(c) ==
  \/ phase[c] = "running"
  \/ phase[c] = "waiting" /\ (previous[c] # NoCall => phase[previous[c]] = "done")

\* The chain of a key has a beginning: as long as a call waits for a key, that
\* call or one that came before it for the same key can go on.
NeverStuck ==
  \A c \in Calls : phase[c] = "waiting" =>
    \E d \in Calls : key[d] = key[c] /\ arrival[d] <= arrival[c] /\ CanGoOn(d)

LEMMA FirstCanGoOn ==
  ASSUME IInv, NEW c \in Calls, phase[c] = "waiting"
  PROVE  \E d \in Calls : key[d] = key[c] /\ arrival[d] <= arrival[c] /\ CanGoOn(d)
<1> DEFINE here == {d \in Calls : key[d] = key[c] /\ phase[d] \in {"waiting", "running"}}
           times == {arrival[d] : d \in here}
<1>1. times \subseteq Nat /\ arrival[c] \in times
  BY DEF IInv, TypeOK
<1>2. PICK n \in times : \A t \in times : n <= t
  <2> HIDE DEF times
  <2> QED BY <1>1, SmallestNumber
<1>3. PICK d \in here : n = arrival[d]
  OBVIOUS
<1>4. ASSUME phase[d] = "waiting", previous[d] # NoCall PROVE phase[previous[d]] = "done"
  <2> DEFINE e == previous[d]
  <2>1. e \in Calls /\ Before(e, d)
    BY <1>4 DEF IInv, TypeOK, Chain, Started
  <2>2. ~(arrival[d] <= arrival[e])
    BY <2>1 DEF Before, IInv, TypeOK
  <2>3. e \notin here
    BY <1>2, <1>3, <2>2
  <2> QED BY <2>1, <2>3 DEF Before, Started, IInv, TypeOK, Phases
<1>5. key[d] = key[c] /\ arrival[d] <= arrival[c]
  BY <1>1, <1>2, <1>3
<1> QED BY <1>4, <1>5 DEF CanGoOn

\* No call waits in vain: the safety half of EveryCallServed.
THEOREM SpecNeverStuck == Spec => []NeverStuck
<1>1. IInv => NeverStuck
  BY FirstCanGoOn DEF NeverStuck
<1> QED BY <1>1, SpecIInv, PTL
=============================================================================
