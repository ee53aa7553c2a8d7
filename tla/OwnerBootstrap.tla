--------------------------- MODULE OwnerBootstrap ---------------------------
(***************************************************************************)
(* The first owner: TechnicalBootstrapService.  A start without an owner   *)
(* leaves a token in a file; whoever presents it becomes the owner, once.  *)
(* The accounts of the admin and of the auth store are the same rows, so   *)
(* an owner here is a live row; it has the name of the call that made it.  *)
(***************************************************************************)
EXTENDS Naturals

CONSTANTS
  Calls,      \* calls of initOwner
  MaxTokens,  \* bound: tokens that are made
  None

VARIABLES
  kept,      \* the accounts are in a database and outlive the process
  up,        \* the server accepts calls
  owners,    \* the calls whose owner is in the table
  token,     \* bootstrapToken of the process
  file,      \* the token in the file
  made,      \* how many tokens were made so far
  pc,        \* where a call is
  expected,  \* the token a call took
  tries,     \* attempts a call has left to undo its owner
  orphaned   \* history: a call left its owner behind and answered an error

vars == <<kept, up, owners, token, file, made, pc, expected, tries, orphaned>>

Tokens == 1..MaxTokens
Places == {"idle", "checked", "creating", "saving", "undoing", "removing", "restoring", "done"}

TypeOK ==
  /\ {kept, up, orphaned} \subseteq BOOLEAN
  /\ owners \subseteq Calls
  /\ {token, file} \subseteq Tokens \cup {None}
  /\ made \in 0..MaxTokens
  /\ pc \in [Calls -> Places]
  /\ expected \in [Calls -> Tokens \cup {None}]
  /\ tries \in [Calls -> 0..3]

Init ==
  /\ kept \in BOOLEAN /\ up = FALSE /\ owners = {}
  /\ token = None /\ file = None /\ made = 0
  /\ pc = [c \in Calls |-> "idle"]
  /\ expected = [c \in Calls |-> None] /\ tries = [c \in Calls |-> 0]
  /\ orphaned = FALSE

Goto(c, to) == pc' = [pc EXCEPT ![c] = to]
-----------------------------------------------------------------------------
\* onApplicationBootstrap, before any call is accepted.  A question to the
\* database or to the disk that fails leaves the process without a token.
Start ==
  /\ ~up /\ up' = TRUE
  /\ \/ token' = None /\ UNCHANGED <<file, made>>
     \/ owners # {} /\ token' = None /\ file' = None /\ UNCHANGED made
     \/ owners = {} /\ file # None /\ token' = file /\ UNCHANGED <<file, made>>
     \/ /\ owners = {} /\ file = None /\ made < MaxTokens
        /\ made' = made + 1 /\ token' = made' /\ file' = made'
  /\ UNCHANGED <<kept, owners, pc, expected, tries, orphaned>>

\* The process ends; accounts in memory end with it.
Crash ==
  /\ up /\ up' = FALSE
  /\ token' = None
  /\ owners' = (IF kept THEN owners ELSE {})
  /\ pc' = [c \in Calls |-> IF pc[c] = "idle" THEN "idle" ELSE "done"]
  /\ UNCHANGED <<kept, file, made, expected, tries, orphaned>>

\* hasOwner: with an owner the call is refused.
CheckOwner(c) ==
  /\ up /\ pc[c] = "idle"
  /\ Goto(c, IF owners = {} THEN "checked" ELSE "done")
  /\ UNCHANGED <<kept, up, owners, token, file, made, expected, tries, orphaned>>

\* BUG: the token stays while the owner is being created.
TakeTokenKeeping(c) ==
  /\ up /\ pc[c] = "checked"
  /\ \/ Goto(c, "done") /\ UNCHANGED <<token, expected>>
     \/ token # None /\ Goto(c, "creating") /\ expected' = [expected EXCEPT ![c] = token]
        /\ UNCHANGED token
  /\ UNCHANGED <<kept, up, owners, file, made, tries, orphaned>>

\* A call that presents another token, or comes when there is none, is refused.
\* The token is taken in the turn that compares it.
TakeToken(c) ==
  /\ up /\ pc[c] = "checked"
  /\ \/ Goto(c, "done") /\ UNCHANGED <<token, expected>>
     \/ /\ token # None /\ Goto(c, "creating")
        /\ expected' = [expected EXCEPT ![c] = token] /\ token' = None
  /\ UNCHANGED <<kept, up, owners, file, made, tries, orphaned>>

\* createAuthUser: the password or the name is refused, or the row is written;
\* a write may be answered with an error although it was done.
CreateUser(c) ==
  /\ up /\ pc[c] = "creating"
  /\ \/ Goto(c, "restoring") /\ UNCHANGED <<owners, orphaned>>
     \/ owners' = owners \cup {c} /\ Goto(c, "saving") /\ UNCHANGED orphaned
     \/ owners' = owners \cup {c} /\ Goto(c, "restoring") /\ orphaned' = TRUE
  /\ UNCHANGED <<kept, up, token, file, made, expected, tries>>

\* adminStore.saveUser writes the same row.
SaveAdminUser(c) ==
  /\ up /\ pc[c] = "saving"
  /\ \/ Goto(c, "removing") /\ UNCHANGED tries
     \/ Goto(c, "undoing") /\ tries' = [tries EXCEPT ![c] = 3]
  /\ UNCHANGED <<kept, up, owners, token, file, made, expected, orphaned>>

\* One attempt of rollbackAuthUserWithRetry; an error of the last is the answer.
RollbackAuthUser(c) ==
  /\ up /\ pc[c] = "undoing" /\ tries' = [tries EXCEPT ![c] = @ - 1]
  /\ \/ owners' = owners \ {c} /\ Goto(c, "restoring") /\ UNCHANGED orphaned
     \/ /\ owners' \in {owners, owners \ {c}}
        /\ Goto(c, IF tries'[c] = 0 THEN "restoring" ELSE "undoing")
        /\ orphaned' = (orphaned \/ (tries'[c] = 0 /\ c \in owners'))
  /\ UNCHANGED <<kept, up, token, file, made, expected>>

\* The token of a call that failed can be used again.
RestoreToken(c) ==
  /\ up /\ pc[c] = "restoring"
  /\ token' = expected[c] /\ Goto(c, "done")
  /\ UNCHANGED <<kept, up, owners, file, made, expected, tries, orphaned>>

\* A file that cannot be removed is logged.
RemoveTokenFile(c) ==
  /\ up /\ pc[c] = "removing"
  /\ file' \in {None, file} /\ Goto(c, "done")
  /\ UNCHANGED <<kept, up, owners, token, made, expected, tries, orphaned>>

Next ==
  \/ Start \/ Crash
  \/ \E c \in Calls :
       \/ CheckOwner(c) \/ TakeToken(c) \/ CreateUser(c) \/ SaveAdminUser(c)
       \/ RollbackAuthUser(c) \/ RestoreToken(c) \/ RemoveTokenFile(c)

Spec == Init /\ [][Next]_vars
-----------------------------------------------------------------------------
(***************************************************************************)
(* There is one owner at most, and none while a token can be redeemed,     *)
(* whichever calls overlap, fail or are cut off: a call that found no      *)
(* owner long ago included.  Only a row that a failed call could not take  *)
(* back may meet another.                                                  *)
(***************************************************************************)
OneOwner ==
  ~orphaned => /\ \A c, d \in owners : c = d
               /\ token # None => owners = {}
=============================================================================
