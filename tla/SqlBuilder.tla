---------------------------- MODULE SqlBuilder ----------------------------
(***************************************************************************)
(* Queries: the builders of utils/sql and the dialects.  A statement is    *)
(* made by a chain of calls; a condition is the numbers of the placeholders *)
(* in its text, which are those of its own arguments, for SELECT counted   *)
(* on from the arguments before it.  Arguments are numbered in the order   *)
(* in which the caller gives them.                                         *)
(***************************************************************************)
EXTENDS Naturals, Sequences, SequencesExt, FiniteSetsExt

CONSTANTS
  MaxCalls,    \* bound: calls of a chain
  Conditions,  \* the placeholders that occur in a condition, in their order
  None

VARIABLES
  statement,  \* insert, select, update or delete
  calls,      \* how many calls were made
  columns,    \* columns of an insert
  rows,       \* lengths of its rows
  sets,       \* set() calls of an update
  conditions, \* where() and and() calls
  text,       \* the placeholders in the text, in their order
  values,     \* values
  meant,      \* history: the argument meant at each of them
  built       \* None, "error" or what build() answers

vars == <<statement, calls, columns, rows, sets, conditions, text, values, meant, built>>

Arity(condition) == IF condition = <<>> THEN 0 ELSE Max(ToSet(condition))
Query == [text : Seq(Nat), values : Seq(Nat)]

TypeOK ==
  /\ statement \in {"insert", "select", "update", "delete"}
  /\ {calls, columns, sets, conditions} \subseteq Nat
  /\ {text, values, meant, rows} \subseteq Seq(Nat)
  /\ built = None \/ built \in Query \cup {[error |-> TRUE]}

Init ==
  /\ statement \in {"insert", "select", "update", "delete"}
  /\ columns \in (IF statement = "insert" THEN 0..2 ELSE {0})
  /\ calls = 0 /\ rows = <<>> /\ sets = 0 /\ conditions = 0
  /\ text = <<>> /\ values = <<>> /\ meant = <<>> /\ built = None

Call == built = None /\ calls < MaxCalls /\ calls' = calls + 1
Following(n) == [i \in 1..n |-> Len(values) + i]
-----------------------------------------------------------------------------
\* set() of an update; after where() there is none.
Set ==
  /\ Call /\ statement = "update" /\ conditions = 0 /\ sets' = sets + 1
  /\ text' = Append(text, Len(values) + 1)
  /\ values' = values \o Following(1) /\ meant' = meant \o Following(1)
  /\ UNCHANGED <<statement, columns, rows, conditions, built>>

\* BUG: the condition of an update keeps its numbers.
Unchanged(condition) == condition

\* renumberSqlPlaceholders
Renumbered(condition) == [i \in DOMAIN condition |-> condition[i] + Len(values)]

\* addWhere, and addAnd: a condition with its arguments, written as shown.
AddWhere(condition, shown) ==
  /\ text' = text \o shown
  /\ values' = values \o Following(Arity(condition))
  /\ meant' = meant \o [i \in DOMAIN condition |-> Len(values) + condition[i]]
  /\ UNCHANGED <<statement, columns, rows, sets, built>>

\* where() of an update, of which there is one.
WhereUpdate ==
  /\ Call /\ statement = "update" /\ sets > 0 /\ conditions = 0 /\ conditions' = 1
  /\ \E c \in Conditions : AddWhere(c, Renumbered(c))

\* where() of a delete, whose conditions are its first arguments.
WhereDelete ==
  /\ Call /\ statement = "delete" /\ conditions = 0 /\ conditions' = 1
  /\ \E c \in Conditions : AddWhere(c, c)

\* where() and and() of a select take the text as it is.
WhereMore ==
  /\ Call /\ statement = "select" /\ conditions' = conditions + 1
  /\ \E c \in Conditions : AddWhere(c, [i \in DOMAIN c |-> Len(values) + c[i]])

\* values() of an insert; the placeholders are numbered when it is built.
Values ==
  /\ Call /\ statement = "insert"
  /\ \E n \in 0..2 : rows' = Append(rows, n) /\ values' = values \o Following(n)
  /\ UNCHANGED <<statement, columns, sets, conditions, text, meant, built>>

Error == [error |-> TRUE]

\* build() of what must be complete.
Built(complete) ==
  /\ built = None /\ built' = (IF complete THEN [text |-> text', values |-> values] ELSE Error)
  /\ UNCHANGED <<statement, calls, columns, rows, sets, conditions, values>>

\* Of the rows of an insert each value has a placeholder, in order.
BuildInsert ==
  /\ statement = "insert"
  /\ text' = [i \in DOMAIN values |-> i] /\ meant' = text'
  /\ Built(columns > 0 /\ rows # <<>> /\ \A i \in DOMAIN rows : rows[i] = columns)

BuildSelect == statement = "select" /\ UNCHANGED <<text, meant>> /\ Built(TRUE)

\* assertHasWhere: nothing is changed or removed without a condition.
HasWhere == conditions > 0

BuildUpdate == statement = "update" /\ UNCHANGED <<text, meant>> /\ Built(sets > 0 /\ HasWhere)
BuildDelete == statement = "delete" /\ UNCHANGED <<text, meant>> /\ Built(HasWhere)

Next == \/ Set \/ WhereUpdate \/ WhereDelete \/ WhereMore \/ Values
        \/ BuildInsert \/ BuildSelect \/ BuildUpdate \/ BuildDelete
Spec == Init /\ [][Next]_vars
-----------------------------------------------------------------------------
\* PostgreSQL looks a placeholder up by its number ...
Postgres(q) == [i \in DOMAIN q.text |-> q.values[q.text[i]]]

\* ... and toClientQuery of MariaDB lists the value of each place in the order of
\* the places, unless a number has no value or there are more values than numbers.
MariaDb(q) ==
  IF Arity(q.text) # Len(q.values) THEN <<>>
  ELSE [place \in DOMAIN q.text |-> q.values[q.text[place]]]

(***************************************************************************)
(* Whatever a chain of calls builds, each place in its text is bound to    *)
(* the argument that the caller meant, with either database, and a write   *)
(* has a condition.                                                        *)
(***************************************************************************)
BoundAsMeant ==
  built \notin {None, Error} =>
    /\ Postgres(built) = meant
    /\ MariaDb(built) = meant
    /\ statement \in {"update", "delete"} => conditions > 0
=============================================================================
