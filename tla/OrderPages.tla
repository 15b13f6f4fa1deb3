------------------------------ MODULE OrderPages ------------------------------
(* GET /orders of example 02: pages of orders by ascending id, each with the *)
(* cursor of the next.  Ids are random, so an order placed while a client    *)
(* pages may land before or behind its cursor.                               *)
EXTENDS Integers, Sequences, FiniteSets, SequencesExt

CONSTANTS
  Ids,     \* bound: a set of positive numbers; 0 stands for no cursor
  Limits   \* bound: the limits that clients ask for

VARIABLES
  placed,  \* the ids in the orders table
  limit,
  first,   \* the orders that were there before the first page
  after,   \* the cursor the client sends next, 0 for none
  seen,    \* the ids it was shown
  walk     \* "going", "ended", "failed"

vars == <<placed, limit, first, after, seen, walk>>

Init ==
  /\ placed \in SUBSET Ids
  /\ limit \in Limits
  /\ first = placed /\ after = 0 /\ seen = <<>> /\ walk = "going"

PlaceOrder(id) ==
  /\ placed' = placed \cup {id}
  /\ first' = IF seen = <<>> /\ walk = "going" THEN placed' ELSE first
  /\ UNCHANGED <<limit, after, seen, walk>>

(* SELECT ... WHERE id > after ORDER BY id LIMIT limit                       *)
Later == {id \in placed : id > after}
Before(id) == {other \in Later : other < id}
Rows ==
  LET n == Cardinality(Later) IN
  [k \in 1..(IF n < limit THEN n ELSE limit) |-> CHOOSE id \in Later : Cardinality(Before(id)) = k - 1]

(* Mutant: the cursor is the first id of the page that follows.              *)
ListOrders_CursorIsNext ==
  /\ walk = "going" /\ limit > 0
  /\ seen' = seen \o Rows
  /\ LET rest == Later \ ToSet(Rows) IN
       /\ walk' = IF rest = {} THEN "ended" ELSE "going"
       /\ after' = IF rest = {} THEN 0 ELSE CHOOSE id \in rest : \A other \in rest : id <= other
  /\ UNCHANGED <<placed, limit, first>>

(* A full page carries the id of its last item.  The parameter has an upper  *)
(* bound only: a limit of 0 makes an empty page a full one, and the last     *)
(* item of nothing raises.                                                   *)
ListOrders ==
  /\ walk = "going"
  /\ IF Len(Rows) # limit THEN walk' = "ended" /\ seen' = seen \o Rows /\ after' = 0
     ELSE IF Rows = <<>> THEN walk' = "failed" /\ UNCHANGED <<seen, after>>
     ELSE seen' = seen \o Rows /\ after' = Last(Rows) /\ UNCHANGED walk
  /\ UNCHANGED <<placed, limit, first>>

Next == (\E id \in Ids \ placed : PlaceOrder(id)) \/ ListOrders

Spec == Init /\ [][Next]_vars

-----------------------------------------------------------------------------
(* Following the cursor to the end shows no order twice, shows them by       *)
(* ascending id, and misses none that was there when it began, whatever is   *)
(* placed meanwhile; and no limit above 0 fails.                             *)
PagesAreComplete ==
  /\ \A j, k \in 1..Len(seen) : j < k => seen[j] < seen[k]
  /\ walk = "ended" => first \subseteq ToSet(seen)
  /\ ToSet(seen) \subseteq placed
  /\ walk = "failed" => limit = 0
=============================================================================
