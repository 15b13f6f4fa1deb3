-------------------------------- MODULE Stock --------------------------------
(* Ordering against a stock, in three examples: 02 (gRPC beside REST and     *)
(* GraphQL), 11 (observability) and 18 (errors).  An order service asks an   *)
(* inventory service to reserve; in 02 and 11 it then stores the order and   *)
(* publishes an event, in 18 it only answers.  The inventory serves its      *)
(* calls on a pool of threads and keeps the stock in a dictionary.           *)
(* CPython switches threads at calls and at loops.  The look-up, the test    *)
(* and the store of a reservation contain neither and are one step; logging  *)
(* and counting come after them, and what is read later may be newer.        *)
EXTENDS Integers, FiniteSets, Functions

CONSTANTS
  Requests,
  Quantities,    \* bound: the quantities ordered
  InitialStock,
  MaxRestarts,   \* bound: restarts of the inventory
  MaxFailures    \* bound: calls, inserts and sends that fail

VARIABLES
  edition,    \* "02", "11" or "18"
  fail_mode,  \* 18: the inventory answers UNAVAILABLE
  stock,      \* the entry of the sku, -1 before its first use
  epoch,      \* restarts so far
  order,      \* [request]: [pc, quantity, confirmed, remaining, epoch]
  rows,       \* orders: <<request, status>>
  events,     \* order.placed: <<request, status>>
  answer,     \* [request]: the HTTP status, 0 while open
  failures

vars == <<edition, fail_mode, stock, epoch, order, rows, events, answer, failures>>
settings == <<edition, fail_mode>>

Init ==
  /\ edition \in {"02", "11", "18"}
  /\ fail_mode \in IF edition = "18" THEN BOOLEAN ELSE {FALSE}
  /\ stock = -1 /\ epoch = 0 /\ failures = 0
  /\ order = [r \in Requests |-> [pc |-> "none", quantity |-> 0, confirmed |-> FALSE, remaining |-> 0, epoch |-> -1]]
  /\ rows = {} /\ events = {}
  /\ answer = [r \in Requests |-> 0]

Move(r, from, to) == order[r].pc = from /\ order' = [order EXCEPT ![r].pc = to]
Done(r, status) == answer' = [answer EXCEPT ![r] = status]
Fails(r) ==   \* a restart has broken the call, or some other failure
  IF order[r].pc = "broken" THEN UNCHANGED failures
                            ELSE failures < MaxFailures /\ failures' = failures + 1
Status(r) == IF order[r].confirmed THEN "confirmed" ELSE "rejected"

-----------------------------------------------------------------------------
(* The inventory.                                                            *)

Have == IF stock = -1 THEN InitialStock ELSE stock

Reserved(r, confirmed) ==
  /\ order' = [order EXCEPT ![r] = [@ EXCEPT !.pc = "reserved", !.confirmed = confirmed,
                 !.remaining = Have - order[r].quantity, !.epoch = IF confirmed THEN epoch ELSE -1]]
  /\ UNCHANGED <<settings, epoch, rows, events, answer, failures>>

(* Mutant: the reservation tests the entry it had when the call came in.     *)
ReserveStock11_Unchecked(r) ==
  /\ edition = "11" /\ order[r].pc = "called"
  /\ stock' = Have - order[r].quantity
  /\ Reserved(r, TRUE)

ReserveStock02(r) ==
  /\ edition = "02" /\ order[r].pc = "called"
  /\ LET remaining == Have - order[r].quantity IN
       /\ stock' = IF remaining >= 0 THEN remaining ELSE Have
       /\ Reserved(r, remaining >= 0)

ReserveStock11(r) ==
  /\ edition = "11" /\ order[r].pc = "called"
  /\ LET confirmed == Have >= order[r].quantity IN
       /\ stock' = IF confirmed THEN Have - order[r].quantity ELSE Have
       /\ Reserved(r, confirmed)

ReserveStock18(r) ==
  /\ edition = "18" /\ ~fail_mode /\ order[r].pc = "called"
  /\ IF Have < order[r].quantity
       THEN stock' = Have /\ Reserved(r, FALSE)
       ELSE stock' = Have - order[r].quantity /\ Reserved(r, TRUE)

(* The reply: 02 returns what it computed, and otherwise the entry is read   *)
(* again.                                                                    *)
Reply(r) ==
  /\ order[r].pc = "reserved" /\ (edition = "18" => order[r].confirmed)
  /\ order' = [order EXCEPT ![r] = [@ EXCEPT !.pc = "replied",
                 !.remaining = IF edition = "02" /\ order[r].confirmed THEN order[r].remaining ELSE Have]]
  /\ UNCHANGED <<settings, stock, epoch, rows, events, answer, failures>>

(* The dictionary is gone with its process, and so are the calls in it.      *)
Restart ==
  /\ epoch < MaxRestarts
  /\ epoch' = epoch + 1 /\ stock' = -1
  /\ order' = [r \in Requests |-> IF order[r].pc = "reserved" THEN [order[r] EXCEPT !.pc = "broken"] ELSE order[r]]
  /\ UNCHANGED <<settings, rows, events, answer, failures>>

-----------------------------------------------------------------------------
(* The order services.                                                       *)

PlaceOrder(r, quantity) ==
  /\ order[r].pc = "none"
  /\ order' = [order EXCEPT ![r].pc = "called", ![r].quantity = quantity]
  /\ UNCHANGED <<settings, stock, epoch, rows, events, answer, failures>>

(* 02 and 11: an insert, then a send that returns at once.                   *)
InsertOrder(r) ==
  /\ edition \in {"02", "11"} /\ Move(r, "replied", "inserted")
  /\ rows' = rows \cup {<<r, Status(r)>>}
  /\ UNCHANGED <<settings, stock, epoch, events, answer, failures>>

(* Mutant: the event goes out before the row is in.                          *)
SendEvent_First(r) ==
  /\ edition \in {"02", "11"} /\ order[r].pc \in {"replied", "inserted"}
  /\ order' = [order EXCEPT ![r].pc = "done"]
  /\ events' = events \cup {<<r, Status(r)>>} /\ Done(r, 201)
  /\ UNCHANGED <<settings, stock, epoch, rows, failures>>

SendEvent(r) ==
  /\ edition \in {"02", "11"} /\ Move(r, "inserted", "done")
  /\ events' = events \cup {<<r, Status(r)>>} /\ Done(r, 201)
  /\ UNCHANGED <<settings, stock, epoch, rows, failures>>

(* An exception of the call, the insert or the send is not caught: 500, and  *)
(* what was reserved stays reserved.                                         *)
Raises(r) ==
  /\ edition \in {"02", "11"} /\ order[r].pc \in {"called", "reserved", "broken", "replied", "inserted"}
  /\ order' = [order EXCEPT ![r].pc = "done"]
  /\ Fails(r) /\ Done(r, 500)
  /\ UNCHANGED <<settings, stock, epoch, rows, events>>

(* Mutant: every error of the inventory is reported as a conflict.           *)
Answer18_AllConflicts(r) ==
  /\ edition = "18" /\ order[r].pc \in {"called", "reserved", "broken"}
  /\ order' = [order EXCEPT ![r].pc = "done"]
  /\ Fails(r) /\ Done(r, 409)
  /\ UNCHANGED <<settings, stock, epoch, rows, events>>

(* 18: the answer tells the three kinds of error apart.                      *)
Answer18(r) ==
  /\ edition = "18"
  /\ \/ /\ Move(r, "called", "done") /\ fail_mode
        /\ Done(r, 503) /\ UNCHANGED failures
     \/ /\ Move(r, "reserved", "done") /\ ~order[r].confirmed
        /\ Done(r, 409) /\ UNCHANGED failures
     \/ /\ Move(r, "replied", "done")
        /\ Done(r, 201) /\ UNCHANGED failures
     \/ /\ order[r].pc \in {"called", "reserved", "broken"}   \* the call fails
        /\ order' = [order EXCEPT ![r].pc = "done"]
        /\ Fails(r) /\ \E status \in {502, 503} : Done(r, status)
  /\ UNCHANGED <<settings, stock, epoch, rows, events>>

Next ==
  \/ \E r \in Requests, q \in Quantities : PlaceOrder(r, q)
  \/ \E r \in Requests : ReserveStock02(r) \/ ReserveStock11(r) \/ ReserveStock18(r) \/ Reply(r)
  \/ \E r \in Requests : InsertOrder(r) \/ SendEvent(r) \/ Raises(r) \/ Answer18(r)
  \/ Restart

Spec == Init /\ [][Next]_vars

-----------------------------------------------------------------------------
(* Properties.                                                               *)

TypeOK ==
  /\ edition \in {"02", "11", "18"} /\ fail_mode \in BOOLEAN
  /\ stock \in -1..InitialStock /\ epoch \in 0..MaxRestarts /\ failures \in 0..MaxFailures
  /\ \A r \in Requests :
       /\ order[r].pc \in {"none", "called", "reserved", "broken", "replied", "inserted", "done"}
       /\ order[r].quantity \in Quantities \cup {0} /\ order[r].confirmed \in BOOLEAN
       /\ order[r].epoch \in -1..MaxRestarts
  /\ \A pair \in rows \cup events : pair[1] \in Requests /\ pair[2] \in {"confirmed", "rejected"}
  /\ \A r \in Requests : answer[r] \in {0, 201, 409, 500, 502, 503}

\* What the inventory process that runs after e restarts has given away.
Taken(e) ==
  SumFunctionOnSet([r \in Requests |-> IF order[r].epoch = e THEN order[r].quantity ELSE 0], Requests)

(* Whatever threads interleave, an inventory process gives away exactly what *)
(* has left its stock, and never more than it began with.                    *)
NeverOversold ==
  /\ Have = InitialStock - Taken(epoch)
  /\ \A e \in 0..epoch : Taken(e) <= InitialStock

(* Stock that was taken by a call belongs to a confirmed order, to a request *)
(* that is still open or to one that was told it failed; and no answer says  *)
(* "sold" or "sold out" of stock for which the inventory decided otherwise.  *)
TakenStockAccountedFor ==
  \A r \in Requests :
    /\ order[r].epoch # -1 =>
         \/ <<r, "confirmed">> \in rows \/ answer[r] \in {0, 500, 502, 503}
         \/ edition = "18" /\ answer[r] = 201
    /\ answer[r] = 409 => order[r].epoch = -1
    /\ <<r, "confirmed">> \in rows => order[r].epoch # -1

(* Events speak of stored orders, with the status that was stored.           *)
EventsHaveRows ==
  /\ events \subseteq rows
  /\ \A r \in Requests : answer[r] = 201 /\ edition # "18" => <<r, Status(r)>> \in events

(* Stock, rows, answers and events agree as far as the code can have them.   *)
StockAccountedFor == NeverOversold /\ TakenStockAccountedFor /\ EventsHaveRows
=============================================================================
