------------------------------ MODULE OrderCrud ------------------------------
(* Three order services that store and answer: 04 writes an outbox row with  *)
(* each order, which Debezium relays to Kafka; 19 (hexagonal) saves and then *)
(* logs an event; 28 also cancels orders.  Requests interleave between their *)
(* statements; each statement outside a transaction commits by itself.       *)
EXTENDS Naturals, FiniteSets

CONSTANTS
  Orders,        \* ids; the request that places an order bears its id
  Cancels,       \* bound: the DELETE requests of 28
  MaxFailures    \* bound: statements that fail, connections that break

VARIABLES
  edition,    \* "04", "19" or "28"
  pc,         \* [order]: the handler of its POST
  rows,       \* [order]: "none", "placed", "cancelled"
  outbox,     \* committed outbox rows
  relayed,    \* events that Debezium, or the log, has made of them
  answers,    \* [cancel]: the order and status of an ended DELETE, or <<>>
  failed

vars == <<edition, pc, rows, outbox, relayed, answers, failed>>

Init ==
  /\ edition \in {"04", "19", "28"}
  /\ pc = [o \in Orders |-> "none"]
  /\ rows = [o \in Orders |-> "none"]
  /\ outbox = {} /\ relayed = {} /\ failed = 0
  /\ answers = [c \in Cancels |-> <<>>]

Goes(o, from, to) == pc[o] = from /\ pc' = [pc EXCEPT ![o] = to]
Committed == {o \in Orders : rows[o] # "none"}

-----------------------------------------------------------------------------
(* 04: both inserts in one transaction.                                      *)

InsertOrder(o) ==
  /\ edition = "04" /\ Goes(o, "none", "inserted")
  /\ UNCHANGED <<edition, rows, outbox, relayed, answers, failed>>

(* Mutant: no transaction around the two inserts.                            *)
InsertOutbox_Autocommit(o) ==
  /\ edition = "04" /\ Goes(o, "inserted", "both")
  /\ outbox' = outbox \cup {o}
  /\ UNCHANGED <<edition, rows, relayed, answers, failed>>

InsertOutbox(o) ==
  /\ edition = "04" /\ Goes(o, "inserted", "both")
  /\ UNCHANGED <<edition, rows, outbox, relayed, answers, failed>>

(* Mutant: the outbox row is written on another connection, and rolled back. *)
CommitBoth_RowOnly(o) ==
  /\ edition = "04" /\ Goes(o, "both", "201")
  /\ rows' = [rows EXCEPT ![o] = "placed"]
  /\ UNCHANGED <<edition, outbox, relayed, answers, failed>>

CommitBoth(o) ==
  /\ edition = "04" /\ Goes(o, "both", "201")
  /\ rows' = [rows EXCEPT ![o] = "placed"] /\ outbox' = outbox \cup {o}
  /\ UNCHANGED <<edition, relayed, answers, failed>>

Rollback(o) ==
  /\ edition = "04" /\ pc[o] \in {"inserted", "both"}
  /\ pc' = [pc EXCEPT ![o] = "500"]
  /\ failed < MaxFailures /\ failed' = failed + 1
  /\ UNCHANGED <<edition, rows, outbox, relayed, answers>>

(* Debezium reads committed outbox rows.                                     *)
Relay(o) ==
  /\ edition = "04" /\ o \in outbox \ relayed
  /\ relayed' = relayed \cup {o}
  /\ UNCHANGED <<edition, pc, rows, outbox, answers, failed>>

-----------------------------------------------------------------------------
(* 19: the use case PlaceOrder, behind REST and behind the command line.     *)

(* Mutant: publish, then save.                                               *)
Save_Last(o) ==
  /\ edition = "19" /\ Goes(o, "none", "saved")
  /\ relayed' = relayed \cup {o}
  /\ UNCHANGED <<edition, rows, outbox, answers, failed>>

Save(o) ==
  /\ edition = "19" /\ Goes(o, "none", "saved")
  /\ rows' = [rows EXCEPT ![o] = "placed"]
  /\ UNCHANGED <<edition, outbox, relayed, answers, failed>>

Publish(o) ==
  /\ edition = "19" /\ Goes(o, "saved", "201")
  /\ relayed' = relayed \cup {o}
  /\ UNCHANGED <<edition, rows, outbox, answers, failed>>

(* The insert raises, or the process ends between the two.                   *)
PlaceFails(o) ==
  /\ edition = "19" /\ pc[o] \in {"none", "saved"}
  /\ pc' = [pc EXCEPT ![o] = "500"]
  /\ failed < MaxFailures /\ failed' = failed + 1
  /\ UNCHANGED <<edition, rows, outbox, relayed, answers>>

-----------------------------------------------------------------------------
(* 28: one statement per request.                                            *)

CreateOrder(o) ==
  /\ edition = "28" /\ Goes(o, "none", "201")
  /\ rows' = [rows EXCEPT ![o] = "placed"]
  /\ UNCHANGED <<edition, outbox, relayed, answers, failed>>

(* Mutant: the update does not look at the status.                           *)
CancelOrder_AnyStatus(c, o) ==
  /\ edition = "28" /\ answers[c] = <<>>
  /\ answers' = [answers EXCEPT ![c] = <<o, IF rows[o] # "none" THEN 204 ELSE 404>>]
  /\ rows' = [rows EXCEPT ![o] = IF @ = "none" THEN @ ELSE "cancelled"]
  /\ UNCHANGED <<edition, pc, outbox, relayed, failed>>

CancelOrder(c, o) ==
  /\ edition = "28" /\ answers[c] = <<>>
  /\ answers' = [answers EXCEPT ![c] = <<o, IF rows[o] = "placed" THEN 204 ELSE 404>>]
  /\ rows' = [rows EXCEPT ![o] = IF @ = "placed" THEN "cancelled" ELSE @]
  /\ UNCHANGED <<edition, pc, outbox, relayed, failed>>

Next ==
  \/ \E o \in Orders : \/ InsertOrder(o) \/ InsertOutbox(o) \/ CommitBoth(o) \/ Rollback(o) \/ Relay(o)
                       \/ Save(o) \/ Publish(o) \/ PlaceFails(o) \/ CreateOrder(o)
  \/ \E c \in Cancels, o \in Orders : CancelOrder(c, o)

Spec == Init /\ [][Next]_vars
(* Debezium keeps reading; a request that was begun goes on.                 *)
FairSpec == Spec /\ \A o \in Orders : WF_vars(Relay(o)) /\ WF_vars(CommitBoth(o))

-----------------------------------------------------------------------------
(* In 04 an order and its outbox row are there together or not at all; in    *)
(* all editions an event speaks of a stored order, and an order answered 201 *)
(* is stored - in 19 with its event.                                         *)
EventIffOrder ==
  /\ edition = "04" => outbox = Committed
  /\ relayed \subseteq Committed
  /\ \A o \in Orders : pc[o] = "201" => o \in Committed /\ (edition = "19" => o \in relayed)

(* Of the clients that cancel an order at most one is told it succeeded, and *)
(* one is exactly when the order is cancelled.                               *)
CancelledOnce ==
  \A o \in Orders :
    LET told == {c \in Cancels : answers[c] = <<o, 204>>} IN
    Cardinality(told) = IF rows[o] = "cancelled" THEN 1 ELSE 0

(* No stored order of 04 stays without its event.                            *)
OutboxDelivered == \A o \in Orders : (edition = "04" /\ rows[o] # "none") ~> (o \in relayed)
=============================================================================
