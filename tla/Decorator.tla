------------------------------ MODULE Decorator ------------------------------
(* Example 24, the decorator in front of a legacy order service: it caches   *)
(* the answers of GET /orders/{id} in Redis and publishes an event for each  *)
(* POST /orders, without touching the legacy service.                        *)
EXTENDS Naturals, FiniteSets, Sequences, SequencesExt

CONSTANTS
  Requests,
  MaxOrders,      \* bound: the ids that requests read
  MaxFailures     \* bound: Redis and Kafka errors

Ids == 1..MaxOrders

VARIABLES
  counter,           \* orders of the legacy service: ids 1..counter
  cache,             \* [id]: "none", "stub" (no such order) or "order"
  request,           \* [request]: [pc, id, data]
  published_events,  \* the order ids of the events, 0 for none
  topic,             \* those that reached Kafka
  failures

vars == <<counter, cache, request, published_events, topic, failures>>
events == <<published_events, topic>>

Init ==
  /\ counter = 0
  /\ cache = [i \in Ids |-> "none"]
  /\ request = [r \in Requests |-> [pc |-> "none", id |-> 0, data |-> "none"]]
  /\ published_events = <<>> /\ topic = <<>> /\ failures = 0

Fails == failures < MaxFailures /\ failures' = failures + 1
Goes(r, from, to) == request[r].pc = from /\ request' = [request EXCEPT ![r].pc = to]

-----------------------------------------------------------------------------
(* GET /orders/{id}.                                                         *)

GetOrder(r, i) ==
  /\ request[r].pc = "none"
  /\ \/ /\ cache[i] # "none"
        /\ request' = [request EXCEPT ![r] = [pc |-> "done", id |-> i, data |-> cache[i]]]
        /\ UNCHANGED failures
     \/ /\ cache[i] = "none" \/ failures < MaxFailures     \* an error of Redis is a miss
        /\ failures' = IF cache[i] = "none" THEN failures ELSE failures + 1
        /\ request' = [request EXCEPT ![r] = [pc |-> "miss", id |-> i, data |-> "none"]]
  /\ UNCHANGED <<counter, cache, events>>

(* The legacy service answers for an id it does not have, too.               *)
AskLegacy(r) ==
  /\ request[r].pc = "miss"
  /\ request' = [request EXCEPT ![r].pc = "fill",
                                ![r].data = IF request[r].id <= counter THEN "order" ELSE "stub"]
  /\ UNCHANGED <<counter, cache, events, failures>>

(* Mutant: SET without a TTL: what a GET left stays.                         *)
Expire_OrdersOnly(i) ==
  /\ cache[i] = "order"
  /\ cache' = [cache EXCEPT ![i] = "none"]
  /\ UNCHANGED <<counter, request, events, failures>>

Fill(r) ==
  /\ Goes(r, "fill", "done")
  /\ \/ cache' = [cache EXCEPT ![request[r].id] = request[r].data] /\ UNCHANGED failures
     \/ Fails /\ UNCHANGED cache
  /\ UNCHANGED <<counter, events>>

(* CACHE_TTL.                                                                *)
Expire(i) ==
  /\ cache[i] # "none"
  /\ cache' = [cache EXCEPT ![i] = "none"]
  /\ UNCHANGED <<counter, request, events, failures>>

-----------------------------------------------------------------------------
(* POST /orders.                                                             *)

(* A body that the legacy service refuses comes back as an answer without an *)
(* id; its status is not looked at.                                          *)
CreateOrder(r, valid) ==
  /\ request[r].pc = "none"
  /\ counter' = IF valid THEN counter + 1 ELSE counter
  /\ request' = [request EXCEPT ![r] = [pc |-> "publish", id |-> IF valid THEN counter + 1 ELSE 0,
                                        data |-> IF valid THEN "order" ELSE "none"]]
  /\ UNCHANGED <<cache, events, failures>>

(* The call fails for the decorator after the legacy service has served it.  *)
LegacyFails(r, valid) ==
  /\ request[r].pc = "none" /\ Fails
  /\ counter' = IF valid THEN counter + 1 ELSE counter
  /\ request' = [request EXCEPT ![r].pc = "done"]
  /\ UNCHANGED <<cache, events>>

(* Mutant: the event is sent, but not kept in the list.                      *)
Publish_SendOnly(r) ==
  /\ Goes(r, "publish", "sending")
  /\ UNCHANGED <<counter, cache, events, failures>>

Publish(r) ==
  /\ Goes(r, "publish", "sending")
  /\ published_events' = Append(published_events, request[r].id)
  /\ UNCHANGED <<counter, cache, topic, failures>>

(* send_and_wait; an exception is logged and the client answered all the same. *)
SendAndWait(r) ==
  /\ Goes(r, "sending", "done")
  /\ \/ topic' = Append(topic, request[r].id) /\ UNCHANGED failures
     \/ Fails /\ UNCHANGED topic
  /\ UNCHANGED <<counter, cache, published_events>>

Next ==
  \/ \E r \in Requests : \/ \E i \in Ids : GetOrder(r, i)
                         \/ AskLegacy(r) \/ Fill(r)
                         \/ \E valid \in BOOLEAN : CreateOrder(r, valid) \/ LegacyFails(r, valid)
                         \/ Publish(r) \/ SendAndWait(r)
  \/ \E i \in Ids : Expire(i)

Spec == Init /\ [][Next]_vars

(* Redis drops entries in time, and a request that was begun goes on.        *)
Fairness ==
  /\ \A i \in Ids : WF_vars(Expire(i))
  /\ \A r \in Requests : WF_vars(AskLegacy(r)) /\ WF_vars(Fill(r))
FairSpec == Spec /\ Fairness

-----------------------------------------------------------------------------
Count(i) == Cardinality({k \in DOMAIN published_events : published_events[k] = i})
Publishing == {r \in Requests : request[r].pc = "publish"}
Sending == {r \in Requests : request[r].pc = "sending"}

(* No order has two events, none has an event without being in the legacy    *)
(* service, and an order that has none, or whose event is not in the topic,  *)
(* is one whose request is open or was hit by a failure.                     *)
EventPerOrder ==
  /\ \A i \in 1..counter : Count(i) <= 1
  /\ ToSet(published_events) \subseteq 0..counter
  /\ counter - Cardinality({i \in 1..counter : Count(i) = 1}) <= Cardinality(Publishing) + failures
  /\ Len(published_events) - Len(topic) <= Cardinality(Sending) + failures

(* A GET that came too early leaves "no such order" in the cache, and POST   *)
(* does not invalidate it: the entry hides the order only until its TTL.     *)
StubExpires == \A i \in Ids : (counter >= i) ~> [](cache[i] # "stub")
=============================================================================
