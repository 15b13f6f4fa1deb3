----------------------------- MODULE TenantOrders -----------------------------
(* The order service of example 12: a caller without the identity that the   *)
(* sidecar vouches for is refused, and each tenant has a bulkhead of its own. *)
EXTENDS Naturals, Sequences, FiniteSets

CONSTANTS
  Tenants, Callers, NoIdentity,
  Requests,
  BulkheadLimit,  \* BULKHEAD_LIMIT
  NumOrders       \* bound: orders placed in a behaviour

VARIABLES
  in_flight,  \* [tenant]: _in_flight
  orders,     \* the orders by id: [tenant, identity]
  request     \* [request]: [pc, tenant, identity, id]

vars == <<in_flight, orders, request>>

Init ==
  /\ in_flight = [t \in Tenants |-> 0]
  /\ orders = <<>>
  /\ request = [r \in Requests |-> [pc |-> "idle", tenant |-> "none", identity |-> NoIdentity, id |-> 0]]

Holding(t) == {r \in Requests : request[r].pc = "processing" /\ request[r].tenant = t}
Begin(r, pc, tenant, identity) ==
  request' = [request EXCEPT ![r] = [pc |-> pc, tenant |-> tenant, identity |-> identity, id |-> 0]]

(* Mutant: one semaphore for all.                                            *)
CreateOrder_OneForAll(r, tenant, identity) ==
  /\ identity # NoIdentity
  /\ IF Cardinality(UNION {Holding(t) : t \in Tenants}) = BulkheadLimit
       THEN Begin(r, "429", tenant, identity) /\ UNCHANGED in_flight
       ELSE Begin(r, "processing", tenant, identity) /\ in_flight' = [in_flight EXCEPT ![tenant] = @ + 1]

(* Testing the tenant's semaphore and taking it are not separated by an      *)
(* await.                                                                    *)
CreateOrder(r, tenant, identity) ==
  /\ identity # NoIdentity
  /\ IF Cardinality(Holding(tenant)) = BulkheadLimit
       THEN Begin(r, "429", tenant, identity) /\ UNCHANGED in_flight
       ELSE Begin(r, "processing", tenant, identity) /\ in_flight' = [in_flight EXCEPT ![tenant] = @ + 1]

(* trust_sidecar, in front of every path but the open ones.                  *)
TrustSidecar(r, tenant, identity) ==
  /\ request[r].pc = "idle" /\ Len(orders) < NumOrders
  /\ IF identity = NoIdentity
       THEN Begin(r, "403", tenant, identity) /\ UNCHANGED in_flight
       ELSE CreateOrder(r, tenant, identity)
  /\ UNCHANGED orders

(* After the sleep: the id and the order, then the finally clause.           *)
Store(r) ==
  LET q == request[r] IN
  /\ q.pc = "processing"
  /\ orders' = Append(orders, [tenant |-> q.tenant, identity |-> q.identity])
  /\ request' = [request EXCEPT ![r].pc = "201", ![r].id = Len(orders) + 1]
  /\ in_flight' = [in_flight EXCEPT ![q.tenant] = @ - 1]

(* Mutant: the counter is not in a finally clause.                           *)
Cancelled_KeepsCount(r) ==
  /\ request[r].pc = "processing"
  /\ request' = [request EXCEPT ![r].pc = "lost"]
  /\ UNCHANGED <<in_flight, orders>>

(* The client goes away: the sleep is cancelled.                             *)
Cancelled(r) ==
  /\ request[r].pc = "processing"
  /\ request' = [request EXCEPT ![r].pc = "lost"]
  /\ in_flight' = [in_flight EXCEPT ![request[r].tenant] = @ - 1]
  /\ UNCHANGED orders

Leave(r) ==
  /\ request[r].pc \in {"201", "403", "429", "lost"}
  /\ request' = [request EXCEPT ![r].pc = "idle"]
  /\ UNCHANGED <<in_flight, orders>>

Next ==
  \/ \E r \in Requests : \/ \E t \in Tenants, c \in Callers \cup {NoIdentity} : TrustSidecar(r, t, c)
                         \/ Store(r) \/ Cancelled(r) \/ Leave(r)

Spec == Init /\ [][Next]_vars

-----------------------------------------------------------------------------
(* No tenant uses more than its permits, and the counter that the state      *)
(* endpoint shows is what it uses, whatever is cancelled.  An order bears    *)
(* the identity that was vouched for with its own request.                   *)
PermitsExact ==
  /\ \A t \in Tenants : in_flight[t] = Cardinality(Holding(t)) /\ in_flight[t] <= BulkheadLimit
  /\ \A r \in Requests : request[r].pc = "201" =>
       orders[request[r].id] = [tenant |-> request[r].tenant, identity |-> request[r].identity]

(* A tenant that is refused was refused by its own requests: whoever else    *)
(* fills his bulkhead, a tenant with a free permit gets it.                  *)
RefusedByOwnRequests ==
  [][\A r \in Requests : request[r].pc = "idle" /\ request'[r].pc = "429"
       => Cardinality(Holding(request'[r].tenant)) = BulkheadLimit]_vars
=============================================================================
