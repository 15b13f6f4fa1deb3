------------------------------ MODULE Strangler ------------------------------
(* Example 24, the strangler router: it sends the orders of a tenant to the  *)
(* monolith or to the new service, by a table that PUT /rules replaces while *)
(* requests are under way.  Each service counts its own order ids.           *)
EXTENDS Naturals, Sequences

CONSTANTS
  Tenants, Acme,  \* Acme \in Tenants: the tenant of the initial table
  Requests,       \* bound: the requests that place or read an order
  MaxRules        \* bound: PUT /rules and restarts of the router

Services == {"monolith", "new-service"}

VARIABLES
  routes,    \* [tenant_routes: [tenant]: a service or "none", default]
  orders,    \* [service]: the tenants of its orders, the id is the position
  request,   \* [request]: [pc, tenant, upstream, id, found]
  moved,     \* tenants whose requests have been sent to more than one service
  changes

vars == <<routes, orders, request, moved, changes>>

Initial == [tenant_routes |-> [t \in Tenants |-> IF t = Acme THEN "new-service" ELSE "none"],
            default |-> "monolith"]

Init ==
  /\ routes = Initial
  /\ orders = [s \in Services |-> <<>>]
  /\ request = [r \in Requests |-> [pc |-> "none"]]
  /\ moved = {} /\ changes = 0

ResolveUpstream(tenant) ==
  IF routes.tenant_routes[tenant] = "none" THEN routes.default ELSE routes.tenant_routes[tenant]

Used(tenant) == {request[r].upstream : r \in {q \in Requests : request[q].pc # "none" /\ request[q].tenant = tenant}}

Send(r, tenant, step, id, upstream) ==
  /\ request[r].pc = "none"
  /\ request' = [request EXCEPT ![r] =
       [pc |-> step, tenant |-> tenant, upstream |-> upstream, id |-> id, found |-> ""]]
  /\ moved' = IF Used(tenant) \subseteq {ResolveUpstream(tenant)} THEN moved ELSE moved \cup {tenant}
  /\ UNCHANGED <<routes, orders, changes>>

(* POST /orders and GET /orders/{id}: the upstream is chosen before the      *)
(* await.  A client reads an order it placed.                                *)
RoutePost(r, tenant) == Send(r, tenant, "post", 0, ResolveUpstream(tenant))

(* Mutant: the tenant of a GET is not looked up.                             *)
RouteGet_Default(r, tenant) ==
  \E q \in Requests : /\ request[q].pc = "placed" /\ request[q].tenant = tenant
                      /\ Send(r, tenant, "get", request[q].id, routes.default)

RouteGet(r, tenant) ==
  \E q \in Requests : /\ request[q].pc = "placed" /\ request[q].tenant = tenant
                      /\ Send(r, tenant, "get", request[q].id, ResolveUpstream(tenant))

(* The service: create_order and get_order.                                  *)
CreateOrder(r) ==
  LET s == request[r].upstream IN
  /\ request[r].pc = "post"
  /\ orders' = [orders EXCEPT ![s] = Append(@, request[r].tenant)]
  /\ request' = [request EXCEPT ![r].pc = "placed", ![r].id = Len(orders[s]) + 1]
  /\ UNCHANGED <<routes, moved, changes>>

GetOrder(r) ==
  LET q == request[r] IN
  /\ q.pc = "get"
  /\ request' = [request EXCEPT ![r].pc = "read",
       ![r].found = IF q.id \in 1..Len(orders[q.upstream]) THEN orders[q.upstream][q.id] ELSE "stub"]
  /\ UNCHANGED <<routes, orders, moved, changes>>

(* routes.update(new_rules): each key that is given is replaced as a whole.  *)
UpdateRules ==
  /\ changes < MaxRules /\ changes' = changes + 1
  /\ \E rules \in [Tenants -> Services \cup {"none"}], default \in Services :
       \/ routes' = [tenant_routes |-> rules, default |-> default]
       \/ routes' = [routes EXCEPT !.tenant_routes = rules]
       \/ routes' = [routes EXCEPT !.default = default]
  /\ UNCHANGED <<orders, request, moved>>

(* The table is in memory: a restart of the router brings the first one back. *)
Restart ==
  /\ changes < MaxRules /\ changes' = changes + 1
  /\ routes' = Initial
  /\ UNCHANGED <<orders, request, moved>>

Next ==
  \/ \E r \in Requests, t \in Tenants : RoutePost(r, t) \/ RouteGet(r, t)
  \/ \E r \in Requests : CreateOrder(r) \/ GetOrder(r)
  \/ UpdateRules \/ Restart

Spec == Init /\ [][Next]_vars

-----------------------------------------------------------------------------
(* A tenant that was never moved reads, under the id it was given, its own   *)
(* order, whatever happens to the rules of others.  (One that was moved may  *)
(* read nothing or the order of another: ids are unique per service only.)   *)
OwnOrderIsRead ==
  \A r \in Requests :
    request[r].pc = "read" /\ request[r].tenant \notin moved => request[r].found = request[r].tenant
=============================================================================
