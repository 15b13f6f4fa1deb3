------------------------------- MODULE Gateway -------------------------------
(* Example 03: a GraphQL gateway that composes orders, from a REST service,  *)
(* with their stock, from a gRPC service.  The resolvers of one query ask a  *)
(* loader, which collects their keys and fetches them in one call; each      *)
(* query has its own loader.  The tables do not change.                      *)
EXTENDS Naturals, Sequences, SequencesExt

CONSTANTS
  Queries,
  Stock,      \* the inventory's STOCK: a function from skus to numbers
  Skus,       \* the skus that orders name, some of them not in Stock
  MaxOrders   \* bound: rows of the orders table

VARIABLES
  orders,   \* the skus of the orders table, by id
  query,    \* [query]: [pc, orders, next, stock]: its rows, the resolvers started, what they returned
  loader,   \* [query]: the keys collected, each once
  calls     \* [query]: calls to the inventory

vars == <<orders, query, loader, calls>>

Init ==
  /\ orders \in UNION {[1..n -> Skus] : n \in 0..MaxOrders}
  /\ query = [q \in Queries |-> [pc |-> "none", orders |-> <<>>, next |-> 1, stock |-> <<>>]]
  /\ loader = [q \in Queries |-> <<>>]
  /\ calls = [q \in Queries |-> 0]

(* Query.orders over GET /orders?limit=, and Query.order over GET /orders/{id}. *)
FetchOrders(q, limit) ==
  /\ query[q].pc = "none"
  /\ query' = [query EXCEPT ![q].pc = "resolving",
                            ![q].orders = SubSeq(orders, 1, IF limit < Len(orders) THEN limit ELSE Len(orders))]
  /\ UNCHANGED <<orders, loader, calls>>
FetchOrder(q, id) ==
  /\ query[q].pc = "none"
  /\ query' = [query EXCEPT ![q].pc = IF id \in DOMAIN orders THEN "resolving" ELSE "done",
                            ![q].orders = IF id \in DOMAIN orders THEN <<orders[id]>> ELSE <<>>]
  /\ UNCHANGED <<orders, loader, calls>>

(* OrderType.stock: load() collects the key, or finds it collected.          *)
LoadStock(q) ==
  /\ query[q].pc = "resolving" /\ query[q].next <= Len(query[q].orders)
  /\ LET sku == query[q].orders[query[q].next] IN
       loader' = [loader EXCEPT ![q] = IF sku \in ToSet(@) THEN @ ELSE Append(@, sku)]
  /\ query' = [query EXCEPT ![q].next = @ + 1]
  /\ UNCHANGED <<orders, calls>>

(* GetStockBatch: one item per sku, 0 for one it does not know.              *)
GetStockBatch(skus) ==
  [k \in DOMAIN skus |-> [sku |-> skus[k], available |-> IF skus[k] \in DOMAIN Stock THEN Stock[skus[k]] ELSE 0]]

(* Mutant: the items are taken in the order in which they come.              *)
BatchLoadStock_ByPosition(q, items) == [sku \in ToSet(loader[q]) |-> items[CHOOSE k \in DOMAIN items : loader[q][k] = sku].available]

(* batch_load_stock: the reply, in whatever order, by sku.                   *)
BatchLoadStock(q, items) ==
  [sku \in ToSet(loader[q]) |-> (CHOOSE item \in ToSet(items) : item.sku = sku).available]

Dispatch(q) ==
  /\ query[q].pc = "resolving" /\ query[q].next > Len(query[q].orders)
  /\ calls' = [calls EXCEPT ![q] = IF loader[q] = <<>> THEN @ ELSE @ + 1]
  /\ \E items \in SetToSeqs(ToSet(GetStockBatch(loader[q]))) :
       query' = [query EXCEPT ![q].pc = "done",
         ![q].stock = [k \in DOMAIN query[q].orders |-> BatchLoadStock(q, items)[query[q].orders[k]]]]
  /\ UNCHANGED <<orders, loader>>

Next ==
  \E q \in Queries : \/ \E limit \in 0..MaxOrders + 1 : FetchOrders(q, limit)
                     \/ \E id \in 1..MaxOrders + 1 : FetchOrder(q, id)
                     \/ LoadStock(q) \/ Dispatch(q)

Spec == Init /\ [][Next]_vars

-----------------------------------------------------------------------------
(* Each order shows the stock of its own sku, however the batch is ordered   *)
(* and whichever queries run beside it, and a query calls the inventory at   *)
(* most once.                                                                *)
ComposedRight ==
  \A q \in Queries :
    /\ calls[q] <= 1
    /\ query[q].pc = "done" => \A k \in DOMAIN query[q].orders :
         LET sku == query[q].orders[k] IN
         query[q].stock[k] = IF sku \in DOMAIN Stock THEN Stock[sku] ELSE 0
=============================================================================
