---------------------------- MODULE EventsProofs ----------------------------
(* Events and orders agree, for any number of orders, requests, merchants    *)
(* and failures: the order services of 04, 19 and 28, the decorator of 24    *)
(* and the stream processor of 06, each with its inductive invariant.        *)
EXTENDS MCServicesLive, FiniteSetTheorems, TLAPS

-----------------------------------------------------------------------------
(* Every step is a step of a service or leaves its variables as they are.    *)
LEMMA Behaviours ==
  /\ Init => DC!Init /\ RS!Init /\ OC!Init
  /\ [Next]_vars => [DC!Next]_decorator /\ [RS!Next]_revenues /\ [OC!Next]_storing
BY DEF Init, Next, vars

(* An instance has operators of the standard modules of its own; they are    *)
(* the same.                                                                 *)
LEMMA SameCardinality ==
  \A S : /\ DC!Cardinality(S) = Cardinality(S)
         /\ RS!Cardinality(S) = Cardinality(S)
         /\ OC!Cardinality(S) = Cardinality(S)
BY DEF DC!Cardinality, RS!Cardinality, OC!Cardinality, Cardinality

-----------------------------------------------------------------------------
(* Examples 04, 19, 28: orders, their events and their cancellations.        *)
(* A request that has stored nothing yet has no row; the rows of 04 come     *)
(* with their outbox row; only 28 cancels, and an answer 204 is the one of   *)
(* the statement that has taken the row from "placed" to "cancelled".        *)
StoringShape ==
  /\ pc \in [Orders -> {"none", "inserted", "both", "saved", "201", "500"}]
  /\ rows \in [Orders -> {"none", "placed", "cancelled"}]
  /\ answers \in [Cancels -> {<<>>} \cup (Orders \X {204, 404})]

Told(o) == {c \in Cancels : answers[c] = <<o, 204>>}

StoringRows ==
  /\ \A o \in Orders : pc[o] \in {"none", "inserted", "both"} => rows[o] = "none"
  /\ \A o \in Orders : pc[o] \in {"saved", "201"} => rows[o] # "none"
  /\ edition # "28" => \A o \in Orders : rows[o] # "cancelled"

StoringEvents ==
  /\ edition = "04" => outbox = OC!Committed
  /\ relayed \subseteq OC!Committed
  /\ edition = "19" => \A o \in Orders : pc[o] = "201" => o \in relayed

StoringCancels ==
  \A o \in Orders : /\ rows[o] # "cancelled" => Told(o) = {}
                    /\ rows[o] = "cancelled" => \E c \in Cancels : Told(o) = {c}

StoringInv == StoringShape /\ StoringRows /\ StoringEvents /\ StoringCancels

LEMMA StoringInitially == OC!Init => StoringInv
<1> SUFFICES ASSUME OC!Init PROVE StoringInv
  OBVIOUS
<1>1. StoringShape /\ StoringRows
  BY DEF OC!Init, StoringShape, StoringRows
<1>2. StoringEvents
  BY DEF OC!Init, StoringEvents, OC!Committed
<1>3. StoringCancels
  BY DEF OC!Init, StoringCancels, Told
<1> QED BY <1>1, <1>2, <1>3 DEF StoringInv

(* The steps of a request change the row of its order at most from none to   *)
(* placed, and leave the answers to cancellations alone.                     *)
LEMMA StoringRequestStep ==
  ASSUME StoringInv, NEW o \in Orders,
         \/ OC!InsertOrder(o) \/ OC!InsertOutbox(o) \/ OC!CommitBoth(o) \/ OC!Rollback(o) \/ OC!Relay(o)
         \/ OC!Save(o) \/ OC!Publish(o) \/ OC!PlaceFails(o) \/ OC!CreateOrder(o)
  PROVE  StoringInv'
<1> USE DEF StoringInv, StoringShape, StoringRows, StoringEvents, StoringCancels, OC!Goes, OC!Committed, Told
<1>1. CASE OC!InsertOrder(o)
  BY <1>1 DEF OC!InsertOrder
<1>2. CASE OC!InsertOutbox(o)
  BY <1>2 DEF OC!InsertOutbox
<1>3. CASE OC!CommitBoth(o)
  BY <1>3 DEF OC!CommitBoth
<1>4. CASE OC!Rollback(o)
  BY <1>4 DEF OC!Rollback
<1>5. CASE OC!Relay(o)
  BY <1>5 DEF OC!Relay
<1>6. CASE OC!Save(o)
  BY <1>6 DEF OC!Save
<1>7. CASE OC!Publish(o)
  BY <1>7 DEF OC!Publish
<1>8. CASE OC!PlaceFails(o)
  BY <1>8 DEF OC!PlaceFails
<1>9. CASE OC!CreateOrder(o)
  <2>1. StoringShape' /\ StoringRows'
    BY <1>9 DEF OC!CreateOrder
  <2>2. OC!Committed' = OC!Committed \cup {o} /\ edition = "28"
    BY <1>9 DEF OC!CreateOrder
  <2>3. StoringEvents'
    BY <1>9, <2>2 DEF OC!CreateOrder
  <2>4. ASSUME NEW q \in Orders
        PROVE  /\ (rows[q] # "cancelled" => Told(q) = {})'
               /\ (rows[q] = "cancelled" => \E c \in Cancels : Told(q) = {c})'
    <3>1. rows[o] = "none" /\ rows'[q] = IF q = o THEN "placed" ELSE rows[q]
      BY <1>9 DEF OC!CreateOrder
    <3>2. Told(q)' = Told(q)
      BY <1>9 DEF OC!CreateOrder
    <3> QED BY ONLY <3>1, <3>2, StoringCancels, q \in Orders, o \in Orders DEF StoringCancels
  <2> QED BY <2>1, <2>3, <2>4
<1> QED BY <1>1, <1>2, <1>3, <1>4, <1>5, <1>6, <1>7, <1>8, <1>9

LEMMA StoringCancelStep ==
  ASSUME StoringInv, NEW c \in Cancels, NEW o \in Orders, OC!CancelOrder(c, o)
  PROVE  StoringInv'
<1> USE DEF StoringInv, StoringShape
<1>1. /\ answers' \in [Cancels -> {<<>>} \cup (Orders \X {204, 404})]
      /\ rows' \in [Orders -> {"none", "placed", "cancelled"}]
      /\ UNCHANGED <<edition, pc, outbox, relayed>>
  BY DEF OC!CancelOrder
<1>2. \A q \in Orders : rows'[q] = IF q = o /\ rows[o] = "placed" THEN "cancelled" ELSE rows[q]
  BY DEF OC!CancelOrder
<1>3. \A d \in Cancels : answers'[d] = IF d = c THEN <<o, IF rows[o] = "placed" THEN 204 ELSE 404>> ELSE answers[d]
  BY DEF OC!CancelOrder
<1>4. edition = "28" /\ answers[c] = <<>>
  BY DEF OC!CancelOrder
<1>5. OC!Committed' = OC!Committed
  BY <1>2 DEF OC!Committed
<1>6. StoringRows' /\ StoringEvents'
  BY <1>1, <1>2, <1>4, <1>5 DEF StoringRows, StoringEvents
<1>7. ASSUME NEW q \in Orders
      PROVE  /\ (rows[q] # "cancelled" => Told(q) = {})'
             /\ (rows[q] = "cancelled" => \E d \in Cancels : Told(q) = {d})'
  <2>1. CASE q = o /\ rows[o] = "placed"
    <3>1. Told(q) = {}
      BY <2>1 DEF StoringCancels
    <3>2. Told(q)' = {c}
      BY <2>1, <3>1, <1>1, <1>3 DEF Told
    <3> QED BY <3>2, <2>1, <1>2
  <2>2. CASE ~(q = o /\ rows[o] = "placed")
    <3>1. Told(q)' = Told(q)
      BY <2>2, <1>1, <1>3, <1>4 DEF Told
    <3> QED BY <3>1, <2>2, <1>2 DEF StoringCancels
  <2> QED BY <2>1, <2>2
<1>8. StoringCancels'
  BY <1>7 DEF StoringCancels
<1> QED BY <1>1, <1>6, <1>8

LEMMA StoringSteps == StoringInv /\ [OC!Next]_storing => StoringInv'
<1> SUFFICES ASSUME StoringInv, [OC!Next]_storing PROVE StoringInv'
  OBVIOUS
<1>1. CASE UNCHANGED storing
  <2>1. OC!Committed' = OC!Committed /\ \A o : Told(o)' = Told(o)
    BY <1>1 DEF storing, OC!Committed, Told
  <2> QED BY <1>1, <2>1 DEF storing, StoringInv, StoringShape, StoringRows, StoringEvents, StoringCancels
<1>2. CASE OC!Next
  BY <1>2, StoringRequestStep, StoringCancelStep DEF OC!Next
<1> QED BY <1>1, <1>2

THEOREM StoringInvariance == Spec => []StoringInv
<1>1. Init => StoringInv
  BY Behaviours, StoringInitially
<1>2. StoringInv /\ [Next]_vars => StoringInv'
  BY Behaviours, StoringSteps
<1> QED BY <1>1, <1>2, PTL DEF Spec

LEMMA StoringAgrees == StoringInv => OC!EventIffOrder /\ OC!CancelledOnce
<1> SUFFICES ASSUME StoringInv PROVE OC!EventIffOrder /\ OC!CancelledOnce
  OBVIOUS
<1>1. OC!EventIffOrder
  BY DEF StoringInv, StoringShape, StoringRows, StoringEvents, OC!EventIffOrder, OC!Committed
<1>2. \A o \in Orders : Cardinality(Told(o)) = IF rows[o] = "cancelled" THEN 1 ELSE 0
  BY FS_EmptySet, FS_Singleton DEF StoringInv, StoringCancels
<1>3. OC!CancelledOnce
  BY <1>2, SameCardinality DEF OC!CancelledOnce, Told
<1> QED BY <1>1, <1>3

-----------------------------------------------------------------------------
(* Example 24, decorator: an event for each order.                           *)
(* The number of an order is in its request, then in the list of events, and *)
(* in neither only by a failure; both sides of each bound are counted.       *)
Handlers == [pc : {"none", "miss", "fill", "publish", "sending", "done"}, id : Nat,
             data : {"none", "stub", "order"}]

DecoratorShape ==
  /\ counter \in Nat /\ failures \in Nat
  /\ published_events \in Seq(0..counter) /\ decoratorTopic \in Seq(Nat)
  /\ decoratorCache \in [DC!Ids -> {"none", "stub", "order"}]
  /\ decoratorRequest \in [Requests -> Handlers]

Evented == {i \in 1..counter : \E k \in DOMAIN published_events : published_events[k] = i}
Announcing == {r \in Requests : decoratorRequest[r].pc = "publish" /\ decoratorRequest[r].id # 0}

DecoratorOnce ==
  /\ \A j, k \in DOMAIN published_events :
       published_events[j] = published_events[k] /\ published_events[j] # 0 => j = k
  /\ \A r \in Requests : decoratorRequest[r].pc = "publish" => decoratorRequest[r].id \in 0..counter
  /\ \A r \in Announcing : decoratorRequest[r].id \notin Evented
  /\ \A q, r \in Announcing : decoratorRequest[q].id = decoratorRequest[r].id => q = r

DecoratorCounts ==
  /\ counter <= Cardinality(Evented) + Cardinality(Announcing) + failures
  /\ Len(published_events) <= Len(decoratorTopic) + Cardinality(DC!Sending) + failures

DecoratorInv == DecoratorShape /\ DecoratorOnce /\ DecoratorCounts

LEMMA DecoratorFinite ==
  DecoratorShape => /\ \A S \in SUBSET Requests : IsFiniteSet(S) /\ Cardinality(S) \in Nat
                    /\ IsFiniteSet(Evented) /\ Cardinality(Evented) \in Nat
                    /\ Len(published_events) \in Nat /\ Len(decoratorTopic) \in Nat
<1> SUFFICES ASSUME DecoratorShape
             PROVE  /\ \A S \in SUBSET Requests : IsFiniteSet(S) /\ Cardinality(S) \in Nat
                    /\ IsFiniteSet(Evented) /\ Cardinality(Evented) \in Nat
                    /\ Len(published_events) \in Nat /\ Len(decoratorTopic) \in Nat
  OBVIOUS
<1>1. \A S \in SUBSET Requests : IsFiniteSet(S) /\ Cardinality(S) \in Nat
  BY DecoratorAssumption, FS_Subset, FS_CardinalityType
<1>2. IsFiniteSet(1..counter)
  BY FS_Interval DEF DecoratorShape
<1>3. IsFiniteSet(Evented) /\ Cardinality(Evented) \in Nat
  BY <1>2, FS_Subset, FS_CardinalityType DEF Evented
<1>4. Len(published_events) \in Nat /\ Len(decoratorTopic) \in Nat
  BY DEF DecoratorShape
<1> QED BY <1>1, <1>3, <1>4

LEMMA DecoratorInitially == DC!Init => DecoratorInv
<1> SUFFICES ASSUME DC!Init PROVE DecoratorInv
  OBVIOUS
<1>1. DecoratorShape
  BY DEF DC!Init, DecoratorShape, Handlers
<1>2. Announcing = {} /\ DC!Sending = {} /\ Evented = {}
  BY DEF DC!Init, Announcing, DC!Sending, Evented
<1>3. DecoratorOnce
  BY <1>2 DEF DC!Init, DecoratorOnce
<1>4. DecoratorCounts
  BY <1>2, FS_EmptySet DEF DC!Init, DecoratorCounts
<1> QED BY <1>1, <1>3, <1>4 DEF DecoratorInv

(* GET /orders/{id} and expiry touch no event.                               *)
LEMMA DecoratorReads ==
  ASSUME DecoratorInv, UNCHANGED <<counter, published_events, decoratorTopic>>, failures' \in Nat, failures <= failures',
         decoratorRequest' \in [Requests -> Handlers],
         decoratorCache' \in [DC!Ids -> {"none", "stub", "order"}],
         \A r \in Requests : decoratorRequest'[r] # decoratorRequest[r] =>
           {decoratorRequest[r].pc, decoratorRequest'[r].pc} \subseteq {"none", "miss", "fill", "done"}
  PROVE  DecoratorInv'
<1>1. DecoratorShape'
  BY DEF DecoratorInv, DecoratorShape
<1>2. Announcing' = Announcing /\ DC!Sending' = DC!Sending /\ Evented' = Evented
  BY DEF DecoratorInv, DecoratorShape, Announcing, DC!Sending, Evented
<1>3. \A r \in Requests : decoratorRequest'[r].pc = "publish" => decoratorRequest'[r] = decoratorRequest[r]
  OBVIOUS
<1>4. DecoratorOnce'
  BY <1>2, <1>3 DEF DecoratorInv, DecoratorOnce, Announcing
<1>5. DecoratorCounts'
  <2>1. Announcing \in SUBSET Requests /\ DC!Sending \in SUBSET Requests
    BY DEF Announcing, DC!Sending
  <2>2. /\ Cardinality(Announcing) \in Nat /\ Cardinality(DC!Sending) \in Nat /\ Cardinality(Evented) \in Nat
        /\ Len(published_events) \in Nat /\ Len(decoratorTopic) \in Nat
    BY <2>1, DecoratorFinite DEF DecoratorInv
  <2> QED BY <1>2, <2>2 DEF DecoratorInv, DecoratorCounts, DecoratorShape
<1> QED BY <1>1, <1>4, <1>5 DEF DecoratorInv

LEMMA DecoratorReadStep ==
  ASSUME DecoratorInv,
         \/ \E r \in Requests : (\E i \in DC!Ids : DC!GetOrder(r, i)) \/ DC!AskLegacy(r) \/ DC!Fill(r)
         \/ \E i \in DC!Ids : DC!Expire(i)
         \/ UNCHANGED decorator
  PROVE  DecoratorInv'
<1>1. DecoratorShape
  BY DEF DecoratorInv
<1>2. \A i \in DC!Ids : i \in Nat
  BY DecoratorAssumption DEF DC!Ids
<1>3. \A r \in Requests : decoratorRequest[r] \in Handlers
  BY <1>1 DEF DecoratorShape
<1>4. ASSUME NEW r \in Requests, NEW h \in Handlers, decoratorRequest' = [decoratorRequest EXCEPT ![r] = h],
             {decoratorRequest[r].pc, h.pc} \subseteq {"none", "miss", "fill", "done"},
             UNCHANGED <<counter, published_events, decoratorTopic>>, failures' \in {failures, failures + 1},
             decoratorCache' \in [DC!Ids -> {"none", "stub", "order"}]
      PROVE  DecoratorInv'
  <2>1. \A q \in Requests : decoratorRequest'[q] = IF q = r THEN h ELSE decoratorRequest[q]
    BY <1>1, <1>4 DEF DecoratorShape
  <2>2. decoratorRequest' \in [Requests -> Handlers]
    BY <1>1, <1>4 DEF DecoratorShape
  <2>3. failures' \in Nat /\ failures <= failures'
    BY <1>1, <1>4 DEF DecoratorShape
  <2> QED BY <1>4, <2>1, <2>2, <2>3, DecoratorReads
<1>5. ASSUME NEW r \in Requests, NEW i \in DC!Ids, DC!GetOrder(r, i) PROVE DecoratorInv'
  <2>1. PICK h \in {[pc |-> "done", id |-> i, data |-> decoratorCache[i]], [pc |-> "miss", id |-> i, data |-> "none"]} :
          decoratorRequest' = [decoratorRequest EXCEPT ![r] = h]
    BY <1>5 DEF DC!GetOrder
  <2>2. h \in Handlers /\ h.pc \in {"done", "miss"}
    BY <1>1, <1>2 DEF Handlers, DecoratorShape
  <2> QED BY <1>1, <1>4, <1>5, <2>1, <2>2 DEF DC!GetOrder, DC!events, DecoratorShape
<1>6. ASSUME NEW r \in Requests, DC!AskLegacy(r) PROVE DecoratorInv'
  <2> DEFINE d == IF decoratorRequest[r].id <= counter THEN "order" ELSE "stub"
             h == [decoratorRequest[r] EXCEPT !.pc = "fill", !.data = d]
  <2>1. decoratorRequest' = [decoratorRequest EXCEPT ![r] = h]
    BY <1>3, <1>6 DEF DC!AskLegacy, Handlers
  <2>2. h \in Handlers /\ h.pc = "fill"
    BY <1>3 DEF Handlers
  <2> HIDE DEF h
  <2> QED BY <1>1, <1>4, <1>6, <2>1, <2>2 DEF DC!AskLegacy, DC!events, DecoratorShape
<1>7. ASSUME NEW r \in Requests, DC!Fill(r) PROVE DecoratorInv'
  <2> DEFINE h == [decoratorRequest[r] EXCEPT !.pc = "done"]
  <2>1. decoratorRequest' = [decoratorRequest EXCEPT ![r] = h]
    BY <1>3, <1>7 DEF DC!Fill, DC!Goes, Handlers
  <2>2. h \in Handlers /\ h.pc = "done" /\ decoratorRequest[r].data \in {"none", "stub", "order"}
    BY <1>3 DEF Handlers
  <2>3. decoratorCache' \in [DC!Ids -> {"none", "stub", "order"}]
    BY <1>1, <1>7, <2>2 DEF DC!Fill, DecoratorShape
  <2> HIDE DEF h
  <2> QED BY <1>1, <1>4, <1>7, <2>1, <2>2, <2>3 DEF DC!Fill, DC!events, DC!Goes, DC!Fails, DecoratorShape
<1>8. ASSUME NEW i \in DC!Ids, DC!Expire(i) PROVE DecoratorInv'
  BY <1>1, <1>8, DecoratorReads DEF DC!Expire, DC!events, DecoratorShape
<1>9. CASE UNCHANGED decorator
  BY <1>1, <1>9, DecoratorReads DEF decorator, DecoratorShape
<1> QED BY <1>5, <1>6, <1>7, <1>8, <1>9

(* An order gets its number; its request will announce it, or a failure was  *)
(* counted.                                                                  *)
LEMMA DecoratorCreateStep ==
  ASSUME DecoratorInv, NEW r \in Requests, NEW valid \in BOOLEAN, DC!CreateOrder(r, valid) \/ DC!LegacyFails(r, valid)
  PROVE  DecoratorInv'
<1> DEFINE n == IF valid THEN counter + 1 ELSE counter
           created == [pc |-> "publish", id |-> IF valid THEN counter + 1 ELSE 0,
                       data |-> IF valid THEN "order" ELSE "none"]
<1>1. /\ DecoratorShape /\ DecoratorOnce /\ DecoratorCounts
      /\ counter \in Nat /\ n \in Nat /\ counter <= n /\ counter' = n
      /\ UNCHANGED <<published_events, decoratorTopic, decoratorCache>>
  BY DEF DecoratorInv, DecoratorShape, DC!CreateOrder, DC!LegacyFails, DC!events
<1>2. decoratorRequest[r] \in Handlers /\ decoratorRequest[r].pc = "none"
  BY <1>1 DEF DecoratorShape, DC!CreateOrder, DC!LegacyFails
<1>3. PICK h \in Handlers :
        /\ decoratorRequest' = [decoratorRequest EXCEPT ![r] = h]
        /\ \/ DC!CreateOrder(r, valid) /\ h = created
           \/ DC!LegacyFails(r, valid) /\ h.pc = "done"
  <2>1. CASE DC!CreateOrder(r, valid)
    BY <1>1, <2>1 DEF DC!CreateOrder, Handlers
  <2>2. CASE DC!LegacyFails(r, valid)
    <3>1. decoratorRequest' = [decoratorRequest EXCEPT ![r] = [decoratorRequest[r] EXCEPT !.pc = "done"]]
      BY <2>2 DEF DC!LegacyFails
    <3>2. [decoratorRequest[r] EXCEPT !.pc = "done"] \in Handlers /\ [decoratorRequest[r] EXCEPT !.pc = "done"].pc = "done"
      BY <1>2 DEF Handlers
    <3> QED BY <2>2, <3>1, <3>2
  <2> QED BY <2>1, <2>2
<1>4. \A q \in Requests : decoratorRequest'[q] = IF q = r THEN h ELSE decoratorRequest[q]
  BY <1>1, <1>3 DEF DecoratorShape
<1>5. failures' \in Nat /\ failures \in Nat /\ (h.pc = "done" => failures' = failures + 1) /\ failures <= failures'
  BY <1>1, <1>3 DEF DecoratorShape, DC!CreateOrder, DC!LegacyFails, DC!Fails
<1>6. DecoratorShape'
  BY <1>1, <1>3, <1>5 DEF DecoratorShape
<1>7. Evented' = Evented /\ Evented \subseteq 1..counter
  BY <1>1 DEF Evented, DecoratorShape
<1>8. DC!Sending' = DC!Sending
  BY <1>2, <1>3, <1>4 DEF DC!Sending
<1>9. Announcing' = (IF h.pc = "publish" /\ valid THEN Announcing \cup {r} ELSE Announcing) /\ r \notin Announcing
  <2>1. h.pc = "publish" => h.id = IF valid THEN counter + 1 ELSE 0
    BY <1>3
  <2>2. counter + 1 # 0
    BY <1>1
  <2> QED BY <1>2, <1>4, <2>1, <2>2 DEF Announcing
<1>10. DecoratorOnce'
  <2>1. \A q \in Requests : decoratorRequest'[q].pc = "publish" => decoratorRequest'[q].id \in 0..n
    BY <1>1, <1>3, <1>4 DEF DecoratorOnce
  <2>2. \A q \in Announcing' : IF q = r THEN decoratorRequest'[q].id = counter + 1
                                ELSE q \in Announcing /\ decoratorRequest'[q] = decoratorRequest[q]
                                     /\ decoratorRequest[q].id \in 0..counter
    BY <1>1, <1>3, <1>4, <1>9 DEF DecoratorOnce, Announcing
  <2>3. \A q \in Announcing' : decoratorRequest'[q].id \notin Evented'
    BY <1>1, <1>7, <2>2 DEF DecoratorOnce
  <2>4. \A p, q \in Announcing' : decoratorRequest'[p].id = decoratorRequest'[q].id => p = q
    BY <1>1, <2>2 DEF DecoratorOnce
  <2> QED BY <1>1, <2>1, <2>3, <2>4 DEF DecoratorOnce
<1>11. DecoratorCounts'
  <2>1. Announcing \in SUBSET Requests /\ DC!Sending \in SUBSET Requests
    BY DEF Announcing, DC!Sending
  <2>2. /\ Cardinality(Announcing) \in Nat /\ Cardinality(DC!Sending) \in Nat /\ Cardinality(Evented) \in Nat
        /\ Len(published_events) \in Nat /\ Len(decoratorTopic) \in Nat /\ IsFiniteSet(Announcing)
    BY <1>1, <2>1, DecoratorFinite
  <2>3. Cardinality(Announcing') = IF h.pc = "publish" /\ valid THEN Cardinality(Announcing) + 1 ELSE Cardinality(Announcing)
    BY <1>9, <2>2, FS_AddElement
  <2>4. counter' <= Cardinality(Evented') + Cardinality(Announcing') + failures'
    BY <1>1, <1>3, <1>5, <1>7, <2>2, <2>3 DEF DecoratorCounts
  <2>5. Len(published_events) <= Len(decoratorTopic) + Cardinality(DC!Sending) + failures'
    BY <1>1, <1>5, <2>2 DEF DecoratorCounts
  <2> QED BY <1>1, <1>8, <2>4, <2>5 DEF DecoratorCounts
<1> QED BY <1>6, <1>10, <1>11 DEF DecoratorInv

(* The number moves from the request into the list.                          *)
LEMMA DecoratorPublishStep ==
  ASSUME DecoratorInv, NEW r \in Requests, DC!Publish(r)
  PROVE  DecoratorInv'
<1> DEFINE e == decoratorRequest[r].id
           N == Len(published_events)
<1>1. /\ DecoratorShape /\ DecoratorOnce /\ DecoratorCounts
      /\ published_events' = Append(published_events, e)
      /\ UNCHANGED <<counter, decoratorTopic, decoratorCache, failures>>
  BY DEF DecoratorInv, DC!Publish
<1>2. decoratorRequest[r] \in Handlers /\ decoratorRequest[r].pc = "publish" /\ e \in 0..counter /\ counter \in Nat
  BY <1>1 DEF DecoratorShape, DecoratorOnce, DC!Publish, DC!Goes
<1>3. PICK h \in Handlers : decoratorRequest' = [decoratorRequest EXCEPT ![r] = h] /\ h.pc = "sending"
  <2>1. decoratorRequest' = [decoratorRequest EXCEPT ![r] = [decoratorRequest[r] EXCEPT !.pc = "sending"]]
    BY DEF DC!Publish, DC!Goes
  <2>2. [decoratorRequest[r] EXCEPT !.pc = "sending"] \in Handlers /\ [decoratorRequest[r] EXCEPT !.pc = "sending"].pc = "sending"
    BY <1>2 DEF Handlers
  <2> QED BY <2>1, <2>2
<1>4. \A q \in Requests : decoratorRequest'[q] = IF q = r THEN h ELSE decoratorRequest[q]
  BY <1>1, <1>3 DEF DecoratorShape
<1>5. /\ N \in Nat /\ DOMAIN published_events = 1..N /\ published_events \in Seq(0..counter)
      /\ published_events' \in Seq(0..counter) /\ DOMAIN published_events' = 1..(N + 1) /\ Len(published_events') = N + 1
      /\ \A k \in 1..(N + 1) : published_events'[k] = IF k = N + 1 THEN e ELSE published_events[k]
  BY <1>1, <1>2 DEF DecoratorShape
<1> HIDE DEF e, N
<1>6. DecoratorShape'
  BY <1>1, <1>3, <1>5 DEF DecoratorShape
<1>7. Evented' = IF e = 0 THEN Evented ELSE Evented \cup {e}
  <2>1. Evented' = {i \in 1..counter : \E k \in 1..(N + 1) : published_events'[k] = i}
    BY <1>1, <1>5 DEF Evented
  <2>2. Evented = {i \in 1..counter : \E k \in 1..N : published_events[k] = i}
    BY <1>5 DEF Evented
  <2>3. 1..(N + 1) = 1..N \cup {N + 1} /\ N + 1 \notin 1..N
    BY <1>5
  <2>4. \A i \in 1..counter : (\E k \in 1..(N + 1) : published_events'[k] = i) <=> i = e \/ \E k \in 1..N : published_events[k] = i
    BY <1>5, <2>3
  <2>5. e \in 1..counter <=> e # 0
    BY <1>2
  <2> QED BY <2>1, <2>2, <2>4, <2>5
<1>8. /\ Announcing' = Announcing \ {r} /\ (r \in Announcing <=> e # 0)
      /\ DC!Sending' = DC!Sending \cup {r} /\ r \notin DC!Sending
  BY <1>2, <1>3, <1>4 DEF Announcing, DC!Sending, e
<1>9. e # 0 => e \notin Evented
  BY <1>1, <1>8 DEF DecoratorOnce, e
<1>10. DecoratorOnce'
  <2>1. \A k \in 1..N : published_events[k] \in 0..counter /\ (published_events[k] # 0 => published_events[k] \in Evented)
    BY <1>2, <1>5 DEF Evented
  <2>2. ASSUME NEW j \in 1..(N + 1), NEW k \in 1..(N + 1), published_events'[j] = published_events'[k], published_events'[j] # 0
        PROVE  j = k
    BY <1>1, <1>5, <1>9, <2>1, <2>2 DEF DecoratorOnce
  <2>3. \A q \in Requests : decoratorRequest'[q].pc = "publish" => decoratorRequest'[q].id \in 0..counter'
    BY <1>1, <1>3, <1>4 DEF DecoratorOnce
  <2>4. \A q \in Announcing' : q # r /\ q \in Announcing /\ decoratorRequest'[q] = decoratorRequest[q]
    BY <1>4, <1>8 DEF Announcing
  <2>5. \A q \in Announcing' : decoratorRequest'[q].id \notin Evented'
    <3>1. \A q \in Announcing' : e # 0 => decoratorRequest[q].id # e
      BY <1>1, <1>8, <2>4 DEF DecoratorOnce, e
    <3> QED BY <1>1, <1>7, <2>4, <3>1 DEF DecoratorOnce
  <2>6. \A p, q \in Announcing' : decoratorRequest'[p].id = decoratorRequest'[q].id => p = q
    BY <1>1, <2>4 DEF DecoratorOnce
  <2> QED BY <1>5, <2>2, <2>3, <2>5, <2>6 DEF DecoratorOnce
<1>11. DecoratorCounts'
  <2>1. Announcing \in SUBSET Requests /\ DC!Sending \in SUBSET Requests
    BY DEF Announcing, DC!Sending
  <2>2. /\ Cardinality(Announcing) \in Nat /\ Cardinality(DC!Sending) \in Nat /\ Cardinality(Evented) \in Nat
        /\ Len(decoratorTopic) \in Nat /\ failures \in Nat
        /\ IsFiniteSet(Announcing) /\ IsFiniteSet(DC!Sending) /\ IsFiniteSet(Evented)
    BY <1>1, <2>1, DecoratorFinite DEF DecoratorShape
  <2>3. Cardinality(DC!Sending') = Cardinality(DC!Sending) + 1
    BY <1>8, <2>2, FS_AddElement
  <2>4. Cardinality(Evented') + Cardinality(Announcing') = Cardinality(Evented) + Cardinality(Announcing)
    <3>1. CASE e = 0
      BY <1>7, <1>8, <2>2, <3>1, FS_RemoveElement
    <3>2. CASE e # 0
      <4>1. Cardinality(Evented') = Cardinality(Evented) + 1
        BY <1>7, <1>9, <2>2, <3>2, FS_AddElement
      <4>2. Cardinality(Announcing') = Cardinality(Announcing) - 1
        BY <1>8, <2>2, <3>2, FS_RemoveElement
      <4> QED BY <4>1, <4>2, <2>2
    <3> QED BY <3>1, <3>2
  <2>5. Len(published_events') <= Len(decoratorTopic) + Cardinality(DC!Sending') + failures
    BY <1>1, <1>5, <2>2, <2>3 DEF DecoratorCounts, N
  <2> QED BY <1>1, <2>4, <2>5 DEF DecoratorCounts
<1> QED BY <1>6, <1>10, <1>11 DEF DecoratorInv

(* The event reaches the topic, or a failure is counted.                     *)
LEMMA DecoratorSendStep ==
  ASSUME DecoratorInv, NEW r \in Requests, DC!SendAndWait(r)
  PROVE  DecoratorInv'
<1>1. /\ DecoratorShape /\ DecoratorOnce /\ DecoratorCounts
      /\ UNCHANGED <<counter, published_events, decoratorCache>>
  BY DEF DecoratorInv, DC!SendAndWait
<1>2. decoratorRequest[r] \in Handlers /\ decoratorRequest[r].pc = "sending" /\ decoratorRequest[r].id \in Nat
  BY <1>1 DEF DecoratorShape, Handlers, DC!SendAndWait, DC!Goes
<1>3. PICK h \in Handlers : decoratorRequest' = [decoratorRequest EXCEPT ![r] = h] /\ h.pc = "done"
  <2>1. decoratorRequest' = [decoratorRequest EXCEPT ![r] = [decoratorRequest[r] EXCEPT !.pc = "done"]]
    BY DEF DC!SendAndWait, DC!Goes
  <2>2. [decoratorRequest[r] EXCEPT !.pc = "done"] \in Handlers /\ [decoratorRequest[r] EXCEPT !.pc = "done"].pc = "done"
    BY <1>2 DEF Handlers
  <2> QED BY <2>1, <2>2
<1>4. \A q \in Requests : decoratorRequest'[q] = IF q = r THEN h ELSE decoratorRequest[q]
  BY <1>1, <1>3 DEF DecoratorShape
<1>5. /\ decoratorTopic' \in Seq(Nat) /\ Len(decoratorTopic) \in Nat /\ Len(decoratorTopic') \in Nat
      /\ failures \in Nat /\ failures' \in Nat /\ failures <= failures'
      /\ Len(decoratorTopic') + failures' = Len(decoratorTopic) + failures + 1
  <2>1. decoratorTopic \in Seq(Nat) /\ failures \in Nat /\ Len(decoratorTopic) \in Nat
    BY <1>1 DEF DecoratorShape
  <2>2. CASE decoratorTopic' = Append(decoratorTopic, decoratorRequest[r].id) /\ failures' = failures
    <3>1. Append(decoratorTopic, decoratorRequest[r].id) \in Seq(Nat)
          /\ Len(Append(decoratorTopic, decoratorRequest[r].id)) = Len(decoratorTopic) + 1
      BY <1>2, <2>1
    <3> QED BY <2>1, <2>2, <3>1
  <2>3. CASE decoratorTopic' = decoratorTopic /\ failures' = failures + 1
    BY <2>1, <2>3
  <2> QED BY <2>2, <2>3 DEF DC!SendAndWait, DC!Fails
<1>6. DecoratorShape'
  BY <1>1, <1>3, <1>5 DEF DecoratorShape
<1>7. Evented' = Evented /\ Announcing' = Announcing /\ DC!Sending' = DC!Sending \ {r} /\ r \in DC!Sending
  BY <1>1, <1>2, <1>3, <1>4 DEF Evented, Announcing, DC!Sending
<1>8. \A q \in Requests : decoratorRequest'[q].pc = "publish" => decoratorRequest'[q] = decoratorRequest[q]
  BY <1>3, <1>4
<1>9. DecoratorOnce'
  <2>1. \A q \in Announcing : decoratorRequest'[q] = decoratorRequest[q]
    BY <1>7, <1>8 DEF Announcing
  <2> QED BY <1>1, <1>7, <1>8, <2>1 DEF DecoratorOnce
<1>10. DecoratorCounts'
  <2>1. Announcing \in SUBSET Requests /\ DC!Sending \in SUBSET Requests
    BY DEF Announcing, DC!Sending
  <2>2. /\ Cardinality(Announcing) \in Nat /\ Cardinality(DC!Sending) \in Nat /\ Cardinality(Evented) \in Nat
        /\ Len(published_events) \in Nat /\ IsFiniteSet(DC!Sending) /\ counter \in Nat
    BY <1>1, <2>1, DecoratorFinite DEF DecoratorShape
  <2>3. Cardinality(DC!Sending') = Cardinality(DC!Sending) - 1
    BY <1>7, <2>2, FS_RemoveElement
  <2>4. counter <= Cardinality(Evented) + Cardinality(Announcing) + failures'
    BY <1>1, <1>5, <2>2 DEF DecoratorCounts
  <2>5. Len(published_events) <= Len(decoratorTopic') + Cardinality(DC!Sending') + failures'
    BY <1>1, <1>5, <2>2, <2>3 DEF DecoratorCounts
  <2> QED BY <1>1, <1>7, <2>4, <2>5 DEF DecoratorCounts
<1> QED BY <1>6, <1>9, <1>10 DEF DecoratorInv

LEMMA DecoratorSteps == DecoratorInv /\ [DC!Next]_decorator => DecoratorInv'
BY DecoratorReadStep, DecoratorCreateStep, DecoratorPublishStep, DecoratorSendStep DEF DC!Next

THEOREM DecoratorInvariance == Spec => []DecoratorInv
<1>1. Init => DecoratorInv
  BY Behaviours, DecoratorInitially
<1>2. DecoratorInv /\ [Next]_vars => DecoratorInv'
  BY Behaviours, DecoratorSteps
<1> QED BY <1>1, <1>2, PTL DEF Spec

LEMMA DecoratorAgrees == DecoratorInv => DC!EventPerOrder
<1> SUFFICES ASSUME DecoratorInv PROVE DC!EventPerOrder
  OBVIOUS
<1>1. DecoratorShape /\ DecoratorOnce /\ DecoratorCounts /\ counter \in Nat /\ failures \in Nat
  BY DEF DecoratorInv, DecoratorShape
<1> DEFINE At(i) == {k \in DOMAIN published_events : published_events[k] = i}
<1>2. ASSUME NEW i \in 1..counter
      PROVE  DC!Count(i) = IF i \in Evented THEN 1 ELSE 0
  <2>1. DC!Count(i) = Cardinality(At(i))
    BY SameCardinality DEF DC!Count
  <2>2. CASE i \in Evented
    <3>1. PICK k \in DOMAIN published_events : published_events[k] = i
      BY <2>2 DEF Evented
    <3>2. At(i) = {k}
      BY <1>1, <3>1 DEF DecoratorOnce
    <3> QED BY <2>1, <2>2, <3>2, FS_Singleton
  <2>3. CASE i \notin Evented
    <3>1. At(i) = {}
      BY <2>3 DEF Evented
    <3> QED BY <2>1, <2>3, <3>1, FS_EmptySet
  <2> QED BY <2>2, <2>3
<1>3. {i \in 1..counter : DC!Count(i) = 1} = Evented
  <2>1. Evented \subseteq 1..counter
    BY DEF Evented
  <2>2. \A i \in 1..counter : DC!Count(i) = 1 <=> i \in Evented
    BY <1>2
  <2> HIDE DEF At
  <2> QED BY ONLY <2>1, <2>2
<1>4. /\ Announcing \in SUBSET Requests /\ DC!Sending \in SUBSET Requests /\ DC!Publishing \in SUBSET Requests
      /\ Announcing \in SUBSET DC!Publishing
  BY DEF Announcing, DC!Sending, DC!Publishing
<1>5. /\ Cardinality(Announcing) \in Nat /\ Cardinality(DC!Sending) \in Nat /\ Cardinality(DC!Publishing) \in Nat
      /\ Cardinality(Evented) \in Nat /\ Len(published_events) \in Nat /\ Len(decoratorTopic) \in Nat
      /\ Cardinality(Announcing) <= Cardinality(DC!Publishing)
  BY <1>1, <1>4, DecoratorFinite, FS_Subset
<1>6. counter - Cardinality(Evented) <= Cardinality(DC!Publishing) + failures
  BY <1>1, <1>5 DEF DecoratorCounts
<1>7. Len(published_events) - Len(decoratorTopic) <= Cardinality(DC!Sending) + failures
  BY <1>1, <1>5 DEF DecoratorCounts
<1>8. DC!ToSet(published_events) \subseteq 0..counter
  BY <1>1 DEF DecoratorShape, DC!ToSet
<1>9. \A i \in 1..counter : DC!Count(i) <= 1
  BY <1>2
<1> QED BY <1>3, <1>6, <1>7, <1>8, <1>9, SameCardinality DEF DC!EventPerOrder

-----------------------------------------------------------------------------
(* Example 06: the windows and the figures of the stream processor.          *)
(* A window holds the processed records and the one about to be published;   *)
(* after a crash it holds more, since the position falls back and the table  *)
(* does not.  What was published is below what the table holds.              *)
Usable(m, w) == [merchant |-> m, window |-> w, kind |-> "order"]
Processed(m, w) == {k \in 1..revenuesPosition.grouped : grouped[k] = Usable(m, w)}
Open(m, w) == IF emitting # <<>> /\ emitting[1] = m /\ emitting[2] = w THEN 1 ELSE 0

RevenuesShape ==
  /\ stored \subseteq RS!Record /\ revenuesTopic \in Seq(RS!Record) /\ grouped \in Seq(RS!Record)
  /\ revenuesPosition \in [topic : Nat, grouped : Nat] /\ revenuesCommitted \in [topic : Nat, grouped : Nat]
  /\ revenue \in [Merchants -> [Windows -> Nat]]
  /\ emitting \in {<<>>} \cup (Merchants \X Windows \X Nat)
  /\ output \in Seq(Merchants \X Windows \X Nat)
  /\ crashes \in Nat

(* The agent reads what was regrouped, which is what was sent; the record    *)
(* that it is about to publish is the one after its position.                *)
RevenuesFlow ==
  /\ revenuesCommitted.grouped <= revenuesPosition.grouped /\ revenuesPosition.grouped <= Len(grouped)
  /\ \A k \in 1..Len(grouped) : \E j \in 1..Len(revenuesTopic) : revenuesTopic[j] = grouped[k]
  /\ emitting # <<>> => /\ revenuesPosition.grouped < Len(grouped)
                        /\ grouped[revenuesPosition.grouped + 1] = Usable(emitting[1], emitting[2])
                        /\ emitting[3] = revenue[emitting[1]][emitting[2]]

RevenuesCounted ==
  \A m \in Merchants, w \in Windows :
    /\ revenue[m][w] >= Cardinality(Processed(m, w)) + Open(m, w)
    /\ crashes = 0 => revenue[m][w] = Cardinality(Processed(m, w)) + Open(m, w)
    /\ revenue[m][w] # 0 => \E k \in 1..Len(revenuesTopic) : revenuesTopic[k] = Usable(m, w)

RevenuesPublished ==
  /\ RS!FiguresGrow
  /\ \A j \in 1..Len(output) : \A m \in Merchants, w \in Windows :
       output[j][1] = m /\ output[j][2] = w => output[j][3] + Open(m, w) <= revenue[m][w]

RevenuesInv == RevenuesShape /\ RevenuesFlow /\ RevenuesCounted /\ RevenuesPublished

LEMMA ProcessedFinite ==
  ASSUME RevenuesShape, NEW m, NEW w
  PROVE  IsFiniteSet(Processed(m, w)) /\ Cardinality(Processed(m, w)) \in Nat
<1>1. IsFiniteSet(1..revenuesPosition.grouped)
  BY FS_Interval DEF RevenuesShape
<1> QED BY <1>1, FS_Subset, FS_CardinalityType DEF Processed

LEMMA RevenuesInitially == RS!Init => RevenuesInv
<1> SUFFICES ASSUME RS!Init PROVE RevenuesInv
  OBVIOUS
<1>1. RevenuesShape
  BY DEF RS!Init, RevenuesShape
<1>2. RevenuesFlow
  BY DEF RS!Init, RevenuesFlow
<1>3. RevenuesPublished
  BY DEF RS!Init, RevenuesPublished, RS!FiguresGrow
<1>4. RevenuesCounted
  <2>1. \A m \in Merchants, w \in Windows : Processed(m, w) = {} /\ Open(m, w) = 0 /\ revenue[m][w] = 0
    BY DEF RS!Init, Processed, Open
  <2> QED BY <2>1, FS_EmptySet DEF RevenuesCounted
<1> QED BY <1>1, <1>2, <1>3, <1>4 DEF RevenuesInv

(* Orders are stored and records sent: the processor has not moved.          *)
LEMMA RevenuesSendStep ==
  ASSUME RevenuesInv, \/ \E r \in RS!Record : RS!InsertOrder(r) \/ RS!OtherRecord(r)
                      \/ RS!SendOrder \/ RS!Commit \/ UNCHANGED revenues
  PROVE  RevenuesInv'
<1>1. /\ RevenuesShape /\ RevenuesFlow /\ RevenuesCounted /\ RevenuesPublished
      /\ UNCHANGED <<grouped, revenuesPosition, revenue, emitting, output, crashes>>
  BY DEF RevenuesInv, RS!InsertOrder, RS!OtherRecord, RS!SendOrder, RS!Commit, revenues
<1>2. revenuesTopic' = revenuesTopic \/ \E r \in RS!Record : revenuesTopic' = Append(revenuesTopic, r)
  BY <1>1 DEF RS!InsertOrder, RS!OtherRecord, RS!SendOrder, RS!Commit, revenues, RevenuesShape
<1>3. /\ revenuesTopic' \in Seq(RS!Record) /\ Len(revenuesTopic) <= Len(revenuesTopic')
      /\ Len(revenuesTopic) \in Nat /\ Len(revenuesTopic') \in Nat
      /\ \A k \in 1..Len(revenuesTopic) : k \in 1..Len(revenuesTopic') /\ revenuesTopic'[k] = revenuesTopic[k]
  <2>1. revenuesTopic \in Seq(RS!Record)
    BY <1>1 DEF RevenuesShape
  <2>2. \A r \in RS!Record :
          LET t == Append(revenuesTopic, r) IN
          /\ t \in Seq(RS!Record) /\ Len(t) = Len(revenuesTopic) + 1
          /\ \A k \in 1..Len(revenuesTopic) : t[k] = revenuesTopic[k]
    BY <2>1
  <2>3. Len(revenuesTopic) \in Nat
    BY <2>1
  <2> QED BY <1>2, <2>1, <2>2, <2>3
<1>4. stored' \subseteq RS!Record
  BY <1>1 DEF RS!InsertOrder, RS!OtherRecord, RS!SendOrder, RS!Commit, revenues, RevenuesShape
<1>5. revenuesCommitted' \in {revenuesCommitted, revenuesPosition}
  BY DEF RS!InsertOrder, RS!OtherRecord, RS!SendOrder, RS!Commit, revenues
<1>6. RevenuesShape'
  BY <1>1, <1>3, <1>4, <1>5 DEF RevenuesShape
<1>7. RevenuesFlow'
  <2>1. \A k \in 1..Len(grouped) : \E j \in 1..Len(revenuesTopic') : revenuesTopic'[j] = grouped[k]
    BY <1>1, <1>3 DEF RevenuesFlow
  <2>2. revenuesCommitted'.grouped <= revenuesPosition.grouped
    BY <1>1, <1>5 DEF RevenuesFlow, RevenuesShape
  <2> QED BY <1>1, <2>1, <2>2 DEF RevenuesFlow
<1>8. \A m \in Merchants, w \in Windows : Processed(m, w)' = Processed(m, w) /\ Open(m, w)' = Open(m, w)
  BY <1>1 DEF Processed, Open
<1>9. RevenuesCounted'
  <2> SUFFICES ASSUME NEW m \in Merchants, NEW w \in Windows
               PROVE  /\ revenue[m][w] >= Cardinality(Processed(m, w)) + Open(m, w)
                      /\ crashes = 0 => revenue[m][w] = Cardinality(Processed(m, w)) + Open(m, w)
                      /\ revenue[m][w] # 0 => \E k \in 1..Len(revenuesTopic') : revenuesTopic'[k] = Usable(m, w)
    BY <1>1, <1>8 DEF RevenuesCounted
  <2> QED BY <1>1, <1>3 DEF RevenuesCounted
<1>10. RevenuesPublished'
  BY <1>1, <1>8 DEF RevenuesPublished, RS!FiguresGrow
<1> QED BY <1>6, <1>7, <1>9, <1>10 DEF RevenuesInv

(* A record goes on to the repartition topic.                                *)
LEMMA RevenuesGroupStep ==
  ASSUME RevenuesInv, RS!GroupBy
  PROVE  RevenuesInv'
<1> DEFINE r == revenuesTopic[revenuesPosition.topic + 1]
           N == Len(grouped)
<1>1. /\ RevenuesShape /\ RevenuesFlow /\ RevenuesCounted /\ RevenuesPublished
      /\ UNCHANGED <<stored, revenuesTopic, revenuesCommitted, revenue, emitting, output, crashes>>
      /\ grouped' = Append(grouped, r) /\ revenuesPosition.topic < Len(revenuesTopic)
  BY DEF RevenuesInv, RS!GroupBy
<1>2. revenuesPosition.topic + 1 \in 1..Len(revenuesTopic) /\ r \in RS!Record
  BY <1>1 DEF RevenuesShape
<1>3. /\ revenuesPosition' \in [topic : Nat, grouped : Nat] /\ revenuesPosition'.grouped = revenuesPosition.grouped
      /\ revenuesPosition.grouped \in Nat
  <2>1. revenuesPosition \in [topic : Nat, grouped : Nat] /\ revenuesPosition.topic + 1 \in Nat
    BY <1>1 DEF RevenuesShape
  <2>2. revenuesPosition' = [revenuesPosition EXCEPT !.topic = revenuesPosition.topic + 1]
    BY DEF RS!GroupBy
  <2> QED BY <2>1, <2>2
<1>4. /\ N \in Nat /\ grouped' \in Seq(RS!Record) /\ Len(grouped') = N + 1 /\ grouped'[N + 1] = r
      /\ \A k \in 1..N : grouped'[k] = grouped[k]
  BY <1>1, <1>2 DEF RevenuesShape
<1> HIDE DEF r
<1>5. RevenuesShape'
  BY <1>1, <1>3, <1>4 DEF RevenuesShape
<1>6. RevenuesFlow'
  <2>1. \A k \in 1..Len(grouped') : \E j \in 1..Len(revenuesTopic) : revenuesTopic[j] = grouped'[k]
    <3>1. \A k \in 1..(N + 1) : k \in 1..N \/ k = N + 1
      BY <1>4
    <3> QED BY <1>1, <1>2, <1>4, <3>1 DEF RevenuesFlow, r
  <2>2. emitting # <<>> => revenuesPosition.grouped + 1 \in 1..N
    BY <1>1, <1>3, <1>4 DEF RevenuesFlow
  <2>3. (emitting # <<>> => /\ revenuesPosition.grouped < Len(grouped)
                            /\ grouped[revenuesPosition.grouped + 1] = Usable(emitting[1], emitting[2])
                            /\ emitting[3] = revenue[emitting[1]][emitting[2]])'
    <3> SUFFICES ASSUME emitting # <<>>
                 PROVE  /\ revenuesPosition.grouped < N + 1
                        /\ grouped'[revenuesPosition.grouped + 1] = Usable(emitting[1], emitting[2])
                        /\ emitting[3] = revenue[emitting[1]][emitting[2]]
      BY <1>1, <1>3, <1>4 DEF Usable
    <3> QED BY <1>1, <1>3, <1>4, <2>2 DEF RevenuesFlow
  <2>4. (revenuesCommitted.grouped <= revenuesPosition.grouped /\ revenuesPosition.grouped <= Len(grouped))'
    BY <1>1, <1>3, <1>4 DEF RevenuesFlow
  <2> QED BY <1>1, <2>1, <2>3, <2>4 DEF RevenuesFlow
<1>7. \A m \in Merchants, w \in Windows : Processed(m, w)' = Processed(m, w) /\ Open(m, w)' = Open(m, w)
  <2>1. 1..revenuesPosition.grouped \subseteq 1..N
    BY <1>1, <1>3, <1>4 DEF RevenuesFlow
  <2> QED BY <1>1, <1>3, <1>4, <2>1 DEF Processed, Open
<1>8. RevenuesCounted'
  BY <1>1, <1>7 DEF RevenuesCounted
<1>9. RevenuesPublished'
  BY <1>1, <1>7 DEF RevenuesPublished, RS!FiguresGrow
<1> QED BY <1>5, <1>6, <1>8, <1>9 DEF RevenuesInv

LEMMA RevenuesOutput ==
  ASSUME RevenuesShape
  PROVE  /\ Len(output) \in Nat /\ DOMAIN output = 1..Len(output)
         /\ \A j \in 1..Len(output) : output[j] \in Merchants \X Windows \X Nat /\ output[j][3] \in Nat
         /\ \A m \in Merchants, w \in Windows : revenue[m][w] \in Nat
         /\ revenuesPosition.grouped \in Nat /\ revenuesCommitted.grouped \in Nat /\ Len(grouped) \in Nat
<1>1. output \in Seq(Merchants \X Windows \X Nat)
  BY DEF RevenuesShape
<1>2. Len(output) \in Nat /\ DOMAIN output = 1..Len(output)
  BY <1>1
<1>3. \A j \in 1..Len(output) : output[j] \in Merchants \X Windows \X Nat
  BY <1>1
<1>4. \A e \in Merchants \X Windows \X Nat : e[3] \in Nat
  OBVIOUS
<1>5. revenue \in [Merchants -> [Windows -> Nat]]
  BY DEF RevenuesShape
<1>6. \A m \in Merchants, w \in Windows : revenue[m][w] \in Nat
  BY <1>5
<1>7. revenuesPosition.grouped \in Nat /\ revenuesCommitted.grouped \in Nat
  BY DEF RevenuesShape
<1>8. Len(grouped) \in Nat
  BY DEF RevenuesShape
<1> QED BY <1>2, <1>3, <1>4, <1>6, <1>7, <1>8

(* The agent counts a record in its window and keeps the figure to publish.  *)
LEMMA RevenuesAggregateStep ==
  ASSUME RevenuesInv, RS!Aggregate
  PROVE  RevenuesInv'
<1> DEFINE p == revenuesPosition.grouped
           mm == grouped[p + 1].merchant
           ww == grouped[p + 1].window
           n == revenue[mm][ww] + 1
<1>1. /\ RevenuesShape /\ RevenuesFlow /\ RevenuesCounted /\ RevenuesPublished /\ emitting = <<>>
      /\ UNCHANGED <<stored, revenuesTopic, grouped, revenuesPosition, revenuesCommitted, output, crashes>>
  BY DEF RevenuesInv, RS!Aggregate
<1>2. p \in Nat /\ p < Len(grouped) /\ p + 1 \in 1..Len(grouped) /\ grouped[p + 1] \in RS!Record /\ Len(grouped) \in Nat
  BY <1>1 DEF RevenuesShape, RS!Aggregate
<1>3. mm \in Merchants /\ ww \in Windows /\ grouped[p + 1] = Usable(mm, ww)
  BY <1>2 DEF RS!Aggregate, RS!Record, Usable
<1>4. revenue \in [Merchants -> [Windows -> Nat]] /\ revenue[mm][ww] \in Nat /\ n \in Nat
  BY <1>1, <1>3 DEF RevenuesShape
<1>5. revenue' = [revenue EXCEPT ![mm][ww] = n]
  BY DEF RS!Aggregate
<1> HIDE DEF p, mm, ww, n
<1>6. /\ revenue' \in [Merchants -> [Windows -> Nat]]
      /\ \A m \in Merchants, w \in Windows : revenue'[m][w] = IF m = mm /\ w = ww THEN n ELSE revenue[m][w]
  BY <1>3, <1>4, <1>5
<1>7. emitting' = <<mm, ww, n>>
  <2>1. emitting' = <<mm, ww, revenue'[mm][ww]>>
    BY DEF RS!Aggregate, mm, ww, p
  <2> QED BY <2>1, <1>3, <1>6
<1>8. RevenuesShape'
  BY <1>1, <1>3, <1>4, <1>6, <1>7 DEF RevenuesShape
<1>9. /\ \A m \in Merchants, w \in Windows : Processed(m, w)' = Processed(m, w) /\ Open(m, w) = 0
      /\ \A m \in Merchants, w \in Windows : Open(m, w)' = IF m = mm /\ w = ww THEN 1 ELSE 0
  BY <1>1, <1>7 DEF Processed, Open
<1>10. n = revenue[mm][ww] + 1
  BY DEF n
<1>11. RevenuesFlow'
  <2>1. emitting'[1] = mm /\ emitting'[2] = ww /\ emitting'[3] = revenue'[mm][ww]
    BY <1>3, <1>6, <1>7
  <2> QED BY <1>1, <1>2, <1>3, <2>1 DEF RevenuesFlow, p, Usable
<1>12. RevenuesCounted'
  <2> SUFFICES ASSUME NEW m \in Merchants, NEW w \in Windows
               PROVE  /\ revenue'[m][w] >= Cardinality(Processed(m, w)) + Open(m, w)'
                      /\ crashes = 0 => revenue'[m][w] = Cardinality(Processed(m, w)) + Open(m, w)'
                      /\ revenue'[m][w] # 0 => \E k \in 1..Len(revenuesTopic) : revenuesTopic[k] = Usable(m, w)
    BY <1>1, <1>9 DEF RevenuesCounted, Usable
  <2>1. Cardinality(Processed(m, w)) \in Nat
    BY <1>1, ProcessedFinite
  <2>2. /\ revenue[m][w] >= Cardinality(Processed(m, w))
        /\ crashes = 0 => revenue[m][w] = Cardinality(Processed(m, w))
        /\ revenue[m][w] # 0 => \E k \in 1..Len(revenuesTopic) : revenuesTopic[k] = Usable(m, w)
    BY <1>1, <1>9, <2>1 DEF RevenuesCounted
  <2>3. \E k \in 1..Len(revenuesTopic) : revenuesTopic[k] = Usable(mm, ww)
    BY <1>1, <1>2, <1>3 DEF RevenuesFlow
  <2>4. revenue[m][w] \in Nat
    BY <1>4
  <2>5. CASE m = mm /\ w = ww
    BY <1>4, <1>6, <1>9, <1>10, <2>1, <2>2, <2>3, <2>5
  <2>6. CASE ~(m = mm /\ w = ww)
    BY <1>6, <1>9, <2>1, <2>2, <2>4, <2>6
  <2> QED BY <2>5, <2>6
<1>13. RevenuesPublished'
  <2>1. RS!FiguresGrow'
    BY <1>1 DEF RevenuesPublished, RS!FiguresGrow
  <2>2. ASSUME NEW j \in 1..Len(output), NEW m \in Merchants, NEW w \in Windows, output[j][1] = m, output[j][2] = w
        PROVE  output[j][3] + Open(m, w)' <= revenue'[m][w]
    <3>1. output[j][3] \in Nat /\ revenue[m][w] \in Nat
      BY <1>1, RevenuesOutput
    <3>2. output[j][3] + Open(m, w) <= revenue[m][w] /\ Open(m, w) = 0
      BY <1>1, <1>9, <2>2 DEF RevenuesPublished
    <3>3. revenue'[m][w] \in {revenue[m][w], revenue[m][w] + 1} /\ Open(m, w)' = revenue'[m][w] - revenue[m][w]
      BY <1>6, <1>9, <1>10, <3>1
    <3> QED BY <3>1, <3>2, <3>3
  <2> QED BY <1>1, <2>1, <2>2 DEF RevenuesPublished
<1> QED BY <1>8, <1>11, <1>12, <1>13 DEF RevenuesInv

(* An unusable record is passed over.                                        *)
LEMMA RevenuesAdvance ==
  ASSUME RevenuesShape, RevenuesFlow, UNCHANGED grouped, revenuesPosition'.grouped = revenuesPosition.grouped + 1,
         NEW m, NEW w
  PROVE  Processed(m, w)' = IF grouped[revenuesPosition.grouped + 1] = Usable(m, w)
                            THEN Processed(m, w) \cup {revenuesPosition.grouped + 1} ELSE Processed(m, w)
<1>1. revenuesPosition.grouped \in Nat
  BY DEF RevenuesShape
<1>2. 1..(revenuesPosition.grouped + 1) = 1..revenuesPosition.grouped \cup {revenuesPosition.grouped + 1}
  BY <1>1
<1> QED BY <1>2 DEF Processed, Usable

LEMMA RevenuesSkipStep ==
  ASSUME RevenuesInv, RS!Skip
  PROVE  RevenuesInv'
<1>1. /\ RevenuesShape /\ RevenuesFlow /\ RevenuesCounted /\ RevenuesPublished /\ emitting = <<>>
      /\ UNCHANGED <<stored, revenuesTopic, grouped, revenuesCommitted, revenue, emitting, output, crashes>>
      /\ revenuesPosition.grouped < Len(grouped) /\ grouped[revenuesPosition.grouped + 1].kind # "order"
  BY DEF RevenuesInv, RS!Skip
<1>2. /\ revenuesPosition' \in [topic : Nat, grouped : Nat] /\ revenuesPosition'.grouped = revenuesPosition.grouped + 1
      /\ revenuesPosition.grouped \in Nat /\ revenuesCommitted.grouped \in Nat /\ Len(grouped) \in Nat
  <2>1. revenuesPosition \in [topic : Nat, grouped : Nat] /\ revenuesPosition.grouped + 1 \in Nat
    BY <1>1 DEF RevenuesShape
  <2>2. revenuesPosition' = [revenuesPosition EXCEPT !.grouped = revenuesPosition.grouped + 1]
    BY DEF RS!Skip
  <2>3. revenuesPosition' \in [topic : Nat, grouped : Nat] /\ revenuesPosition'.grouped = revenuesPosition.grouped + 1
    BY <2>1, <2>2
  <2> QED BY <1>1, <2>3, RevenuesOutput
<1>3. \A m, w : grouped[revenuesPosition.grouped + 1] # Usable(m, w)
  BY <1>1 DEF Usable
<1>4. \A m \in Merchants, w \in Windows : Processed(m, w)' = Processed(m, w) /\ Open(m, w)' = Open(m, w)
  BY <1>1, <1>2, <1>3, RevenuesAdvance DEF Open
<1>5. RevenuesShape'
  BY <1>1, <1>2 DEF RevenuesShape
<1>6. RevenuesFlow'
  BY <1>1, <1>2 DEF RevenuesFlow
<1>7. RevenuesCounted'
  BY <1>1, <1>4 DEF RevenuesCounted
<1>8. RevenuesPublished'
  BY <1>1, <1>4 DEF RevenuesPublished, RS!FiguresGrow
<1> QED BY <1>5, <1>6, <1>7, <1>8 DEF RevenuesInv

(* The figure is published, and the record behind it processed.              *)
LEMMA RevenuesEmitStep ==
  ASSUME RevenuesInv, RS!Emit
  PROVE  RevenuesInv'
<1> DEFINE p == revenuesPosition.grouped
           mm == emitting[1]
           ww == emitting[2]
           N == Len(output)
<1>1. /\ RevenuesShape /\ RevenuesFlow /\ RevenuesCounted /\ RevenuesPublished /\ emitting # <<>>
      /\ UNCHANGED <<stored, revenuesTopic, grouped, revenuesCommitted, revenue, crashes>>
      /\ output' = Append(output, emitting) /\ emitting' = <<>>
  BY DEF RevenuesInv, RS!Emit
<1>2. /\ revenuesPosition' \in [topic : Nat, grouped : Nat] /\ revenuesPosition'.grouped = p + 1
      /\ p \in Nat /\ revenuesCommitted.grouped \in Nat /\ Len(grouped) \in Nat
  <2>1. revenuesPosition \in [topic : Nat, grouped : Nat] /\ revenuesPosition.grouped + 1 \in Nat
    BY <1>1 DEF RevenuesShape
  <2>2. revenuesPosition' = [revenuesPosition EXCEPT !.grouped = revenuesPosition.grouped + 1]
    BY DEF RS!Emit
  <2>3. revenuesPosition' \in [topic : Nat, grouped : Nat] /\ revenuesPosition'.grouped = revenuesPosition.grouped + 1
    BY <2>1, <2>2
  <2> QED BY <1>1, <2>3, RevenuesOutput
<1>3. /\ emitting \in Merchants \X Windows \X Nat /\ mm \in Merchants /\ ww \in Windows /\ emitting[3] = revenue[mm][ww]
      /\ grouped[p + 1] = Usable(mm, ww) /\ p < Len(grouped) /\ revenue[mm][ww] \in Nat
  BY <1>1 DEF RevenuesShape, RevenuesFlow
<1>4. /\ N \in Nat /\ output' \in Seq(Merchants \X Windows \X Nat) /\ Len(output') = N + 1 /\ DOMAIN output' = 1..(N + 1)
      /\ DOMAIN output = 1..N
      /\ \A j \in 1..(N + 1) : output'[j] = IF j = N + 1 THEN emitting ELSE output[j]
  <2>1. output \in Seq(Merchants \X Windows \X Nat)
    BY <1>1 DEF RevenuesShape
  <2> QED BY ONLY <2>1, <1>1, <1>3
<1> HIDE DEF p, mm, ww, N
<1>5. \A m \in Merchants, w \in Windows :
        /\ Processed(m, w)' = IF m = mm /\ w = ww THEN Processed(m, w) \cup {p + 1} ELSE Processed(m, w)
        /\ Open(m, w)' = 0 /\ Open(m, w) = IF m = mm /\ w = ww THEN 1 ELSE 0
        /\ p + 1 \notin Processed(m, w)
  <2> SUFFICES ASSUME NEW m \in Merchants, NEW w \in Windows
               PROVE  /\ Processed(m, w)' = IF m = mm /\ w = ww THEN Processed(m, w) \cup {p + 1} ELSE Processed(m, w)
                      /\ Open(m, w)' = 0 /\ Open(m, w) = IF m = mm /\ w = ww THEN 1 ELSE 0
                      /\ p + 1 \notin Processed(m, w)
    OBVIOUS
  <2>1. Usable(mm, ww) = Usable(m, w) <=> m = mm /\ w = ww
    <3>1. Usable(mm, ww).merchant = mm /\ Usable(mm, ww).window = ww /\ Usable(m, w).merchant = m /\ Usable(m, w).window = w
      BY DEF Usable
    <3> QED BY <3>1
  <2>2. Processed(m, w)' = IF m = mm /\ w = ww THEN Processed(m, w) \cup {p + 1} ELSE Processed(m, w)
    BY <1>1, <1>2, <1>3, <2>1, RevenuesAdvance DEF p
  <2>3. Open(m, w)' = 0 /\ Open(m, w) = IF m = mm /\ w = ww THEN 1 ELSE 0
    BY <1>1 DEF Open, mm, ww
  <2>4. p + 1 \notin Processed(m, w)
    BY <1>2 DEF Processed, p
  <2> QED BY <2>2, <2>3, <2>4
<1>6. RevenuesShape'
  BY <1>1, <1>2, <1>4 DEF RevenuesShape
<1>7. RevenuesFlow'
  <2>1. (revenuesCommitted.grouped <= revenuesPosition.grouped /\ revenuesPosition.grouped <= Len(grouped))'
    BY <1>1, <1>2, <1>3 DEF RevenuesFlow, p
  <2>2. \A k \in 1..Len(grouped) : \E j \in 1..Len(revenuesTopic) : revenuesTopic[j] = grouped[k]
    BY <1>1 DEF RevenuesFlow
  <2> QED BY <1>1, <2>1, <2>2 DEF RevenuesFlow
<1>8. RevenuesCounted'
  <2> SUFFICES ASSUME NEW m \in Merchants, NEW w \in Windows
               PROVE  /\ revenue[m][w] >= Cardinality(Processed(m, w)') + Open(m, w)'
                      /\ crashes = 0 => revenue[m][w] = Cardinality(Processed(m, w)') + Open(m, w)'
                      /\ revenue[m][w] # 0 => \E k \in 1..Len(revenuesTopic) : revenuesTopic[k] = Usable(m, w)
    BY <1>1 DEF RevenuesCounted, Usable
  <2>1. IsFiniteSet(Processed(m, w)) /\ Cardinality(Processed(m, w)) \in Nat
    BY <1>1, ProcessedFinite
  <2>2. Cardinality(Processed(m, w)') + Open(m, w)' = Cardinality(Processed(m, w)) + Open(m, w)
    <3>1. CASE m = mm /\ w = ww
      <4>1. Cardinality(Processed(m, w) \cup {p + 1}) = Cardinality(Processed(m, w)) + 1
        BY <1>5, <2>1, FS_AddElement
      <4> QED BY <1>5, <2>1, <3>1, <4>1
    <3>2. CASE ~(m = mm /\ w = ww)
      BY <1>5, <2>1, <3>2
    <3> QED BY <3>1, <3>2
  <2> QED BY <1>1, <2>2 DEF RevenuesCounted
<1>9. RevenuesPublished'
  <2>1. \A j \in 1..N : /\ output[j] \in Merchants \X Windows \X Nat
                        /\ \A m \in Merchants, w \in Windows :
                             output[j][1] = m /\ output[j][2] = w => output[j][3] + Open(m, w) <= revenue[m][w]
    BY <1>1, RevenuesOutput DEF RevenuesPublished, N
  <2>2. \A j \in 1..N : output[j][1] = mm /\ output[j][2] = ww => output[j][3] < emitting[3]
    BY <1>3, <1>5, <2>1
  <2>3. emitting[1] = mm /\ emitting[2] = ww
    BY DEF mm, ww
  <2>4. \A j, k \in 1..(N + 1) : j < k /\ output'[j][1] = output'[k][1] /\ output'[j][2] = output'[k][2]
                                  => output'[j][3] < output'[k][3]
    <3> SUFFICES ASSUME NEW j \in 1..(N + 1), NEW k \in 1..(N + 1), j < k,
                        output'[j][1] = output'[k][1], output'[j][2] = output'[k][2]
                 PROVE  output'[j][3] < output'[k][3]
      OBVIOUS
    <3>1. j \in 1..N /\ output'[j] = output[j]
      BY <1>4
    <3>2. CASE k = N + 1
      BY <1>4, <2>2, <2>3, <3>1, <3>2
    <3>3. CASE k # N + 1
      <4>1. k \in 1..N /\ output'[k] = output[k]
        BY <1>4, <3>3
      <4> QED BY <1>1, <1>4, <3>1, <4>1 DEF RevenuesPublished, RS!FiguresGrow
    <3> QED BY <3>2, <3>3
  <2>5. ASSUME NEW j \in 1..(N + 1), NEW m \in Merchants, NEW w \in Windows, output'[j][1] = m, output'[j][2] = w
        PROVE  output'[j][3] + Open(m, w)' <= revenue[m][w]
    <3>1. CASE j = N + 1
      BY <1>3, <1>4, <1>5, <2>3, <2>5, <3>1
    <3>2. CASE j # N + 1
      <4>1. j \in 1..N /\ output'[j] = output[j]
        BY <1>4, <3>2
      <4>2. output[j][3] + Open(m, w) <= revenue[m][w] /\ output[j][3] \in Nat /\ revenue[m][w] \in Nat
        BY <1>1, <2>1, <2>5, <4>1, RevenuesOutput DEF N
      <4> QED BY <1>5, <4>1, <4>2
    <3> QED BY <3>1, <3>2
  <2> QED BY <1>1, <1>4, <2>4, <2>5 DEF RevenuesPublished, RS!FiguresGrow
<1> QED BY <1>6, <1>7, <1>8, <1>9 DEF RevenuesInv

(* After a crash the position falls back and the table stays.                *)
LEMMA RevenuesCrashStep ==
  ASSUME RevenuesInv, RS!Crash
  PROVE  RevenuesInv'
<1>1. /\ RevenuesShape /\ RevenuesFlow /\ RevenuesCounted /\ RevenuesPublished
      /\ UNCHANGED <<stored, revenuesTopic, grouped, revenuesCommitted, revenue, output>>
      /\ revenuesPosition' = revenuesCommitted /\ emitting' = <<>> /\ crashes' = crashes + 1
  BY DEF RevenuesInv, RS!Crash
<1>2. /\ revenuesCommitted.grouped \in Nat /\ revenuesPosition.grouped \in Nat /\ Len(grouped) \in Nat /\ crashes \in Nat
      /\ revenuesCommitted.grouped <= revenuesPosition.grouped /\ revenuesPosition.grouped <= Len(grouped)
  BY <1>1 DEF RevenuesShape, RevenuesFlow
<1>3. RevenuesShape'
  BY <1>1, <1>2 DEF RevenuesShape
<1>4. RevenuesFlow'
  BY <1>1, <1>2 DEF RevenuesFlow
<1>5. \A m \in Merchants, w \in Windows : Open(m, w)' = 0 /\ Open(m, w) \in {0, 1}
  BY <1>1 DEF Open
<1>6. RevenuesCounted'
  <2> SUFFICES ASSUME NEW m \in Merchants, NEW w \in Windows
               PROVE  /\ revenue[m][w] >= Cardinality(Processed(m, w)') + Open(m, w)'
                      /\ revenue[m][w] # 0 => \E k \in 1..Len(revenuesTopic) : revenuesTopic[k] = Usable(m, w)
    BY <1>1, <1>2 DEF RevenuesCounted, Usable
  <2>1. IsFiniteSet(Processed(m, w)) /\ Cardinality(Processed(m, w)) \in Nat
    BY <1>1, ProcessedFinite
  <2>2. Processed(m, w)' \in SUBSET Processed(m, w)
    BY <1>1, <1>2 DEF Processed, Usable
  <2>3. Cardinality(Processed(m, w)') \in Nat /\ Cardinality(Processed(m, w)') <= Cardinality(Processed(m, w))
    BY <2>1, <2>2, FS_Subset, FS_CardinalityType
  <2>4. revenue[m][w] \in Nat
    BY <1>1 DEF RevenuesShape
  <2> QED BY <1>1, <1>5, <2>1, <2>3, <2>4 DEF RevenuesCounted
<1>7. RevenuesPublished'
  <2>1. RS!FiguresGrow'
    BY <1>1 DEF RevenuesPublished, RS!FiguresGrow
  <2>2. ASSUME NEW j \in 1..Len(output), NEW m \in Merchants, NEW w \in Windows, output[j][1] = m, output[j][2] = w
        PROVE  output[j][3] + Open(m, w)' <= revenue[m][w]
    <3>1. output[j][3] \in Nat /\ revenue[m][w] \in Nat
      BY <1>1, RevenuesOutput
    <3>2. output[j][3] + Open(m, w) <= revenue[m][w]
      BY <1>1, <2>2 DEF RevenuesPublished
    <3> QED BY <1>5, <3>1, <3>2
  <2> QED BY <1>1, <2>1, <2>2 DEF RevenuesPublished
<1> QED BY <1>3, <1>4, <1>6, <1>7 DEF RevenuesInv

LEMMA RevenuesSteps == RevenuesInv /\ [RS!Next]_revenues => RevenuesInv'
BY RevenuesSendStep, RevenuesGroupStep, RevenuesAggregateStep, RevenuesSkipStep, RevenuesEmitStep, RevenuesCrashStep
   DEF RS!Next

THEOREM RevenuesInvariance == Spec => []RevenuesInv
<1>1. Init => RevenuesInv
  BY Behaviours, RevenuesInitially
<1>2. RevenuesInv /\ [Next]_vars => RevenuesInv'
  BY Behaviours, RevenuesSteps
<1> QED BY <1>1, <1>2, PTL DEF Spec

LEMMA RevenuesAgree == RevenuesInv => RS!WindowsComplete /\ RS!FiguresGrow
<1> SUFFICES ASSUME RevenuesInv PROVE RS!WindowsComplete /\ RS!FiguresGrow
  OBVIOUS
<1>1. RevenuesShape /\ RevenuesFlow /\ RevenuesCounted /\ RevenuesPublished
  BY DEF RevenuesInv
<1> DEFINE p == revenuesPosition.grouped
           done == SubSeq(grouped, 1, p)
<1>2. p \in Nat /\ p <= Len(grouped) /\ Len(grouped) \in Nat /\ grouped \in Seq(RS!Record) /\ revenuesTopic \in Seq(RS!Record)
  BY <1>1 DEF RevenuesShape, RevenuesFlow
<1>3. DOMAIN done = 1..p /\ \A k \in 1..p : done[k] = grouped[k]
  BY <1>2
<1> HIDE DEF p, done
<1>4. ASSUME NEW m \in Merchants, NEW w \in Windows
      PROVE  /\ RS!OrdersIn(done, m, w) = Cardinality(Processed(m, w))
             /\ RS!OrdersIn(revenuesTopic, m, w) = 0 => \A k \in 1..Len(revenuesTopic) : revenuesTopic[k] # Usable(m, w)
  <2>1. RS!OrdersIn(done, m, w) = Cardinality({k \in DOMAIN done : done[k] = Usable(m, w)})
    BY SameCardinality DEF RS!OrdersIn, Usable
  <2>2. {k \in DOMAIN done : done[k] = Usable(m, w)} = Processed(m, w)
    BY <1>3 DEF Processed, p
  <2> DEFINE T == {k \in DOMAIN revenuesTopic : revenuesTopic[k] = Usable(m, w)}
  <2>3. RS!OrdersIn(revenuesTopic, m, w) = Cardinality(T)
    BY SameCardinality DEF RS!OrdersIn, Usable
  <2>4. DOMAIN revenuesTopic = 1..Len(revenuesTopic) /\ Len(revenuesTopic) \in Nat
    BY <1>2
  <2>5. IsFiniteSet(T)
    <3>1. IsFiniteSet(1..Len(revenuesTopic)) /\ T \in SUBSET (1..Len(revenuesTopic))
      BY <2>4, FS_Interval
    <3> HIDE DEF T
    <3> QED BY <3>1, FS_Subset
  <2>6. Cardinality(T) = 0 => T = {}
    BY <2>5, FS_EmptySet
  <2> QED BY <2>1, <2>2, <2>3, <2>4, <2>6
<1>5. RS!WindowsComplete
  <2> SUFFICES ASSUME NEW m \in Merchants, NEW w \in Windows
               PROVE  /\ revenue[m][w] >= RS!OrdersIn(done, m, w) + Open(m, w)
                      /\ crashes = 0 => revenue[m][w] = RS!OrdersIn(done, m, w) + Open(m, w)
                      /\ RS!OrdersIn(revenuesTopic, m, w) = 0 => revenue[m][w] = 0
    BY DEF RS!WindowsComplete, done, p, Open
  <2> QED BY <1>1, <1>4 DEF RevenuesCounted
<1> QED BY <1>1, <1>5 DEF RevenuesPublished

-----------------------------------------------------------------------------
(* The events of 24 and 04, the cancellations of 28, and the windows and     *)
(* figures of 06 agree with the orders, in every state of their service.     *)
THEOREM EventsAgree == Spec => []EventsAgreeWithOrders
<1>1. DecoratorInv /\ StoringInv /\ RevenuesInv => EventsAgreeWithOrders
  BY DecoratorAgrees, StoringAgrees, RevenuesAgree DEF EventsAgreeWithOrders
<1> QED BY <1>1, DecoratorInvariance, StoringInvariance, RevenuesInvariance, PTL
=============================================================================
