-------------------------------- MODULE Drain --------------------------------
(* The order service of example 21 from its start to the end of its process: *)
(* one SIGTERM flips readiness, hands over to uvicorn after a delay, lets    *)
(* open requests finish for a while, closes the pool and exits.              *)
(* Time runs in units of five seconds since the signal.                      *)
EXTENDS Naturals, FiniteSets

CONSTANTS
  Requests,
  PoolSize,     \* max_size of the pool (10 in the code)
  DrainDelay,   \* drain_delay_seconds
  Graceful,     \* uvicorn's --timeout-graceful-shutdown
  DrainWait,    \* the hundred rounds of 0.1 s in the lifespan
  GracePeriod   \* stop_grace_period: SIGKILL

VARIABLES
  shutting_down, in_flight,
  server,    \* "serving", "closing", "lifespan", "pool", "stopped", "killed"
  pool,      \* "open", "closing", "closed"
  age,       \* time since SIGTERM
  since,     \* age at which the lifespan began to wait
  handler,   \* [request]: "none", "acquire", "insert", "inserted", "cancelled", "done"
  orders,    \* the requests whose row is committed
  answer     \* [request]: "none", "201", "500", "503", "lost"

requests == <<in_flight, handler, orders, answer>>
process == <<shutting_down, server, pool, age, since>>
vars == <<requests, process>>

Init ==
  /\ shutting_down = FALSE /\ in_flight = 0 /\ server = "serving" /\ pool = "open"
  /\ age = 0 /\ since = 0
  /\ handler = [r \in Requests |-> "none"]
  /\ orders = {}
  /\ answer = [r \in Requests |-> "none"]

Open == {r \in Requests : handler[r] \in {"acquire", "insert", "inserted", "cancelled"}}
Connections == {r \in Requests : handler[r] \in {"insert", "inserted"}}
Alive == server \notin {"stopped", "killed"}

-----------------------------------------------------------------------------
(* POST /orders.                                                             *)

(* Mutant: the early return is outside the try.                              *)
PlaceOrder_RefusedCounted(r) ==
  /\ server = "serving" /\ handler[r] = "none"
  /\ in_flight' = in_flight + 1
  /\ handler' = [handler EXCEPT ![r] = IF shutting_down THEN "done" ELSE "acquire"]
  /\ answer' = [answer EXCEPT ![r] = IF shutting_down THEN "503" ELSE "none"]
  /\ UNCHANGED <<orders, process>>

(* The lock of the counter is never held over an await: counting the request *)
(* in, looking at the flag and, if it is set, answering 503 and counting the *)
(* request out again are one step.                                           *)
PlaceOrder(r) ==
  /\ server = "serving" /\ handler[r] = "none"
  /\ IF shutting_down
       THEN /\ handler' = [handler EXCEPT ![r] = "done"]
            /\ answer' = [answer EXCEPT ![r] = "503"]
            /\ UNCHANGED in_flight
       ELSE /\ handler' = [handler EXCEPT ![r] = "acquire"]
            /\ in_flight' = in_flight + 1
            /\ UNCHANGED answer
  /\ UNCHANGED <<orders, process>>

Acquire(r) ==
  /\ handler[r] = "acquire" /\ pool = "open" /\ Cardinality(Connections) < PoolSize
  /\ handler' = [handler EXCEPT ![r] = "insert"]
  /\ UNCHANGED <<in_flight, orders, answer, process>>

Insert(r) ==
  /\ handler[r] = "insert" /\ Alive
  /\ handler' = [handler EXCEPT ![r] = "inserted"]
  /\ orders' = orders \cup {r}
  /\ UNCHANGED <<in_flight, answer, process>>

Finish(r, status) ==
  /\ handler' = [handler EXCEPT ![r] = "done"]
  /\ answer' = [answer EXCEPT ![r] = status]
  /\ in_flight' = in_flight - 1
  /\ UNCHANGED <<orders, process>>

(* Mutant: the answer does not wait for the insert.                          *)
Answer_Early(r) == handler[r] \in {"insert", "inserted"} /\ Alive /\ Finish(r, "201")

Answer(r) == handler[r] = "inserted" /\ Alive /\ Finish(r, "201")

(* The insert, or acquiring from a pool that closes, raises.                 *)
Raises(r) ==
  /\ Alive
  /\ handler[r] = "insert" \/ (handler[r] = "acquire" /\ pool # "open")
  /\ Finish(r, "500")

(* Mutant: no finally clause.                                                *)
Cancelled_NotCounted(r) ==
  /\ handler[r] = "cancelled" /\ Alive
  /\ handler' = [handler EXCEPT ![r] = "done"]
  /\ answer' = [answer EXCEPT ![r] = "lost"]
  /\ UNCHANGED <<in_flight, orders, process>>

(* A cancelled task ends through the finally clause.                         *)
Cancelled(r) == handler[r] = "cancelled" /\ Alive /\ Finish(r, "lost")

-----------------------------------------------------------------------------
(* The shutdown.                                                             *)

(* handle_sigterm; a second signal finds the flag set and returns.           *)
Sigterm ==
  /\ ~shutting_down
  /\ shutting_down' = TRUE
  /\ UNCHANGED <<requests, server, pool, age, since>>

(* stop_server, when the delay is over: uvicorn stops accepting.             *)
StopServer ==
  /\ shutting_down /\ server = "serving" /\ age >= DrainDelay
  /\ server' = "closing"
  /\ UNCHANGED <<requests, shutting_down, pool, age, since>>

(* uvicorn waits for the open requests, cancels those that are left after    *)
(* its timeout, and runs the lifespan exit.  A cancelled insert may be in.   *)
LeaveServer ==
  /\ server = "closing"
  /\ Open = {} \/ age >= DrainDelay + Graceful
  /\ server' = "lifespan" /\ since' = age
  /\ handler' = [r \in Requests |-> IF r \in Open THEN "cancelled" ELSE handler[r]]
  /\ \E committed \in SUBSET {r \in Requests : handler[r] = "insert"} : orders' = orders \cup committed
  /\ UNCHANGED <<in_flight, answer, shutting_down, pool, age>>

(* Mutant: the pool is closed whatever is in flight.                         *)
ClosePool_AtOnce ==
  /\ server \in {"closing", "lifespan"}
  /\ server' = "pool" /\ pool' = "closing"
  /\ UNCHANGED <<requests, shutting_down, age, since>>

(* The lifespan exit: wait for the counter, for a bounded time, then close.  *)
ClosePool ==
  /\ server = "lifespan"
  /\ in_flight = 0 \/ age >= since + DrainWait
  /\ server' = "pool" /\ pool' = "closing"
  /\ UNCHANGED <<requests, shutting_down, age, since>>

(* Pool.close() waits for the connections in use.                            *)
Exit ==
  /\ server = "pool" /\ Connections = {}
  /\ server' = "stopped" /\ pool' = "closed"
  /\ UNCHANGED <<requests, shutting_down, age, since>>

Kill ==
  /\ Alive /\ shutting_down /\ age >= GracePeriod
  /\ server' = "killed"
  /\ handler' = [r \in Requests |-> IF r \in Open THEN "done" ELSE handler[r]]
  /\ answer' = [r \in Requests |-> IF r \in Open THEN "lost" ELSE answer[r]]
  /\ UNCHANGED <<in_flight, orders, shutting_down, pool, age, since>>

(* Mutant: time passes the timers by.                                        *)
Tick_Late ==
  /\ shutting_down /\ Alive /\ age <= GracePeriod
  /\ age' = age + 1
  /\ UNCHANGED <<requests, shutting_down, server, pool, since>>

(* Timers fire when they are due: time does not pass them by.                *)
Due ==
  \/ server = "serving" /\ age >= DrainDelay
  \/ server = "closing" /\ (Open = {} \/ age >= DrainDelay + Graceful)
  \/ server = "lifespan" /\ (in_flight = 0 \/ age >= since + DrainWait)
  \/ server = "pool" /\ Connections = {}
  \/ age >= GracePeriod
Tick ==
  /\ shutting_down /\ Alive /\ ~Due
  /\ age' = age + 1
  /\ UNCHANGED <<requests, shutting_down, server, pool, since>>

Next ==
  \/ \E r \in Requests : PlaceOrder(r) \/ Acquire(r) \/ Insert(r) \/ Answer(r) \/ Raises(r) \/ Cancelled(r)
  \/ Sigterm \/ StopServer \/ LeaveServer \/ ClosePool \/ Exit \/ Kill \/ Tick

Spec == Init /\ [][Next]_vars

-----------------------------------------------------------------------------
(* Properties.                                                               *)

TypeOK ==
  /\ shutting_down \in BOOLEAN /\ in_flight \in 0..Cardinality(Requests)
  /\ server \in {"serving", "closing", "lifespan", "pool", "stopped", "killed"}
  /\ pool \in {"open", "closing", "closed"}
  /\ age \in 0..GracePeriod /\ since \in 0..GracePeriod
  /\ handler \in [Requests -> {"none", "acquire", "insert", "inserted", "cancelled", "done"}]
  /\ orders \subseteq Requests
  /\ answer \in [Requests -> {"none", "201", "500", "503", "lost"}]

(* An order that was answered 201 has its row, one that was refused has none, *)
(* whenever the signal comes and whatever the shutdown cuts off.             *)
AnswersAreTrue ==
  \A r \in Requests : (answer[r] = "201" => r \in orders) /\ (answer[r] = "503" => r \notin orders)

(* The shutdown cuts a request off only when it outlived the delay and       *)
(* uvicorn's timeout; and the pool is not closed under a request before.     *)
NoneCutShort ==
  /\ \A r \in Requests : answer[r] = "lost" => age >= DrainDelay + Graceful
  /\ pool # "open" /\ age < DrainDelay + Graceful => Open = {}

(* The counter the lifespan waits for is exact as long as the process lives: *)
(* every path out of the handler, a cancellation too, counts down.  The      *)
(* bounded wait is therefore cut off only by a task that does not end.       *)
DrainWaitsForRequests ==
  /\ server # "killed" => in_flight = Cardinality(Open)
  /\ server = "stopped" /\ Open # {} => age >= since + DrainWait

(* A process that is killed was kept by a request: otherwise it has exited   *)
(* by itself within the grace period.                                        *)
ExitsBeforeKill == server = "killed" => \E r \in Requests : answer[r] = "lost"

(* What a deployment may rely on: true answers, an exact drain, a clean exit. *)
OrderlyShutdown ==
  AnswersAreTrue /\ NoneCutShort /\ DrainWaitsForRequests /\ ExitsBeforeKill
=============================================================================
