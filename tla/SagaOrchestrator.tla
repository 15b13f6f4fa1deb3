-------------------------- MODULE SagaOrchestrator --------------------------
(***************************************************************************)
(* The Python saga orchestrator: POST /sagas inserts a row and drives it   *)
(* step by step (advance), unwinds it when a step fails (compensate), and  *)
(* a starting process first drives the sagas it finds RUNNING (lifespan).  *)
(* The database row and its log survive a crash; the coroutine does not.   *)
(*                                                                         *)
(* A driver is the coroutine of process p that works on saga s; its        *)
(* program counter is pc[p][s].  One awaited database call is one action,  *)
(* so any other driver can run, or the process can die, in between.        *)
(***************************************************************************)
EXTENDS SagaLog

CONSTANTS
  Sagas,        \* saga ids (uuid4 in the code)
  Processes,    \* orchestrator processes; one container is deployed
  MaxCrashes,   \* bound: process crashes explored
  MaxDbErrors,  \* bound: statements that raise explored
  NoProc        \* the row lock is free

ASSUME BoundsAssumption == MaxCrashes \in Nat /\ MaxDbErrors \in Nat
ASSUME NoProcAssumption == NoProc \notin Processes

VARIABLES
  status,    \* sagas.status, "none" while the row does not exist
  step_index, \* sagas.step_index: how many steps are committed
  failing,   \* sagas whose context carries fail_shipping
  log,       \* saga_log of each saga, in id order
  done,      \* how often each step's command was sent to its service
  undone,    \* how often each step's compensating command was sent
  lock,      \* holder of the row lock taken by SELECT ... FOR UPDATE
  proc,      \* "down", "resuming" (lifespan before yield) or "serving"
  todo,      \* ids fetched by lifespan and not driven yet
  pc,        \* where each driver is
  left,      \* compensate(): steps still to undo, its loop variable i + 1
  crashes, dbErrors

vars == <<status, step_index, failing, log, done, undone, lock, proc, todo, pc,
          left, crashes, dbErrors>>
row == <<status, step_index, failing>>
effects == <<done, undone>>
faults == <<crashes, dbErrors>>

PCs == {"idle", "begin", "locked", "executed", "check", "comp", "undo", "sent"}
\* The driver holds the row lock between fetchrow ... FOR UPDATE and commit.
InTransaction == {"locked", "executed"}

Idle(p) == \A s \in Sagas : pc[p][s] = "idle"

Init ==
  /\ status = [s \in Sagas |-> "none"]
  /\ step_index = [s \in Sagas |-> 0]
  /\ failing = {}
  /\ log = [s \in Sagas |-> <<>>]
  /\ done = [s \in Sagas |-> [i \in Steps |-> 0]]
  /\ undone = [s \in Sagas |-> [i \in Steps |-> 0]]
  /\ lock = [s \in Sagas |-> NoProc]
  /\ proc = [p \in Processes |-> "down"]
  /\ todo = [p \in Processes |-> {}]
  /\ pc = [p \in Processes |-> [s \in Sagas |-> "idle"]]
  /\ left = [p \in Processes |-> [s \in Sagas |-> 0]]
  /\ crashes = 0
  /\ dbErrors = 0

Goto(p, s, l) == pc' = [pc EXCEPT ![p][s] = l]

----------------------------------------------------------------------------
(* The process: startup scan, resume loop, serving.                         *)

\* Mutant: the scan asks for the wrong status.
Boot_NoRunning(p) ==
  /\ proc[p] = "down"
  /\ proc' = [proc EXCEPT ![p] = "resuming"]
  /\ todo' = [todo EXCEPT ![p] = {s \in Sagas : status[s] = "COMPENSATING"}]
  /\ UNCHANGED <<row, log, effects, lock, pc, left, faults>>

\* lifespan fetches the ids of the RUNNING sagas, and of no others.
Boot(p) ==
  /\ proc[p] = "down"
  /\ proc' = [proc EXCEPT ![p] = "resuming"]
  /\ todo' = [todo EXCEPT ![p] = {s \in Sagas : status[s] = "RUNNING"}]
  /\ UNCHANGED <<row, log, effects, lock, pc, left, faults>>

\* Mutant: a resumed saga starts over.
ResumeNext_StartsOver(p, s) ==
  /\ proc[p] = "resuming"
  /\ Idle(p)
  /\ s \in todo[p]
  /\ todo' = [todo EXCEPT ![p] = @ \ {s}]
  /\ step_index' = [step_index EXCEPT ![s] = 0]
  /\ Goto(p, s, "begin")
  /\ UNCHANGED <<status, failing, log, effects, lock, proc, left, faults>>

\* The loop awaits advance() of one id before it takes the next.
ResumeNext(p, s) ==
  /\ proc[p] = "resuming"
  /\ Idle(p)
  /\ s \in todo[p]
  /\ todo' = [todo EXCEPT ![p] = @ \ {s}]
  /\ Goto(p, s, "begin")
  /\ UNCHANGED <<row, log, effects, lock, proc, left, faults>>

StartServing(p) ==
  /\ proc[p] = "resuming"
  /\ Idle(p)
  /\ todo[p] = {}
  /\ proc' = [proc EXCEPT ![p] = "serving"]
  /\ UNCHANGED <<row, log, effects, lock, todo, pc, left, faults>>

\* POST /sagas: an autocommitted INSERT, then advance().
CreateSaga(p, s) ==
  /\ proc[p] = "serving"
  /\ status[s] = "none"
  /\ status' = [status EXCEPT ![s] = "RUNNING"]
  /\ failing' \in {failing, failing \cup {s}}
  /\ Goto(p, s, "begin")
  /\ UNCHANGED <<step_index, log, effects, lock, proc, todo, left, faults>>

----------------------------------------------------------------------------
(* advance(): one transaction per step, under the row lock.                 *)

\* SELECT ... FOR UPDATE of a row that is no longer RUNNING: return.
FindNotRunning(p, s) ==
  /\ pc[p][s] = "begin"
  /\ lock[s] = NoProc
  /\ status[s] # "RUNNING"
  /\ Goto(p, s, "idle")
  /\ UNCHANGED <<row, log, effects, lock, proc, todo, left, faults>>

\* Mutant: a plain SELECT, without FOR UPDATE.
LockRow_NoForUpdate(p, s) ==
  /\ pc[p][s] = "begin"
  /\ status[s] = "RUNNING"
  /\ lock' = [lock EXCEPT ![s] = p]
  /\ Goto(p, s, "locked")
  /\ UNCHANGED <<row, log, effects, proc, todo, left, faults>>

LockRow(p, s) ==
  /\ pc[p][s] = "begin"
  /\ lock[s] = NoProc
  /\ status[s] = "RUNNING"
  /\ lock' = [lock EXCEPT ![s] = p]
  /\ Goto(p, s, "locked")
  /\ UNCHANGED <<row, log, effects, proc, todo, left, faults>>

\* Mutant: the test for the end of STEPS is off by one.
AllDone_OffByOne(s) == step_index[s] > NumSteps

\* if step_index >= len(STEPS)
AllDone(s) == step_index[s] >= NumSteps

CompleteSaga(p, s) ==
  /\ pc[p][s] = "locked"
  /\ AllDone(s)
  /\ status' = [status EXCEPT ![s] = "COMPLETED"]
  /\ lock' = [lock EXCEPT ![s] = NoProc]
  /\ Goto(p, s, "idle")
  /\ UNCHANGED <<step_index, failing, log, effects, proc, todo, left, faults>>

Fails(s) == s \in failing /\ step_index[s] + 1 = FailingStep

\* execute_step returns: the owning service has acted, nothing is committed.
ExecuteStep(p, s) ==
  /\ pc[p][s] = "locked"
  /\ ~AllDone(s)
  /\ ~Fails(s)
  /\ done' = [done EXCEPT ![s][step_index[s] + 1] = @ + 1]
  /\ Goto(p, s, "executed")
  /\ UNCHANGED <<row, log, undone, lock, proc, todo, left, faults>>

\* The log row and the new step_index commit together.
CommitStep(p, s) ==
  /\ pc[p][s] = "executed"
  /\ log' = [log EXCEPT ![s] = Append(@, Entry("execute", step_index[s] + 1))]
  /\ step_index' = [step_index EXCEPT ![s] = @ + 1]
  /\ lock' = [lock EXCEPT ![s] = NoProc]
  /\ Goto(p, s, "check")
  /\ UNCHANGED <<status, failing, effects, proc, todo, left, faults>>

\* execute_step raises: the failure row and COMPENSATING commit together.
FailStep(p, s) ==
  /\ pc[p][s] = "locked"
  /\ ~AllDone(s)
  /\ Fails(s)
  /\ log' = [log EXCEPT ![s] = Append(@, Entry("failed", step_index[s] + 1))]
  /\ status' = [status EXCEPT ![s] = "COMPENSATING"]
  /\ lock' = [lock EXCEPT ![s] = NoProc]
  /\ Goto(p, s, "check")
  /\ UNCHANGED <<step_index, failing, effects, proc, todo, left, faults>>

\* The status is read again after the transaction, without the lock.
CheckStatus(p, s) ==
  /\ pc[p][s] = "check"
  /\ Goto(p, s, CASE status[s] = "RUNNING" -> "begin"
                  [] status[s] = "COMPENSATING" -> "comp"
                  [] OTHER -> "idle")
  /\ UNCHANGED <<row, log, effects, lock, proc, todo, left, faults>>

----------------------------------------------------------------------------
(* compensate(): no transaction and no lock; every statement autocommits.   *)

\* Mutant: the loop starts at the failed step instead of the one before it.
StartCompensation_FromFailed(p, s) ==
  /\ pc[p][s] = "comp"
  /\ left' = [left EXCEPT ![p][s] = step_index[s] + 1]
  /\ Goto(p, s, "undo")
  /\ UNCHANGED <<row, log, effects, lock, proc, todo, faults>>

StartCompensation(p, s) ==
  /\ pc[p][s] = "comp"
  /\ left' = [left EXCEPT ![p][s] = step_index[s]]
  /\ Goto(p, s, "undo")
  /\ UNCHANGED <<row, log, effects, lock, proc, todo, faults>>

SendCompensation(p, s) ==
  /\ pc[p][s] = "undo"
  /\ left[p][s] > 0
  /\ undone' = [undone EXCEPT ![s][left[p][s]] = @ + 1]
  /\ Goto(p, s, "sent")
  /\ UNCHANGED <<row, log, done, lock, proc, todo, left, faults>>

LogCompensation(p, s) ==
  /\ pc[p][s] = "sent"
  /\ log' = [log EXCEPT ![s] = Append(@, Entry("compensate", left[p][s]))]
  /\ left' = [left EXCEPT ![p][s] = @ - 1]
  /\ Goto(p, s, "undo")
  /\ UNCHANGED <<row, effects, lock, proc, todo, faults>>

\* Mutant: COMPENSATED is recorded before the loop has run.
FinishCompensation_Early(p, s) ==
  /\ pc[p][s] = "undo"
  /\ status' = [status EXCEPT ![s] = "COMPENSATED"]
  /\ Goto(p, s, "idle")
  /\ UNCHANGED <<step_index, failing, log, effects, lock, proc, todo, left, faults>>

FinishCompensation(p, s) ==
  /\ pc[p][s] = "undo"
  /\ left[p][s] = 0
  /\ status' = [status EXCEPT ![s] = "COMPENSATED"]
  /\ Goto(p, s, "idle")
  /\ UNCHANGED <<step_index, failing, log, effects, lock, proc, todo, left, faults>>

----------------------------------------------------------------------------
(* Faults.                                                                  *)

\* Postgres rolls back what process p had open and frees its locks.
Freed(p) == [s \in Sagas |-> IF lock[s] = p THEN NoProc ELSE lock[s]]

Stop(p) ==
  /\ proc' = [proc EXCEPT ![p] = "down"]
  /\ todo' = [todo EXCEPT ![p] = {}]
  /\ pc' = [pc EXCEPT ![p] = [s \in Sagas |-> "idle"]]
  /\ lock' = Freed(p)

Crash(p) ==
  /\ proc[p] # "down"
  /\ crashes < MaxCrashes
  /\ crashes' = crashes + 1
  /\ Stop(p)
  /\ UNCHANGED <<row, log, effects, left, dbErrors>>

\* A statement raises.  Nothing catches it: the transaction, if any, rolls
\* back and the request ends with a 500.
RequestFails(p, s) ==
  /\ proc[p] = "serving"
  /\ pc[p][s] # "idle"
  /\ dbErrors < MaxDbErrors
  /\ dbErrors' = dbErrors + 1
  /\ Goto(p, s, "idle")
  /\ lock' = IF lock[s] = p THEN [lock EXCEPT ![s] = NoProc] ELSE lock
  /\ UNCHANGED <<row, log, effects, proc, todo, left, crashes>>

\* In lifespan the exception aborts the application's startup.
StartupFails(p, s) ==
  /\ proc[p] = "resuming"
  /\ pc[p][s] # "idle"
  /\ dbErrors < MaxDbErrors
  /\ dbErrors' = dbErrors + 1
  /\ Stop(p)
  /\ UNCHANGED <<row, log, effects, left, crashes>>

----------------------------------------------------------------------------
Drive(p, s) ==
  \/ FindNotRunning(p, s) \/ LockRow(p, s) \/ CompleteSaga(p, s)
  \/ ExecuteStep(p, s) \/ CommitStep(p, s) \/ FailStep(p, s)
  \/ CheckStatus(p, s) \/ StartCompensation(p, s) \/ SendCompensation(p, s)
  \/ LogCompensation(p, s) \/ FinishCompensation(p, s)

Startup(p) ==
  \/ Boot(p)
  \/ \E s \in Sagas : ResumeNext(p, s)
  \/ StartServing(p)

Fault(p) ==
  \/ Crash(p)
  \/ \E s \in Sagas : RequestFails(p, s) \/ StartupFails(p, s)

Next ==
  \E p \in Processes :
    \/ Startup(p)
    \/ \E s \in Sagas : CreateSaga(p, s) \/ Drive(p, s)
    \/ Fault(p)

Spec == Init /\ [][Next]_vars

\* A stopped container is started again and the event loop runs every ready
\* coroutine; nobody has to call POST and nothing has to fail.
Fairness ==
  /\ \A p \in Processes : WF_vars(Startup(p))
  /\ \A p \in Processes, s \in Sagas : WF_vars(Drive(p, s))

FairSpec == Spec /\ Fairness

----------------------------------------------------------------------------
(* Correctness.                                                             *)

\* The shape of every variable.
TypeOK ==
  /\ status \in [Sagas -> Statuses]
  /\ step_index \in [Sagas -> 0..NumSteps]
  /\ failing \in SUBSET Sagas
  /\ log \in [Sagas -> Seq(Entries)]
  /\ done \in [Sagas -> [Steps -> Nat]]
  /\ undone \in [Sagas -> [Steps -> Nat]]
  /\ lock \in [Sagas -> Processes \cup {NoProc}]
  /\ proc \in [Processes -> {"down", "resuming", "serving"}]
  /\ todo \in [Processes -> SUBSET Sagas]
  /\ pc \in [Processes -> [Sagas -> PCs]]
  /\ left \in [Processes -> [Sagas -> 0..NumSteps]]
  /\ crashes \in 0..MaxCrashes
  /\ dbErrors \in 0..MaxDbErrors

\* The log of a saga going forward is exactly its step_index committed steps,
\* in order and once each, whatever crashed and whoever drove it; a COMPLETED
\* saga has them all (advance).
ForwardLogExact ==
  \A s \in Sagas :
    /\ status[s] \in GoingForward =>
         ForwardLog(log[s], step_index[s])
    /\ status[s] = "COMPLETED" => step_index[s] = NumSteps

\* The log of a failed saga is its committed steps, the failure, and then
\* compensations of committed steps only: cancel_shipping never runs for a
\* shipment that was not booked (compensate).
UnwindsOnlyCommitted ==
  \A s \in Sagas :
    status[s] \in Unwinding =>
      /\ step_index[s] < NumSteps
      /\ UnwindLog(log[s], step_index[s])

\* With one orchestrator process the compensations run once each, last step
\* first, and COMPENSATED is recorded only after the last of them.
CompensatedOnceInReverse ==
  \A s \in Sagas :
    /\ status[s] \in Unwinding => ReverseLog(log[s], step_index[s])
    /\ status[s] = "COMPENSATED" => Len(log[s]) = 2 * step_index[s] + 1

\* No command is undone that was never sent, and a saga that is not failed
\* has undone nothing.
UndoFollowsDo ==
  \A s \in Sagas, i \in Steps :
    undone[s][i] > 0 =>
      /\ done[s][i] > 0
      /\ status[s] \in Unwinding

\* A resumed saga does not start over: the command of a step whose log row is
\* committed is never sent again (advance picks up at step_index).
Committed(s, i) == \E j \in DOMAIN log[s] : log[s][j] = Entry("execute", i)
CommittedStepsNotRepeated ==
  [][\A s \in Sagas, i \in Steps :
       Committed(s, i) => done'[s][i] = done[s][i]]_vars

\* One process implements the abstract saga: the compensations of a saga are
\* the rows of its log after the failure.
Promise == INSTANCE Saga WITH
  phase <- status,
  committed <- step_index,
  compensated <- [s \in Sagas |->
    IF status[s] \in Unwinding THEN Len(log[s]) - step_index[s] - 1 ELSE 0]
ImplementsSaga == Promise!Spec

\* A saga left RUNNING by a crash is picked up again: it does not stay
\* RUNNING for ever (the startup scan), unless a statement raised, after which
\* only the next start would drive it.
RunningSagaMovesOn ==
  \A s \in Sagas :
    status[s] = "RUNNING" ~> (status[s] # "RUNNING" \/ dbErrors > 0)

\* README of the example, line 6: the saga state is persisted so it resumes
\* after a crash.  Every saga that was started reaches a terminal status.
EverySagaTerminates ==
  \A s \in Sagas :
    status[s] # "none" ~> status[s] \in Terminal
=============================================================================
