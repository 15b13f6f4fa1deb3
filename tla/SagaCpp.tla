------------------------------- MODULE SagaCpp -------------------------------
(***************************************************************************)
(* The C++ saga orchestrator.  Unlike the Python edition it does every     *)
(* transition, the compensations included, in one transaction under the    *)
(* row lock, rolls back and stops at the first statement that fails, and   *)
(* looks for RUNNING and COMPENSATING sagas when it starts - from a thread *)
(* that runs while the server already answers, so the thread of a request  *)
(* and the resume thread can drive the same saga.                          *)
(***************************************************************************)
EXTENDS SagaLog

CONSTANTS
  Sagas,        \* saga ids
  Request,      \* the thread of the POST handler that created a saga
  Resume,       \* the detached thread of resumeRunningSagas
  MaxCrashes,   \* bound: process crashes explored
  MaxDbErrors,  \* bound: failing statements explored
  NoDriver      \* the row lock is free

Drivers == {Request, Resume}

ASSUME BoundsAssumption == MaxCrashes \in Nat /\ MaxDbErrors \in Nat
ASSUME DriversAssumption ==
  /\ Request # Resume
  /\ NoDriver \notin Drivers

VARIABLES
  status, step_index, failing,  \* the sagas row; failing: its context asks to fail
  log,       \* saga_log of each saga, in id order
  lock,      \* holder of the row lock taken by SELECT ... FOR UPDATE
  up,        \* the process runs
  scan,      \* the resume thread: "waiting" (runAfter), "resuming" or "done"
  todo,      \* ids the scan returned and the thread has not driven yet
  pc,        \* where each driver of each saga is
  crashes, dbErrors

row == <<status, step_index, failing>>
faults == <<crashes, dbErrors>>
vars == <<row, log, lock, up, scan, todo, pc, faults>>

\* "executed" and "undone": the step, or all compensations, ran in memory and
\* nothing is committed yet.
InTransaction == {"locked", "executed", "undone"}
PCs == {"idle", "begin"} \cup InTransaction

ResumeIdle == \A s \in Sagas : pc[Resume][s] = "idle"

Init ==
  /\ status = [s \in Sagas |-> "none"]
  /\ step_index = [s \in Sagas |-> 0]
  /\ failing = {}
  /\ log = [s \in Sagas |-> <<>>]
  /\ lock = [s \in Sagas |-> NoDriver]
  /\ up = FALSE
  /\ scan = "done"
  /\ todo = {}
  /\ pc = [d \in Drivers |-> [s \in Sagas |-> "idle"]]
  /\ crashes = 0
  /\ dbErrors = 0

Goto(d, s, l) == pc' = [pc EXCEPT ![d][s] = l]

----------------------------------------------------------------------------
\* main(): the timer is armed and the server listens at once.
Boot ==
  /\ ~up
  /\ up' = TRUE
  /\ scan' = "waiting"
  /\ UNCHANGED <<row, log, lock, todo, pc, faults>>

\* Mutant: the scan of the Python edition.
Scan_RunningOnly ==
  /\ up
  /\ scan = "waiting"
  /\ scan' = "resuming"
  /\ todo' = {s \in Sagas : status[s] = "RUNNING"}
  /\ UNCHANGED <<row, log, lock, up, pc, faults>>

\* resumeRunningSagas: one SELECT, whatever requests have done meanwhile.
Scan ==
  /\ up
  /\ scan = "waiting"
  /\ scan' = "resuming"
  /\ todo' = {s \in Sagas : status[s] \in {"RUNNING", "COMPENSATING"}}
  /\ UNCHANGED <<row, log, lock, up, pc, faults>>

\* The SELECT of the scan fails: the thread returns.
ScanFails ==
  /\ up
  /\ scan = "waiting"
  /\ dbErrors < MaxDbErrors
  /\ dbErrors' = dbErrors + 1
  /\ scan' = "done"
  /\ UNCHANGED <<row, log, lock, up, todo, pc, crashes>>

ResumeNext(s) ==
  /\ scan = "resuming"
  /\ ResumeIdle
  /\ s \in todo
  /\ todo' = todo \ {s}
  /\ Goto(Resume, s, "begin")
  /\ UNCHANGED <<row, log, lock, up, scan, faults>>

ResumeDone ==
  /\ scan = "resuming"
  /\ ResumeIdle
  /\ todo = {}
  /\ scan' = "done"
  /\ UNCHANGED <<row, log, lock, up, todo, pc, faults>>

\* POST /sagas: INSERT, then advance() on the handler's thread.
CreateSaga(s) ==
  /\ up
  /\ status[s] = "none"
  /\ status' = [status EXCEPT ![s] = "RUNNING"]
  /\ failing' \in {failing, failing \cup {s}}
  /\ Goto(Request, s, "begin")
  /\ UNCHANGED <<step_index, log, lock, up, scan, todo, faults>>

----------------------------------------------------------------------------
(* advance(): one locked transaction per turn of the loop.                  *)

\* Mutant: a plain SELECT, without FOR UPDATE.
LockRow_NoForUpdate(d, s) ==
  /\ pc[d][s] = "begin"
  /\ lock' = [lock EXCEPT ![s] = d]
  /\ Goto(d, s, "locked")
  /\ UNCHANGED <<row, log, up, scan, todo, faults>>

LockRow(d, s) ==
  /\ pc[d][s] = "begin"
  /\ lock[s] = NoDriver
  /\ lock' = [lock EXCEPT ![s] = d]
  /\ Goto(d, s, "locked")
  /\ UNCHANGED <<row, log, up, scan, todo, faults>>

\* ROLLBACK or COMMIT ends the transaction.
Release(d, s, next) ==
  /\ lock' = [lock EXCEPT ![s] = NoDriver]
  /\ Goto(d, s, next)

\* A COMPLETED or COMPENSATED saga is left alone.
FindTerminal(d, s) ==
  /\ pc[d][s] = "locked"
  /\ status[s] \in Terminal
  /\ Release(d, s, "idle")
  /\ UNCHANGED <<row, log, up, scan, todo, faults>>

CompleteSaga(d, s) ==
  /\ pc[d][s] = "locked"
  /\ status[s] = "RUNNING"
  /\ step_index[s] >= NumSteps
  /\ status' = [status EXCEPT ![s] = "COMPLETED"]
  /\ Release(d, s, "idle")
  /\ UNCHANGED <<step_index, failing, log, up, scan, todo, faults>>

Fails(s) == s \in failing /\ step_index[s] + 1 = FailingStep

ExecuteStep(d, s) ==
  /\ pc[d][s] = "locked"
  /\ status[s] = "RUNNING"
  /\ step_index[s] < NumSteps
  /\ ~Fails(s)
  /\ Goto(d, s, "executed")
  /\ UNCHANGED <<row, log, lock, up, scan, todo, faults>>

\* Mutant: the index is incremented before the log row is written with it.
CommitStep_Late(d, s) ==
  /\ pc[d][s] = "executed"
  /\ step_index' = [step_index EXCEPT ![s] = @ + 1]
  /\ log' = [log EXCEPT ![s] = Append(@, Entry("execute", step_index'[s] + 1))]
  /\ Release(d, s, "begin")
  /\ UNCHANGED <<status, failing, up, scan, todo, faults>>

CommitStep(d, s) ==
  /\ pc[d][s] = "executed"
  /\ log' = [log EXCEPT ![s] = Append(@, Entry("execute", step_index[s] + 1))]
  /\ step_index' = [step_index EXCEPT ![s] = @ + 1]
  /\ Release(d, s, "begin")
  /\ UNCHANGED <<status, failing, up, scan, todo, faults>>

FailStep(d, s) ==
  /\ pc[d][s] = "locked"
  /\ status[s] = "RUNNING"
  /\ step_index[s] < NumSteps
  /\ Fails(s)
  /\ log' = [log EXCEPT ![s] = Append(@, Entry("failed", step_index[s] + 1))]
  /\ status' = [status EXCEPT ![s] = "COMPENSATING"]
  /\ Release(d, s, "begin")
  /\ UNCHANGED <<step_index, failing, up, scan, todo, faults>>

\* compensation_order(step_index): the rows the loop inserts.
CompensationRows(k) == [j \in 1..k |-> Entry("compensate", k + 1 - j)]

\* The loop over compensation_order has run inside the transaction.
RunCompensations(d, s) ==
  /\ pc[d][s] = "locked"
  /\ status[s] = "COMPENSATING"
  /\ Goto(d, s, "undone")
  /\ UNCHANGED <<row, log, lock, up, scan, todo, faults>>

\* Mutant: the compensations commit, the status update is left to later.
CommitCompensation_RowsOnly(d, s) ==
  /\ pc[d][s] = "undone"
  /\ log' = [log EXCEPT ![s] = @ \o CompensationRows(step_index[s])]
  /\ Release(d, s, "begin")
  /\ UNCHANGED <<row, up, scan, todo, faults>>

\* All compensation rows and COMPENSATED commit together.
CommitCompensation(d, s) ==
  /\ pc[d][s] = "undone"
  /\ log' = [log EXCEPT ![s] = @ \o CompensationRows(step_index[s])]
  /\ status' = [status EXCEPT ![s] = "COMPENSATED"]
  /\ Release(d, s, "idle")
  /\ UNCHANGED <<step_index, failing, up, scan, todo, faults>>

----------------------------------------------------------------------------
(* Faults.                                                                  *)

\* A statement fails: abandon() rolls back, advance() returns.
StatementFails(d, s) ==
  /\ pc[d][s] # "idle"
  /\ dbErrors < MaxDbErrors
  /\ dbErrors' = dbErrors + 1
  /\ lock' = IF lock[s] = d THEN [lock EXCEPT ![s] = NoDriver] ELSE lock
  /\ Goto(d, s, "idle")
  /\ UNCHANGED <<row, log, up, scan, todo, crashes>>

\* Postgres rolls back every open transaction of the dead process.
Crash ==
  /\ up
  /\ crashes < MaxCrashes
  /\ crashes' = crashes + 1
  /\ up' = FALSE
  /\ scan' = "done"
  /\ todo' = {}
  /\ pc' = [d \in Drivers |-> [s \in Sagas |-> "idle"]]
  /\ lock' = [s \in Sagas |-> NoDriver]
  /\ UNCHANGED <<row, log, dbErrors>>

----------------------------------------------------------------------------
Advance(d, s) ==
  \/ LockRow(d, s) \/ FindTerminal(d, s) \/ CompleteSaga(d, s)
  \/ ExecuteStep(d, s) \/ CommitStep(d, s) \/ FailStep(d, s)
  \/ RunCompensations(d, s) \/ CommitCompensation(d, s)

ResumeThread == Scan \/ ResumeDone \/ \E s \in Sagas : ResumeNext(s)

Next ==
  \/ Boot \/ ResumeThread \/ ScanFails \/ Crash
  \/ \E s \in Sagas : CreateSaga(s)
  \/ \E d \in Drivers, s \in Sagas : Advance(d, s) \/ StatementFails(d, s)

Spec == Init /\ [][Next]_vars

\* A stopped container is started again and its threads run.
Fairness ==
  /\ WF_vars(Boot)
  /\ WF_vars(ResumeThread)
  /\ \A d \in Drivers, s \in Sagas : WF_vars(Advance(d, s))

FairSpec == Spec /\ Fairness

----------------------------------------------------------------------------
(* Correctness.                                                             *)

\* The shape of every variable.
TypeOK ==
  /\ status \in [Sagas -> Statuses]
  /\ step_index \in [Sagas -> 0..NumSteps]
  /\ failing \in SUBSET Sagas
  /\ log \in [Sagas -> Seq(Entries)]
  /\ lock \in [Sagas -> Drivers \cup {NoDriver}]
  /\ up \in BOOLEAN
  /\ scan \in {"waiting", "resuming", "done"}
  /\ todo \in SUBSET Sagas
  /\ pc \in [Drivers -> [Sagas -> PCs]]
  /\ crashes \in 0..MaxCrashes
  /\ dbErrors \in 0..MaxDbErrors

\* The log l a saga with status st and step_index k has.
RowLog(st, k, l) ==
  /\ st \in GoingForward => ForwardLog(l, k)
  /\ st = "COMPLETED" => k = NumSteps
  /\ st \in Unwinding => UnwindLog(l, k) /\ ReverseLog(l, k)
  /\ st = "COMPENSATING" => Len(l) = k + 1
  /\ st = "COMPENSATED" => Len(l) = 2 * k + 1

\* The log of a saga is a function of its row: its committed steps once each,
\* then the failure, then - all or none - the compensations of these steps in
\* reverse, however many threads drove it and whatever failed on the way.
LogMatchesRow == \A s \in Sagas : RowLog(status[s], step_index[s], log[s])

\* The C++ orchestrator implements the abstract saga: the compensations are
\* counted where they are recorded, in the log.
Promise == INSTANCE Saga WITH
  phase <- status,
  committed <- step_index,
  compensated <- [s \in Sagas |->
    IF status[s] \in Unwinding THEN Len(log[s]) - step_index[s] - 1 ELSE 0]
ImplementsSaga == Promise!Spec

\* Every saga that was started ends, through any number of crashes that is
\* finite (the startup scan finds RUNNING and COMPENSATING sagas), unless a
\* statement failed, after which only the next start would drive it.
EverySagaTerminates ==
  \A s \in Sagas :
    status[s] # "none" ~> (status[s] \in Terminal \/ dbErrors > 0)
=============================================================================
