-------------------------------- MODULE Saga --------------------------------
(* What a saga promises, whoever orchestrates it: its steps commit one by   *)
(* one; a failure stops it and the committed steps, and only these, are     *)
(* compensated once each before it is reported COMPENSATED.                 *)
EXTENDS Naturals

CONSTANTS Sagas, NumSteps

VARIABLES
  phase,        \* sagas.status
  committed,    \* how many steps have committed
  compensated   \* how many of them have been compensated

vars == <<phase, committed, compensated>>

Init ==
  /\ phase = [s \in Sagas |-> "none"]
  /\ committed = [s \in Sagas |-> 0]
  /\ compensated = [s \in Sagas |-> 0]

Start(s) ==
  /\ phase[s] = "none"
  /\ phase' = [phase EXCEPT ![s] = "RUNNING"]
  /\ UNCHANGED <<committed, compensated>>

Commit(s) ==
  /\ phase[s] = "RUNNING"
  /\ committed[s] < NumSteps
  /\ committed' = [committed EXCEPT ![s] = @ + 1]
  /\ UNCHANGED <<phase, compensated>>

Complete(s) ==
  /\ phase[s] = "RUNNING"
  /\ committed[s] = NumSteps
  /\ phase' = [phase EXCEPT ![s] = "COMPLETED"]
  /\ UNCHANGED <<committed, compensated>>

Fail(s) ==
  /\ phase[s] = "RUNNING"
  /\ committed[s] < NumSteps
  /\ phase' = [phase EXCEPT ![s] = "COMPENSATING"]
  /\ UNCHANGED <<committed, compensated>>

\* Some more of the committed steps are compensated.
Compensate(s) ==
  /\ phase[s] = "COMPENSATING"
  /\ \E n \in compensated[s] .. committed[s] :
       compensated' = [compensated EXCEPT ![s] = n]
  /\ UNCHANGED <<phase, committed>>

\* The rest of them is compensated, and the saga says so.
Finish(s) ==
  /\ phase[s] = "COMPENSATING"
  /\ compensated' = [compensated EXCEPT ![s] = committed[s]]
  /\ phase' = [phase EXCEPT ![s] = "COMPENSATED"]
  /\ UNCHANGED committed

Next ==
  \E s \in Sagas :
    Start(s) \/ Commit(s) \/ Complete(s) \/ Fail(s) \/ Compensate(s) \/ Finish(s)

Spec == Init /\ [][Next]_vars
=============================================================================
