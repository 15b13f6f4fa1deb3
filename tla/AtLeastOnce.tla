----------------------------- MODULE AtLeastOnce -----------------------------
(***************************************************************************)
(* What "commit after the side effect" promises of a consumer group: an    *)
(* offset is committed only when every message before it has been handled, *)
(* commits never go back, and every message is handled in the end.         *)
(***************************************************************************)
EXTENDS Naturals, Sequences

CONSTANTS
  Partitions,
  Messages,
  Skipped     \* messages that need no handling

VARIABLES
  topic,      \* the messages of each partition
  handled,    \* messages whose side effect has happened
  committed   \* how many messages of each partition are committed

vars == <<topic, handled, committed>>

Init ==
  /\ topic = [p \in Partitions |-> <<>>]
  /\ handled = {}
  /\ committed = [p \in Partitions |-> 0]

Publish(p, m) ==
  /\ topic' = [topic EXCEPT ![p] = Append(@, m)]
  /\ UNCHANGED <<handled, committed>>

Handle(p, i) ==
  /\ i \in DOMAIN topic[p]
  /\ handled' = handled \cup {topic[p][i]}
  /\ UNCHANGED <<topic, committed>>

\* Once k messages of a partition are handled their offset may be committed.
HandledUpTo(p, k) == k <= Len(topic[p]) /\ \A i \in 1..k : topic[p][i] \in handled \cup Skipped
Commit(p, k) ==
  /\ HandledUpTo(p, k)
  /\ committed' = [committed EXCEPT ![p] = k]
  /\ UNCHANGED <<topic, handled>>

Next ==
  \E p \in Partitions :
    \/ \E m \in Messages : Publish(p, m)
    \/ \E i \in DOMAIN topic[p] : Handle(p, i)
    \/ \E k \in committed[p] .. Len(topic[p]) : Commit(p, k)

Spec == Init /\ [][Next]_vars

\* No committed message is unhandled.
CommittedAreHandled ==
  \A p \in Partitions : HandledUpTo(p, committed[p])

\* Every published message is handled.
AllHandled ==
  \A p \in Partitions, m \in Messages \ Skipped :
    (\E i \in DOMAIN topic[p] : topic[p][i] = m) ~> m \in handled
=============================================================================
