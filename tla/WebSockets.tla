----------------------------- MODULE WebSockets -----------------------------
(* The websocket server of example 16: pods that share a Redis pub/sub       *)
(* channel.  Each pod numbers, for each client, the frames it sends and      *)
(* keeps the last of them, so that a client that comes back with its last    *)
(* sequence number can be sent what it missed.                               *)
(* All code of a pod runs on one event loop: between two awaits a coroutine  *)
(* runs alone.  Numbering, buffering and handing a frame to the socket of    *)
(* one client is such a stretch.                                             *)
EXTENDS Naturals, Sequences

CONSTANTS
  Pods, Clients,
  All,             \* the target of a broadcast (no target in the request)
  NumConnections,  \* bound: connections opened in a behaviour
  Targets,         \* bound: the targets that requests name
  NumMessages,     \* bound: POST /send requests in a behaviour
  BufferSize       \* BUFFER_SIZE (100 in the code)

Connections == 1..NumConnections
Messages == 1..NumMessages

VARIABLES
  clients,          \* [pod][client]: the registered connection, 0 if none
  seq_counters,     \* [pod][client]: frames numbered so far
  message_buffers,  \* [pod][client]: the last frames, [seq, msg]
  place,            \* [connection]: the <<pod, client>> it joins, <<>> if unused
  link,             \* [connection]: "up", "lost" (the pod has not noticed), "closed"
  missed,           \* [connection]: frames its handler has still to replay
  inbox,            \* [connection]: frames the client received on it
  lastSeq,          \* [client]: the sequence number it would resume from
  sent,             \* the published messages, [pod, target]
  channel,          \* [pod]: what Redis has still to hand to its subscriber
  local,            \* messages whose POST handler waits for the publish to return
  todo              \* [message][pod]: <<client, connection>> pairs of an open loop

pods == <<clients, seq_counters, message_buffers>>
sockets == <<place, link, missed>>
tasks == <<sent, channel, local, todo>>
vars == <<pods, sockets, inbox, lastSeq, tasks>>

Init ==
  /\ clients = [p \in Pods |-> [c \in Clients |-> 0]]
  /\ seq_counters = clients
  /\ message_buffers = [p \in Pods |-> [c \in Clients |-> <<>>]]
  /\ place = [i \in Connections |-> <<>>]
  /\ link = [i \in Connections |-> "closed"]
  /\ missed = [i \in Connections |-> <<>>]
  /\ inbox = [i \in Connections |-> <<>>]
  /\ lastSeq = [c \in Clients |-> 0]
  /\ sent = <<>>
  /\ channel = [p \in Pods |-> <<>>]
  /\ local = {}
  /\ todo = [m \in Messages |-> [p \in Pods |-> {}]]

-----------------------------------------------------------------------------
(* Sending.                                                                  *)

(* Mutant: the slice keeps the wrong end.                                    *)
Trim_KeepsOldest(frames) ==
  IF Len(frames) > BufferSize THEN SubSeq(frames, 1, BufferSize) ELSE frames

Trim(frames) ==
  IF Len(frames) > BufferSize THEN Tail(frames) ELSE frames

(* A frame on socket i reaches the client if the link is still there.        *)
Receive(i, c, frame) ==
  IF link[i] = "up"
    THEN /\ inbox' = [inbox EXCEPT ![i] = Append(@, frame)]
         /\ lastSeq' = [lastSeq EXCEPT ![c] = frame.seq]
    ELSE UNCHANGED <<inbox, lastSeq>>

(* One round of a loop over the clients.  The socket is that of the snapshot *)
(* taken when the loop began.                                                *)
Emit(p, m, c, i) ==
  LET frame == [seq |-> seq_counters[p][c] + 1, msg |-> m] IN
  /\ seq_counters' = [seq_counters EXCEPT ![p][c] = frame.seq]
  /\ message_buffers' = [message_buffers EXCEPT ![p][c] = Trim(Append(@, frame))]
  /\ Receive(i, c, frame)

Recipients(p, target) ==
  {<<c, clients[p][c]>> : c \in {d \in Clients : clients[p][d] # 0 /\ target \in {d, All}}}

(* Mutant: an exception of a dead socket ends the loop.                      *)
FanOut_EndsAtDeadSocket(p, m, pairs) ==
  IF pairs = {}
    THEN UNCHANGED <<seq_counters, message_buffers, inbox, lastSeq, todo>>
    ELSE \E pair \in pairs :
           /\ Emit(p, m, pair[1], pair[2])
           /\ todo' = [todo EXCEPT ![m][p] = IF link[pair[2]] = "up" THEN pairs \ {pair} ELSE {}]

FanOut(p, m, pairs) ==
  IF pairs = {}
    THEN UNCHANGED <<seq_counters, message_buffers, inbox, lastSeq, todo>>
    ELSE \E pair \in pairs :
           /\ Emit(p, m, pair[1], pair[2])
           /\ todo' = [todo EXCEPT ![m][p] = pairs \ {pair}]

(* POST /send: publish, then serve the clients of the own pod.               *)
Publish(p, target) ==
  /\ Len(sent) < NumMessages
  /\ sent' = Append(sent, [pod |-> p, target |-> target])
  /\ channel' = [q \in Pods |-> Append(channel[q], Len(sent) + 1)]
  /\ local' = local \cup {Len(sent) + 1}
  /\ UNCHANGED <<pods, sockets, inbox, lastSeq, todo>>

SendLocal(m) ==
  /\ m \in local
  /\ local' = local \ {m}
  /\ FanOut(sent[m].pod, m, Recipients(sent[m].pod, sent[m].target))
  /\ UNCHANGED <<clients, sockets, sent, channel>>

(* Mutant: the message of the own pod is not skipped.                        *)
Listen_OwnToo(p) ==
  /\ channel[p] # <<>>
  /\ \A m \in Messages : todo[m][p] # {} => sent[m].pod = p
  /\ channel' = [channel EXCEPT ![p] = Tail(@)]
  /\ LET m == Head(channel[p]) IN FanOut(p, m, Recipients(p, sent[m].target))
  /\ UNCHANGED <<clients, sockets, sent, local>>

(* backplane_listener: the next message, unless this pod sent it.            *)
Listen(p) ==
  /\ channel[p] # <<>>
  /\ \A m \in Messages : todo[m][p] # {} => sent[m].pod = p
  /\ channel' = [channel EXCEPT ![p] = Tail(@)]
  /\ LET m == Head(channel[p]) IN
       FanOut(p, m, IF sent[m].pod = p THEN {} ELSE Recipients(p, sent[m].target))
  /\ UNCHANGED <<clients, sockets, sent, local>>

(* The next client of a broadcast, after the await on the one before.        *)
SendNext(m, p) ==
  /\ todo[m][p] # {}
  /\ FanOut(p, m, todo[m][p])
  /\ UNCHANGED <<clients, sockets, sent, channel, local>>

-----------------------------------------------------------------------------
(* Connections.  A client opens a new one when it has lost the old one, which *)
(* its pod may not know yet.                                                  *)

(* [m for m in buffer if m["seq"] > resume_seq]                              *)
After(frames, seq) ==
  LET newer[k \in 0..Len(frames)] ==
        IF k = 0 THEN <<>>
        ELSE IF frames[k].seq > seq THEN Append(newer[k - 1], frames[k]) ELSE newer[k - 1]
  IN  newer[Len(frames)]

(* Registering and choosing the frames to replay are not separated by an     *)
(* await.                                                                    *)
Connect(i, p, c, resume) ==
  /\ place[i] = <<>> /\ (i > 1 => place[i - 1] # <<>>)
  /\ \A j \in Connections : place[j] # <<>> /\ place[j][2] = c => link[j] # "up"
  /\ place' = [place EXCEPT ![i] = <<p, c>>]
  /\ link' = [link EXCEPT ![i] = "up"]
  /\ clients' = [clients EXCEPT ![p][c] = i]
  /\ missed' = [missed EXCEPT ![i] =
       IF resume THEN After(message_buffers[p][c], lastSeq[c]) ELSE <<>>]
  /\ UNCHANGED <<seq_counters, message_buffers, inbox, lastSeq, tasks>>

(* Mutant: the handler walks the live buffer instead of a list of its own.   *)
Replay_LiveBuffer(i) ==
  /\ missed[i] # <<>>
  /\ missed' = [missed EXCEPT ![i] =
       After(message_buffers[place[i][1]][place[i][2]], Head(missed[i]).seq)]
  /\ Receive(i, place[i][2], Head(missed[i]))
  /\ UNCHANGED <<pods, place, link, tasks>>

Replay(i) ==
  /\ missed[i] # <<>>
  /\ missed' = [missed EXCEPT ![i] = Tail(@)]
  /\ Receive(i, place[i][2], Head(missed[i]))
  /\ UNCHANGED <<pods, place, link, tasks>>

(* The replay is outside the try block: a send that raises ends the handler  *)
(* and leaves its entry in clients.                                          *)
ReplayFails(i) ==
  /\ missed[i] # <<>> /\ link[i] = "lost"
  /\ missed' = [missed EXCEPT ![i] = <<>>]
  /\ link' = [link EXCEPT ![i] = "closed"]
  /\ UNCHANGED <<pods, place, inbox, lastSeq, tasks>>

Drop(i) ==
  /\ link[i] = "up"
  /\ link' = [link EXCEPT ![i] = "lost"]
  /\ UNCHANGED <<pods, place, missed, inbox, lastSeq, tasks>>

(* The receive loop notices and removes the client's entry, whichever        *)
(* connection is in it.                                                      *)
Disconnected(i) ==
  /\ link[i] = "lost" /\ missed[i] = <<>>
  /\ link' = [link EXCEPT ![i] = "closed"]
  /\ clients' = [clients EXCEPT ![place[i][1]][place[i][2]] = 0]
  /\ UNCHANGED <<seq_counters, message_buffers, place, missed, inbox, lastSeq, tasks>>

Next ==
  \/ \E p \in Pods, t \in Targets : Publish(p, t)
  \/ \E m \in Messages : SendLocal(m)
  \/ \E p \in Pods : Listen(p)
  \/ \E m \in Messages, p \in Pods : SendNext(m, p)
  \/ \E i \in Connections, p \in Pods, c \in Clients, resume \in BOOLEAN : Connect(i, p, c, resume)
  \/ \E i \in Connections : Replay(i) \/ ReplayFails(i) \/ Drop(i) \/ Disconnected(i)

Spec == Init /\ [][Next]_vars

(* The listener of a pod and the handlers of its requests run on.            *)
Fairness ==
  /\ \A m \in Messages : WF_vars(SendLocal(m))
  /\ \A p \in Pods : WF_vars(Listen(p))
  /\ \A m \in Messages, p \in Pods : WF_vars(SendNext(m, p))
FairSpec == Spec /\ Fairness

-----------------------------------------------------------------------------
(* Properties.                                                               *)

Frame == [seq : 1..NumMessages, msg : Messages]
Places == Pods \X Clients

TypeOK ==
  /\ clients \in [Pods -> [Clients -> {0} \cup Connections]]
  /\ seq_counters \in [Pods -> [Clients -> 0..NumMessages]]
  /\ \A p \in Pods, c \in Clients : message_buffers[p][c] \in Seq(Frame)
  /\ place \in [Connections -> Places \cup {<<>>}]
  /\ link \in [Connections -> {"up", "lost", "closed"}]
  /\ missed \in [Connections -> Seq(Frame)] /\ inbox \in [Connections -> Seq(Frame)]
  /\ lastSeq \in [Clients -> 0..NumMessages]
  /\ sent \in Seq([pod : Pods, target : Clients \cup {All}])
  /\ channel \in [Pods -> Seq(Messages)]
  /\ local \subseteq Messages
  /\ \A m \in Messages, p \in Pods : todo[m][p] \subseteq Clients \X Connections

(* The buffer of a client holds the last frames numbered for it, without a   *)
(* gap, whatever loops and replays are under way: what a client may still    *)
(* ask for is all there.                                                     *)
BufferIsTail ==
  \A p \in Pods, c \in Clients :
    LET buffer == message_buffers[p][c]
        count == seq_counters[p][c] IN
    /\ Len(buffer) = IF count < BufferSize THEN count ELSE BufferSize
    /\ \A k \in 1..Len(buffer) : buffer[k].seq = count - Len(buffer) + k

(* A message comes to a pod through the backplane or from its own request,   *)
(* never both: no client is sent it under two numbers of one pod.            *)
NumberedOnce ==
  \A i \in Connections, j, k \in 1..NumMessages :
    j < k /\ k <= Len(inbox[i]) => inbox[i][j].msg # inbox[i][k].msg

(* Replay and live sending overlap on one connection, but no frame is sent   *)
(* by both.                                                                  *)
ReplayedOrLive ==
  \A i \in Connections, j, k \in 1..NumMessages :
    j < k /\ k <= Len(inbox[i]) => inbox[i][j].seq # inbox[i][k].seq

(* What a client receives or may still ask for is in order: the buffers have *)
(* no gap, and nothing arrives twice.                                        *)
FramesInOrder == BufferIsTail /\ NumberedOnce /\ ReplayedOrLive

(* A message that a pod has still to serve reaches each client registered    *)
(* there, as long as its connection lasts and stays registered.              *)
Pending(m, p) ==
  \/ m \in local /\ sent[m].pod = p
  \/ \E k \in 1..Len(channel[p]) : channel[p][k] = m /\ sent[m].pod # p
ConnectedClientsHear ==
  \A m \in Messages, p \in Pods, c \in Clients, i \in Connections :
    (Pending(m, p) /\ sent[m].target \in {c, All} /\ clients[p][c] = i /\ link[i] = "up")
      ~> \/ \E k \in 1..Len(inbox[i]) : inbox[i][k].msg = m
         \/ clients[p][c] # i \/ link[i] # "up"
=============================================================================
