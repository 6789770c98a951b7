------------------------------ MODULE HostTunnel ------------------------------
(***************************************************************************)
(* The tunnel actor of the host (distant-host, api/state/tunnel.rs): the   *)
(* task that owns the map of tunnels, the task of every TCP connection,    *)
(* and the accept loop of every listener.                                  *)
(*                                                                         *)
(* The actor's channel has room for one message.  Those who find it full   *)
(* wait in the order in which they came, so channel and waiting senders    *)
(* are one queue, whose first element is the one in the channel.           *)
(***************************************************************************)
EXTENDS Naturals, Sequences, SequencesExt

CONSTANTS
  MaxId,          \* bound: tunnel ids are 1 .. MaxId
  MaxQueue,       \* capacity of a connection's write channel (1024)
  MaxRequests     \* bound: requests of clients

ASSUME BoundsAreNaturals ==
  MaxId \in Nat /\ MaxQueue \in Nat \ {0} /\ MaxRequests \in Nat

Ids == 1 .. MaxId

VARIABLES
  inbox,        \* messages for the actor
  busy,         \* is the actor waiting for a connect?
  next_id,
  entry,        \* [Ids -> "none", "connection" or "listener"]
  sub_tunnel_ids, \* [Ids -> the ids in the entry of a listener]
  parent,       \* [Ids -> the listener that accepted it, or 0]
  listener,     \* [Ids -> "none", "accepting", "registering" or "gone"]
  aborted,      \* listeners that were aborted and have not stopped yet
  holds,        \* [Ids -> the tunnel a listener is about to register, or 0]
  connection,   \* [Ids -> "none", "running", "ended" or "gone"]
  write_tx,     \* ids whose write channel has a sender
  queue,        \* [Ids -> data accepted and not yet written]
  peer,         \* [Ids -> "open", "stalled", "half" or "closed"]
  lost,         \* history: connections that dropped accepted data
  overtaken,    \* history: ids removed before they were registered
  late,         \* history: ids registered after their listener was closed
  requests      \* requests sent so far

actor == <<busy, next_id, entry, sub_tunnel_ids, parent>>
listeners == <<listener, aborted, holds>>
streams == <<connection, write_tx, queue, peer>>
history == <<lost, overtaken, late>>
vars == <<inbox, actor, listeners, streams, history, requests>>

Init ==
  /\ inbox = <<>>
  /\ busy = FALSE
  /\ next_id = 1
  /\ entry = [i \in Ids |-> "none"]
  /\ sub_tunnel_ids = [i \in Ids |-> {}]
  /\ parent = [i \in Ids |-> 0]
  /\ listener = [i \in Ids |-> "none"]
  /\ aborted = {}
  /\ holds = [i \in Ids |-> 0]
  /\ connection = [i \in Ids |-> "none"]
  /\ write_tx = {}
  /\ queue = [i \in Ids |-> 0]
  /\ peer = [i \in Ids |-> "open"]
  /\ lost = {} /\ overtaken = {} /\ late = {}
  /\ requests = 0

Msg(t, i) == [type |-> t, id |-> i]

\* A connection_task starts for id.
Spawn(i) ==
  /\ connection' = [connection EXCEPT ![i] = "running"]
  /\ write_tx' = write_tx \union {i}
  /\ UNCHANGED <<queue, peer>>

-----------------------------------------------------------------------------
(* Clients *)

\* open(), listen(), write() or close(): a message, and a wait for its answer.
\* A client names ids it was told of.
Request ==
  /\ requests < MaxRequests
  /\ \E t \in {"open", "listen", "write", "close"}, i \in 0 .. next_id - 1 :
       /\ t \in {"open", "listen"} <=> i = 0
       /\ inbox' = Append(inbox, Msg(t, i))
  /\ requests' = requests + 1
  /\ UNCHANGED <<actor, listeners, streams, history>>

-----------------------------------------------------------------------------
(* tunnel_task *)

Arrived(t) == ~busy /\ inbox # <<>> /\ Head(inbox).type = t

\* The actor awaits TcpStream::connect, and takes no message meanwhile.
OpenBegins ==
  /\ Arrived("open")
  /\ inbox' = Tail(inbox)
  /\ busy' = TRUE
  /\ UNCHANGED <<next_id, entry, sub_tunnel_ids, parent, listeners, streams,
                 history, requests>>

OpenSucceeds ==
  /\ busy
  /\ next_id <= MaxId
  /\ busy' = FALSE
  /\ next_id' = next_id + 1
  /\ entry' = [entry EXCEPT ![next_id] = "connection"]
  /\ Spawn(next_id)
  /\ UNCHANGED <<inbox, sub_tunnel_ids, parent, listeners, history, requests>>

OpenFails ==
  /\ busy
  /\ busy' = FALSE
  /\ UNCHANGED <<inbox, next_id, entry, sub_tunnel_ids, parent, listeners,
                 streams, history, requests>>

\* The bind succeeds, or the message is answered with an error.
Listen ==
  /\ Arrived("listen")
  /\ inbox' = Tail(inbox)
  /\ \/ /\ next_id <= MaxId
        /\ next_id' = next_id + 1
        /\ entry' = [entry EXCEPT ![next_id] = "listener"]
        /\ listener' = [listener EXCEPT ![next_id] = "accepting"]
     \/ UNCHANGED <<next_id, entry, listener>>
  /\ UNCHANGED <<busy, sub_tunnel_ids, parent, aborted, holds, streams,
                 history, requests>>

\* try_send: refused if the channel is full, or the write task has ended.
Write ==
  /\ Arrived("write")
  /\ inbox' = Tail(inbox)
  /\ LET i == Head(inbox).id IN
     queue' = IF /\ entry[i] = "connection"
                 /\ connection[i] = "running"
                 /\ queue[i] < MaxQueue
                THEN [queue EXCEPT ![i] = @ + 1] ELSE queue
  /\ UNCHANGED <<actor, listeners, connection, write_tx, peer, history, requests>>

\* Mutant: the task is aborted.
CloseAborts(S) ==
  /\ write_tx' = write_tx \ S
  /\ connection' = [i \in Ids |-> IF i \in S THEN "gone" ELSE connection[i]]
  /\ queue' = [i \in Ids |-> IF i \in S THEN 0 ELSE queue[i]]
  /\ lost' = lost \union {i \in S : queue[i] > 0}
  /\ UNCHANGED <<peer, overtaken, late>>

\* The senders of these connections are dropped, their tasks left alone.
CloseGently(S) ==
  /\ write_tx' = write_tx \ S
  /\ UNCHANGED <<connection, queue, peer, history>>

\* close_tunnel.  A closed sub-tunnel stays in its listener's list.
Close ==
  /\ Arrived("close")
  /\ inbox' = Tail(inbox)
  /\ LET i == Head(inbox).id
         subs == {s \in sub_tunnel_ids[i] : entry[s] = "connection"}
         closed == IF entry[i] = "listener" THEN subs
                   ELSE IF entry[i] = "connection" THEN {i} ELSE {} IN
     /\ entry' = [e \in Ids |-> IF e = i \/ e \in closed THEN "none" ELSE entry[e]]
     /\ aborted' = IF listener[i] \in {"accepting", "registering"} /\ entry[i] = "listener"
                     THEN aborted \union {i} ELSE aborted
     /\ CloseGently(closed)
     /\ sub_tunnel_ids' = [sub_tunnel_ids EXCEPT ![i] = {}]
  /\ UNCHANGED <<busy, next_id, parent, listener, holds, requests>>

\* Connections only: the listener's entry stays when its task
\* ends by itself.
InternalRemove ==
  /\ Arrived("remove")
  /\ inbox' = Tail(inbox)
  /\ LET i == Head(inbox).id IN
     IF entry[i] = "connection"
       THEN /\ entry' = [entry EXCEPT ![i] = "none"]
            /\ write_tx' = write_tx \ {i}
            /\ sub_tunnel_ids' = [l \in Ids |-> sub_tunnel_ids[l] \ {i}]
            /\ UNCHANGED history
       ELSE /\ overtaken' = IF parent[i] # 0 THEN overtaken \union {i} ELSE overtaken
            /\ UNCHANGED <<entry, write_tx, sub_tunnel_ids, lost, late>>
  /\ UNCHANGED <<busy, next_id, parent, listeners, connection, queue, peer, requests>>

\* Mutant: the sub-tunnel is not added to the list of its listener.
RegisterAlone(l, i) == sub_tunnel_ids

RegisterWith(l, i) ==
  IF entry[l] = "listener" THEN [sub_tunnel_ids EXCEPT ![l] = @ \union {i}]
  ELSE sub_tunnel_ids

InternalRegisterSubTunnel ==
  /\ Arrived("register")
  /\ inbox' = Tail(inbox)
  /\ LET i == Head(inbox).id IN
     /\ entry' = [entry EXCEPT ![i] = "connection"]
     /\ sub_tunnel_ids' = RegisterWith(parent[i], i)
     /\ late' = IF entry[parent[i]] = "listener" THEN late ELSE late \union {i}
  /\ UNCHANGED <<busy, next_id, parent, listeners, streams, lost, overtaken, requests>>

-----------------------------------------------------------------------------
(* listener_task *)

\* The Register of listener l that waits for the channel, by position.
Waiting(l) ==
  {k \in DOMAIN inbox : inbox[k].type = "register" /\ parent[inbox[k].id] = l}

\* A connection is accepted and announced (TunnelIncoming), its task spawned.
Accept(l) ==
  /\ listener[l] = "accepting"
  /\ \A k \in Waiting(l) : k = 1
  /\ next_id <= MaxId
  /\ next_id' = next_id + 1
  /\ parent' = [parent EXCEPT ![next_id] = l]
  /\ Spawn(next_id)
  /\ listener' = [listener EXCEPT ![l] = "registering"]
  /\ holds' = [holds EXCEPT ![l] = next_id]
  /\ UNCHANGED <<inbox, busy, entry, sub_tunnel_ids, aborted, history, requests>>

\* The registration is put into the queue.
SendRegister(l) ==
  /\ listener[l] = "registering"
  /\ inbox' = Append(inbox, Msg("register", holds[l]))
  /\ listener' = [listener EXCEPT ![l] = "accepting"]
  /\ holds' = [holds EXCEPT ![l] = 0]
  /\ UNCHANGED <<actor, aborted, streams, history, requests>>

\* accept() fails, or nobody is there to be told: the task ends by itself.
AcceptFails(l) ==
  /\ listener[l] = "accepting"
  /\ \A k \in Waiting(l) : k = 1
  /\ listener' = [listener EXCEPT ![l] = "gone"]
  /\ aborted' = aborted \ {l}
  /\ inbox' = Append(inbox, Msg("remove", l))
  /\ UNCHANGED <<actor, holds, streams, history, requests>>

\* An aborted listener stops at its next await.  The Register it is waiting to
\* send, the last of its messages, is dropped with it; one that is first may
\* have got in already.
Stop(l) ==
  /\ l \in aborted
  /\ listener[l] = "accepting"
  /\ aborted' = aborted \ {l}
  /\ listener' = [listener EXCEPT ![l] = "gone"]
  /\ \/ /\ \A k \in Waiting(l) : k = 1
        /\ UNCHANGED <<inbox, write_tx>>
     \/ \E k \in Waiting(l) :
          /\ \A j \in Waiting(l) : j <= k
          /\ inbox' = RemoveAt(inbox, k)
          /\ write_tx' = write_tx \ {inbox[k].id}
  /\ UNCHANGED <<actor, holds, connection, queue, peer, history, requests>>

-----------------------------------------------------------------------------
(* connection_task, and the peer at the other end of its TCP stream *)

\* The peer stops reading, reads again, shuts down its side or goes away.
PeerMoves(i) ==
  /\ connection[i] = "running"
  /\ \E p \in {"open", "stalled", "half", "closed"} :
       /\ <<peer[i], p>> \in {<<"open", "stalled">>, <<"stalled", "open">>,
                              <<"open", "half">>, <<"open", "closed">>,
                              <<"stalled", "closed">>, <<"half", "closed">>}
       /\ peer' = [peer EXCEPT ![i] = p]
  /\ UNCHANGED <<inbox, actor, listeners, connection, write_tx, queue, history, requests>>

\* The write task writes what is at the front of the channel.
WriteOut(i) ==
  /\ connection[i] = "running"
  /\ queue[i] > 0
  /\ peer[i] \in {"open", "half"}
  /\ queue' = [queue EXCEPT ![i] = @ - 1]
  /\ UNCHANGED <<inbox, actor, listeners, connection, write_tx, peer, history, requests>>

EndConnection(i) ==
  /\ connection' = [connection EXCEPT ![i] = "ended"]
  /\ queue' = [queue EXCEPT ![i] = 0]
  /\ lost' = IF queue[i] > 0 THEN lost \union {i} ELSE lost
  /\ UNCHANGED <<inbox, actor, listeners, write_tx, peer, overtaken, late, requests>>

\* The read side is at its end: the write task is aborted.  (A reply that
\* cannot be sent ends it too; here the client's session lasts.)
ReadEnds(i) ==
  /\ connection[i] = "running"
  /\ peer[i] \in {"half", "closed"}
  /\ EndConnection(i)

\* Mutant: the task keeps a sender of its own channel, which never closes.
NeverClosed(i) == FALSE

ChannelClosed(i) == i \notin write_tx

\* The write channel is closed and empty, or a write fails.
WriteEnds(i) ==
  /\ connection[i] = "running"
  /\ \/ ChannelClosed(i) /\ queue[i] = 0
     \/ peer[i] = "closed" /\ queue[i] > 0
  /\ EndConnection(i)

\* Mutant: nobody tells the actor.
LeaveQuietly(i) == inbox

TellActor(i) == Append(inbox, Msg("remove", i))

\* TunnelClosed is sent, and then InternalRemove.
Leave(i) ==
  /\ connection[i] = "ended"
  /\ connection' = [connection EXCEPT ![i] = "gone"]
  /\ inbox' = TellActor(i)
  /\ UNCHANGED <<actor, listeners, write_tx, queue, peer, history, requests>>

-----------------------------------------------------------------------------
Actor ==
  OpenBegins \/ OpenSucceeds \/ OpenFails \/ Listen \/ Write \/ Close \/ InternalRemove
  \/ InternalRegisterSubTunnel

Next ==
  \/ Request
  \/ OpenBegins
  \/ OpenSucceeds
  \/ OpenFails
  \/ Listen
  \/ Write
  \/ Close
  \/ InternalRemove
  \/ InternalRegisterSubTunnel
  \/ \E i \in Ids :
       \/ Accept(i)
       \/ SendRegister(i)
       \/ AcceptFails(i)
       \/ Stop(i)
       \/ PeerMoves(i)
       \/ WriteOut(i)
       \/ ReadEnds(i)
       \/ WriteEnds(i)
       \/ Leave(i)

Spec == Init /\ [][Next]_vars

\* Every task that can go on is polled, and a connect ends: the operating
\* system limits its time.
FairSpec ==
  /\ Spec
  /\ WF_vars(Actor)
  /\ \A i \in Ids :
       /\ WF_vars(SendRegister(i))
       /\ WF_vars(Stop(i))
       /\ WF_vars(WriteOut(i))
       /\ WF_vars(ReadEnds(i) \/ WriteEnds(i))
       /\ WF_vars(Leave(i))

-----------------------------------------------------------------------------
(* Properties *)

(* Every connection in the map runs, or its removal is on the way.  The
   exception is a connection that ended so fast that its InternalRemove
   overtook the listener's InternalRegisterSubTunnel: its entry stays. *)
NoStaleEntryUnlessOvertaken ==
  \A i \in Ids : entry[i] = "connection" =>
    \/ connection[i] \in {"running", "ended"}
    \/ \E k \in DOMAIN inbox : inbox[k] = Msg("remove", i)
    \/ i \in overtaken

(* close() says "all of its accepted sub-tunnels are also closed": a
   registered sub-tunnel is on the list of its listener, which close() goes
   through, unless it was registered after its listener was closed. *)
SubTunnelsBelongToTheirListener ==
  \A i \in Ids : entry[i] = "connection" /\ parent[i] # 0 =>
    \/ entry[parent[i]] = "listener" /\ i \in sub_tunnel_ids[parent[i]]
    \/ i \in late

(* close_tunnel says it lets a connection "finish any in-progress writes":
   data that was accepted is dropped only if the peer has shut down its side
   of the stream.  A peer that merely has nothing more to send counts. *)
DataLostOnlyIfPeerShutDown ==
  \A i \in lost : peer[i] \in {"half", "closed"}

(* A connection that a client closes comes to its end, even if the actor is
   busy with a connect when the request arrives, and so does one whose
   registration was dropped with its listener.  Only a peer that stops reading
   can hold it up: the write task then waits with it. *)
ClosedConnectionsEnd ==
  \A i \in Ids :
    \/ entry[i] = "connection" /\ \E k \in DOMAIN inbox : inbox[k] = Msg("close", i)
    \/ connection[i] = "running" /\ i \notin write_tx
    ~> connection[i] = "gone" \/ peer[i] = "stalled"
=============================================================================
