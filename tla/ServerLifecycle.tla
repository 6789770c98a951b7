--------------------------- MODULE ServerLifecycle ---------------------------
(***************************************************************************)
(* The life of a server: the task that accepts connections, the shutdown   *)
(* timer, and the connection tasks that stop and restart it.               *)
(*                                                                         *)
(*   distant-core/src/net/server.rs                  Server::task          *)
(*   distant-core/src/net/server/connection.rs       ConnectionTask::run   *)
(*   distant-core/src/net/server/state.rs            ConnectionState       *)
(*   distant-core/src/net/server/shutdown_timer.rs   ShutdownTimer         *)
(*   distant-core/src/net/common/utils.rs            Timer                 *)
(*   distant-core/src/net/server/ref.rs              ServerRef             *)
(*                                                                         *)
(* A connection here is the task of one accepted link; how it is           *)
(* established and what is handed on to the next one is in Reconnect.      *)
(***************************************************************************)
EXTENDS Naturals, FiniteSets

CONSTANT Conns   \* bound: the connections that may be accepted

ASSUME ConnsFinite == IsFiniteSet(Conns)

VARIABLES
  mode,        \* the configured Shutdown: "After", "Lonely" or "Never"
  server,      \* "accepting", "stopping" (shut down by the timer), "deaf" (the
               \* listener failed) or "terminated"
  timer,       \* the active timer task: "running", "aborted" (but not finished
               \* yet) or "stopped"
  callback,    \* the callback of the timer: "pending", "done" or "aborted"
  pc,          \* where a connection task is
  entry,       \* its ConnectionState: "none", "live", "finishing" (channels sent,
               \* the task that receives them has not run yet) or "finished"
  signalled,   \* connection tasks with an unread shutdown signal
  overlapped,  \* history: were two connections open at the same time?
  missed       \* history: did the last restart take an aborted timer for running?

history == <<overlapped, missed>>
vars == <<mode, server, timer, callback, pc, entry, signalled, history>>

\* Connection tasks that are not finished, and these and the ones whose entry
\* is not.
Active == {c \in Conns : pc[c] \notin {"none", "done"}}
Open == Active \union {c \in Conns : entry[c] = "finishing"}

\* ShutdownTimer::start, whatever the policy; Expire says when it goes off.
TimerStarted == timer = "running" /\ callback = "pending"

Init ==
  /\ mode \in {"After", "Lonely", "Never"}
  /\ server = "accepting"
  /\ TimerStarted
  /\ pc = [c \in Conns |-> "none"]
  /\ entry = [c \in Conns |-> "none"]
  /\ signalled = {}
  /\ overlapped = FALSE /\ missed = FALSE

-----------------------------------------------------------------------------
(* The timer *)

\* Mutant: a connection does not stop the timer.
StopForgotten == UNCHANGED timer

\* ShutdownTimer::stop applies to a lonely timer only.  It aborts the task of
\* the timer, which will not go off any more, and does not wait for its end.
Stop ==
  timer' = IF mode = "Lonely" /\ timer = "running" THEN "aborted" ELSE timer

(* The runtime gets to the aborted task: from now on it is finished. *)
AbortedEnds ==
  /\ timer = "aborted"
  /\ timer' = "stopped"
  /\ UNCHANGED <<mode, server, callback, pc, entry, signalled, history>>

\* ShutdownTimer::restart and Timer::start: nothing happens to a timer whose
\* task is not finished, nor to one whose callback is over.
Restart ==
  /\ timer' = IF timer = "stopped" /\ callback = "pending" THEN "running" ELSE timer
  /\ missed' = (timer = "aborted")

(* The duration has passed: the callback is triggered and notifies the server
   task.  Stopping the timer does not undo that. *)
Expire ==
  /\ mode # "Never"
  /\ timer = "running"
  /\ timer' = "stopped"
  /\ callback' = "done"
  /\ UNCHANGED <<mode, server, pc, entry, signalled, history>>

-----------------------------------------------------------------------------
(* The server task *)

(* listener.accept() yields a connection. *)
Accept(c) ==
  /\ server = "accepting"
  /\ pc[c] = "none"
  /\ Stop
  /\ overlapped' = (overlapped \/ Open # {})
  /\ pc' = [pc EXCEPT ![c] = "establishing"]
  /\ UNCHANGED <<mode, server, callback, entry, signalled, missed>>

(* listener.accept() fails: the timer is aborted, and the connections are left
   to end by themselves. *)
AcceptFails ==
  /\ server = "accepting"
  /\ server' = "deaf"
  /\ timer' = "stopped"
  /\ callback' = IF callback = "pending" THEN "aborted" ELSE callback
  /\ UNCHANGED <<mode, pc, entry, signalled, history>>

\* Mutant: nobody is told.
BroadcastForgotten == UNCHANGED signalled

\* A message on the shutdown channel, for the connection tasks there are.
Broadcast == signalled' = signalled \union Active

(* The notification of the timer ends the accept loop. *)
Notified ==
  /\ server = "accepting"
  /\ callback = "done"
  /\ server' = "stopping"
  /\ Broadcast
  /\ UNCHANGED <<mode, timer, callback, pc, entry, history>>

AllFinished == Active = {}

(* The server task ends when it is the last one. *)
Terminate ==
  /\ server \in {"stopping", "deaf"}
  /\ AllFinished
  /\ server' = "terminated"
  /\ UNCHANGED <<mode, timer, callback, pc, entry, signalled, history>>

(* ServerRef::shutdown sends on the same channel.  The server task has a
   receiver of it only to make others from. *)
RequestShutdown ==
  /\ server # "terminated"
  /\ Broadcast
  /\ UNCHANGED <<mode, server, timer, callback, pc, entry, history>>

-----------------------------------------------------------------------------
(* A connection task *)

(* Established, accepted by on_connect, and registered in the connections. *)
Establish(c) ==
  /\ pc[c] = "establishing"
  /\ pc' = [pc EXCEPT ![c] = "loop"]
  /\ entry' = [entry EXCEPT ![c] = "live"]
  /\ UNCHANGED <<mode, server, timer, callback, signalled, history>>

\* terminate_connection!: the channels are sent back, if there is an entry.
StartToEnd(c) ==
  /\ pc' = [pc EXCEPT ![c] = "ending"]
  /\ entry' = [entry EXCEPT ![c] = IF pc[c] = "loop" THEN "finishing" ELSE @]
  /\ signalled' = signalled \ {c}
  /\ UNCHANGED <<mode, server, timer, callback, history>>

(* The connection fails to be established, or is closed by the client. *)
Disconnect(c) ==
  /\ pc[c] \in {"establishing", "loop"}
  /\ StartToEnd(c)

(* await_or_shutdown! gets the signal. *)
Cancel(c) ==
  /\ pc[c] \in {"establishing", "loop"}
  /\ c \in signalled
  /\ StartToEnd(c)

(* The task inside the ConnectionState receives the channels and finishes. *)
FinishEntry(c) ==
  /\ entry[c] = "finishing"
  /\ entry' = [entry EXCEPT ![c] = "finished"]
  /\ UNCHANGED <<mode, server, timer, callback, pc, signalled, history>>

\* Entries stay in the connections; !is_finished() tells the live ones.
Unfinished == {c \in Conns : entry[c] \in {"live", "finishing"}}

\* Mutant: the own entry is taken to be finished already.
NoneUnfinished == Cardinality(Unfinished) < 1

LastConnection == Cardinality(Unfinished) <= 1

(* "Last connection terminating, so restarting shutdown timer" *)
End(c) ==
  /\ pc[c] = "ending"
  /\ pc' = [pc EXCEPT ![c] = "done"]
  /\ IF LastConnection THEN Restart ELSE UNCHANGED <<timer, missed>>
  /\ UNCHANGED <<mode, server, callback, entry, signalled, overlapped>>

-----------------------------------------------------------------------------
Next ==
  \/ Expire
  \/ AbortedEnds
  \/ AcceptFails
  \/ Notified
  \/ Terminate
  \/ RequestShutdown
  \/ \E c \in Conns :
       Accept(c) \/ Establish(c) \/ Disconnect(c) \/ Cancel(c) \/ FinishEntry(c) \/ End(c)

Spec == Init /\ [][Next]_vars

\* The timer expires and ready tasks run.  A client need never connect, never
\* finish a handshake and never leave.
FairSpec ==
  /\ Spec
  /\ WF_vars(Expire)
  /\ WF_vars(AbortedEnds)
  /\ WF_vars(Notified)
  /\ WF_vars(Terminate)
  /\ \A c \in Conns :
       WF_vars(Cancel(c)) /\ WF_vars(FinishEntry(c)) /\ WF_vars(End(c))

-----------------------------------------------------------------------------
(* Properties *)

TypeOK ==
  /\ mode \in {"After", "Lonely", "Never"}
  /\ server \in {"accepting", "stopping", "deaf", "terminated"}
  /\ timer \in {"running", "aborted", "stopped"}
  /\ callback \in {"pending", "done", "aborted"}
  /\ pc \in [Conns -> {"none", "establishing", "loop", "ending", "done"}]
  /\ entry \in [Conns -> {"none", "live", "finishing", "finished"}]
  /\ signalled \subseteq Conns
  /\ overlapped \in BOOLEAN /\ missed \in BOOLEAN
  /\ timer = "running" => callback = "pending"

(* A lonely timer does not run while a connection is established: it is
   stopped by a connection and restarted by the last one. *)
TimerStoppedWhileConnected ==
  mode = "Lonely" /\ (\E c \in Conns : pc[c] = "loop") => timer # "running"

(* The same for a server that never had two connections at a time: then the
   count of unfinished entries does tell the last one. *)
TimerStoppedUnlessOverlap == overlapped \/ TimerStoppedWhileConnected

(* A server that is to shut down when it is lonely does so: if from some point
   on there is no connection, it terminates.  It need not if connections were
   open at the same time: two that end together take each other for alive.
   Nor need it if the last connection ended before the runtime had come to the
   timer it had aborted: that one counts as running, and none is started. *)
LonelyShutsDownUnlessOverlapOrMissed ==
  (mode = "Lonely" /\ []~overlapped /\ <>[](Active = {} /\ ~missed)) =>
    <>(server = "terminated")

(* Once the timer has gone off the server terminates, whatever its connections
   are doing, unless the listener fails at that moment. *)
TimerEndsServer ==
  callback = "done" ~> server \in {"terminated", "deaf"}
=============================================================================
