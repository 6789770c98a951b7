-------------------------------- MODULE Manager --------------------------------
(***************************************************************************)
(* The manager server (net/manager/server.rs): its maps of connections,    *)
(* channels, managed tunnels and authentication callbacks, the handlers    *)
(* that work on them side by side, and the action task that every          *)
(* connection has (manager/server/connection.rs).                          *)
(*                                                                         *)
(* Each request runs in a task of its own.  A handler is such a task with  *)
(* awaits inside; a request that takes one lock and answers is one step.   *)
(* What a handler makes (a connection, a channel, a tunnel) carries the    *)
(* handler's name as its random id; the callbacks, of which it may make    *)
(* many, have ids of their own.  Of the four locks only that of            *)
(* connections is ever held across an await: kill() holds it for writing   *)
(* until it is through, OpenChannel for reading.                           *)
(***************************************************************************)
EXTENDS Naturals, Sequences, FiniteSets, SequencesExt

CONSTANTS
  Handlers,     \* tasks of requests that await something
  Callbacks,    \* bound: the ids of authentication callbacks
  Connected,    \* those that have made a connection before the run begins
  Followed,     \* bound: whose requests are followed to their answer
  MaxInbox      \* bound: a connection's inbox takes client traffic up to here

ASSUME InboxIsBounded == MaxInbox \in Nat
ASSUME ConnectedByHandlers == Connected \subseteq Handlers
ASSUME FollowedAreHandlers == Followed \subseteq Handlers

None == "none"

ASSUME NoneIsNoHandler == None \notin Handlers /\ None \notin Callbacks

VARIABLES
  pc,           \* [Handlers -> where the task is]
  kind,         \* [Handlers -> its request]
  of,           \* [Handlers -> the connection the request is about]
  connections,  \* ids in the map
  readers,      \* handlers that hold the lock of connections for reading
  writer,       \* the one that holds it for writing, or None
  channels,     \* ids in the map
  tunnels,      \* ids in managed_tunnels
  registry,     \* ids of authentication callbacks
  question,     \* [Handlers -> the callback the handler's question goes with]
  asked,        \* callbacks whose question is with the client
  tasks,        \* [connection -> "none", "running", "aborted" or "gone"]
  inbox,        \* [connection -> actions for its action task]
  registered,   \* [connection -> channel ids its action task knows]
  found,        \* [Handlers -> the channel ids kill() was told]
  failed,       \* history: tunnels whose set-up failed
  abandoned,    \* history: callbacks in the registry that were given up
  late          \* history: tunnels that were stored after their connection's end

maps == <<connections, channels, tunnels, registry>>
lock == <<readers, writer>>
actors == <<tasks, inbox, registered>>
questions == <<question, asked>>
history == <<failed, abandoned, late>>
vars == <<pc, kind, of, maps, lock, questions, actors, found, history>>

Init ==
  /\ pc = [h \in Handlers |-> IF h \in Connected THEN "done" ELSE "idle"]
  /\ kind = [h \in Handlers |-> IF h \in Connected THEN "connect" ELSE None]
  /\ of = [h \in Handlers |-> None]
  /\ connections = Connected /\ channels = {} /\ tunnels = {} /\ registry = {}
  /\ readers = {} /\ writer = None
  /\ question = [h \in Handlers |-> None] /\ asked = {}
  /\ tasks = [h \in Handlers |-> IF h \in Connected THEN "running" ELSE "none"]
  /\ inbox = [h \in Handlers |-> <<>>]
  /\ registered = [h \in Handlers |-> {}]
  /\ found = [h \in Handlers |-> {}]
  /\ failed = {} /\ abandoned = {} /\ late = {}

Goto(h, l) == pc' = [pc EXCEPT ![h] = l]

-----------------------------------------------------------------------------
(* The action task of a connection *)

Alive(c) == tasks[c] \in {"running", "aborted"}

Msg(t, id) == [type |-> t, id |-> id]

\* What becomes of the inbox of c when messages are sent to it: they are lost
\* once the task is gone.
Sent(c, msgs) ==
  IF Alive(c) THEN [inbox EXCEPT ![c] = @ \o msgs] ELSE inbox

\* action_task: one message, from the front.  A Write goes on to the server;
\* its answer comes back as a Read, which goes to the client if the channel is
\* registered then, and changes nothing here.
Act(c) ==
  /\ Alive(c)
  /\ inbox[c] # <<>>
  /\ LET m == Head(inbox[c]) IN
     /\ inbox' = [inbox EXCEPT ![c] = Tail(@)]
     /\ registered' = [registered EXCEPT ![c] =
          CASE m.type = "register"   -> @ \union {m.id}
            [] m.type = "unregister" -> @ \ {m.id}
            [] OTHER                 -> @]
     /\ IF m.type = "get"
          THEN /\ found' = [found EXCEPT ![m.id] = registered[c]]
               /\ Goto(m.id, "channels")
          ELSE UNCHANGED <<found, pc>>
  /\ UNCHANGED <<kind, of, maps, lock, questions, tasks, history>>

\* An aborted task goes at its next await; until then it works on.
Stop(c) ==
  /\ tasks[c] = "aborted"
  /\ tasks' = [tasks EXCEPT ![c] = "gone"]
  /\ inbox' = [inbox EXCEPT ![c] = <<>>]
  /\ registered' = [registered EXCEPT ![c] = {}]
  /\ UNCHANGED <<pc, kind, of, maps, lock, questions, found, history>>

-----------------------------------------------------------------------------
(* Launch and Connect, with the authentication the plugin asks for *)

\* Mutant: connect() takes the lock of connections for as long as it lasts.
StartConnectLocked(h) ==
  /\ writer = None /\ readers = {}
  /\ writer' = h
  /\ UNCHANGED readers

StartConnect(h) == UNCHANGED lock

Start(h) ==
  /\ pc[h] = "idle"
  /\ \E k \in {"launch", "connect"} : kind' = [kind EXCEPT ![h] = k]
  /\ Goto(h, "plugin")
  /\ StartConnect(h)
  /\ UNCHANGED <<of, maps, questions, actors, found, history>>

\* Mutant: the question is sent before the callback is registered.
AskFirst(q) ==
  /\ asked' = asked \union {q}
  /\ UNCHANGED registry

\* ManagerAuthenticator::send up to the registration of the callback.
Ask(q) ==
  /\ registry' = registry \union {q}
  /\ UNCHANGED asked

\* The ids nobody has; which of them is drawn makes no difference.
FreeIds == Callbacks \ (registry \union asked)

PluginAsks(h) ==
  /\ pc[h] = "plugin"
  /\ FreeIds # {}
  /\ LET q == CHOOSE id \in FreeIds : TRUE IN
     /\ Ask(q)
     /\ question' = [question EXCEPT ![h] = q]
  /\ Goto(h, "ask")
  /\ UNCHANGED <<kind, of, connections, channels, tunnels, lock, actors,
                 found, history>>

\* The plugin goes on with an error, perhaps to the next address of the server.
\* Nobody waits for the callback any more, and nobody removes it.
Abandon(h) ==
  /\ abandoned' = abandoned \union {question[h]}
  /\ question' = [question EXCEPT ![h] = None]
  /\ Goto(h, "plugin")
  /\ UNCHANGED <<asked, failed, late>>

\* The question is sent, or the client is no longer there to get it.
SendQuestion(h) ==
  /\ pc[h] = "ask"
  /\ \/ /\ asked' = asked \union {question[h]}
        /\ Goto(h, "wait")
        /\ UNCHANGED <<question, history>>
     \/ Abandon(h)
  /\ UNCHANGED <<kind, of, maps, lock, actors, found>>

\* The plugin's connect_timeout is over while the answer is waited for.
ConnectTimeout(h) ==
  /\ pc[h] = "wait"
  /\ Abandon(h)
  /\ UNCHANGED <<kind, of, maps, lock, actors, found>>

\* The client's Authenticate request takes the callback and calls it, which
\* reaches the handler if that still waits.
Authenticate(q) ==
  /\ q \in asked
  /\ asked' = asked \ {q}
  /\ registry' = registry \ {q}
  /\ abandoned' = abandoned \ {q}
  /\ LET called == {h \in Handlers : q \in registry /\ pc[h] = "wait" /\ question[h] = q} IN
     /\ pc' = [h \in Handlers |-> IF h \in called THEN "plugin" ELSE pc[h]]
     /\ question' = [h \in Handlers |-> IF h \in called THEN None ELSE question[h]]
  /\ UNCHANGED <<kind, of, connections, channels, tunnels, lock, actors,
                 found, failed, late>>

PluginFails(h) ==
  /\ pc[h] = "plugin"
  /\ Goto(h, "done")
  /\ UNCHANGED <<kind, of, maps, lock, questions, actors, found, history>>

\* launch() is through; connect() spawns the tasks of the connection.
PluginSucceeds(h) ==
  /\ pc[h] = "plugin"
  /\ \/ kind[h] = "launch" /\ Goto(h, "done") /\ UNCHANGED tasks
     \/ /\ kind[h] = "connect"
        /\ Goto(h, "insert")
        /\ tasks' = [tasks EXCEPT ![h] = "running"]
  /\ UNCHANGED <<kind, of, maps, lock, questions, inbox, registered, found, history>>

InsertConnection(h) ==
  /\ pc[h] = "insert"
  /\ writer = None /\ readers = {}
  /\ connections' = connections \union {h}
  /\ Goto(h, "done")
  /\ UNCHANGED <<kind, of, channels, tunnels, registry, lock, questions,
                 actors, found, history>>

\* Ids that a client can name: of connections it was told of.
Known == {h \in Handlers : kind[h] = "connect" /\ pc[h] = "done" /\ tasks[h] # "none"}

\* A request about a connection arrives.
StartAbout(h, k, c) ==
  /\ pc[h] = "idle"
  /\ kind' = [kind EXCEPT ![h] = k]
  /\ of' = [of EXCEPT ![h] = c]
  /\ Goto(h, "lock")
  /\ UNCHANGED <<maps, lock, questions, actors, found, history>>

-----------------------------------------------------------------------------
(* OpenChannel, Channel and CloseChannel *)

\* Mutant: the lock is let go once the channel is registered.
HoldNoLock(h) == UNCHANGED readers

HoldReadLock(h) == readers' = readers \union {h}

\* open_channel() registers the channel with the connection, if there is one.
OpenChannel(h) ==
  /\ pc[h] = "lock" /\ kind[h] = "open"
  /\ writer = None
  /\ IF of[h] \in connections
       THEN /\ HoldReadLock(h)
            /\ inbox' = Sent(of[h], <<Msg("register", h)>>)
            /\ Goto(h, "insert")
       ELSE Goto(h, "done") /\ UNCHANGED <<readers, inbox>>
  /\ UNCHANGED <<kind, of, maps, writer, questions, tasks, registered, found, history>>

InsertChannel(h) ==
  /\ pc[h] = "insert" /\ kind[h] = "open"
  /\ channels' = channels \union {h}
  /\ readers' = readers \ {h}
  /\ Goto(h, "done")
  /\ UNCHANGED <<kind, of, connections, tunnels, registry, writer,
                 questions, actors, found, history>>

\* A request of the client for the server behind channel ch.
ChannelRequest(ch) ==
  /\ ch \in channels
  /\ Len(inbox[of[ch]]) < MaxInbox
  /\ inbox' = Sent(of[ch], <<Msg("write", ch)>>)
  /\ UNCHANGED <<pc, kind, of, maps, lock, questions, tasks, registered, found, history>>

\* Mutant: the channel is unregistered, but stays in the map.
CloseKeepsEntry(ch) == channels

CloseRemovesEntry(ch) == channels \ {ch}

CloseChannel(ch) ==
  /\ ch \in channels
  /\ channels' = CloseRemovesEntry(ch)
  /\ inbox' = Sent(of[ch], <<Msg("unregister", ch)>>)
  /\ UNCHANGED <<pc, kind, of, connections, tunnels, registry, lock,
                 questions, tasks, registered, found, history>>

-----------------------------------------------------------------------------
(* ForwardTunnel, ReverseTunnel and CloseManagedTunnel *)

\* InternalRawChannel::open, under the lock, which is let go at once.
OpenTunnel(h) ==
  /\ pc[h] = "lock" /\ kind[h] \in {"forward", "reverse"}
  /\ writer = None
  /\ IF of[h] \in connections
       THEN /\ inbox' = Sent(of[h], <<Msg("register", h)>>)
            /\ Goto(h, "setup")
       ELSE Goto(h, "done") /\ UNCHANGED inbox
  /\ UNCHANGED <<kind, of, maps, lock, questions, tasks, registered, found, history>>

\* start_forward_tunnel binds a local port, whatever becomes of the connection;
\* start_reverse_tunnel needs an answer of the server.
SetUpTunnel(h) ==
  /\ pc[h] = "setup"
  /\ kind[h] = "reverse" => Alive(of[h]) /\ h \in registered[of[h]]
  /\ Goto(h, "store")
  /\ UNCHANGED <<kind, of, maps, lock, questions, actors, found, history>>

\* The set-up fails: the internal channel is dropped, its registration stays.
SetUpFails(h) ==
  /\ pc[h] = "setup"
  /\ failed' = failed \union {h}
  /\ Goto(h, "done")
  /\ UNCHANGED <<kind, of, maps, lock, questions, actors, found, abandoned, late>>

StoreTunnel(h) ==
  /\ pc[h] = "store"
  /\ tunnels' = tunnels \union {h}
  /\ late' = IF tasks[of[h]] = "running" THEN late ELSE late \union {h}
  /\ Goto(h, "done")
  /\ UNCHANGED <<kind, of, connections, channels, registry, lock,
                 questions, actors, found, failed, abandoned>>

\* Mutant: ManagedTunnel::abort stops the task and leaves the channel.
AbortQuietly(t) == <<>>

\* The message ManagedTunnel::abort sends for its channel.
AbortMessages(t) == <<Msg("unregister", t)>>

CloseManagedTunnel(t) ==
  /\ t \in tunnels
  /\ tunnels' = tunnels \ {t}
  /\ inbox' = Sent(of[t], AbortMessages(t))
  /\ UNCHANGED <<pc, kind, of, connections, channels, registry, lock, questions,
                 tasks, registered, found, history>>

-----------------------------------------------------------------------------
(* Kill *)

\* The connection leaves the map, and is asked for its channels.
Kill(h) ==
  /\ pc[h] = "lock" /\ kind[h] = "kill"
  /\ writer = None /\ readers = {}
  /\ IF of[h] \in connections
       THEN /\ connections' = connections \ {of[h]}
            /\ writer' = h
            /\ inbox' = Sent(of[h], <<Msg("get", h)>>)
            /\ Goto(h, "ids")
       ELSE Goto(h, "done") /\ UNCHANGED <<connections, writer, inbox>>
  /\ UNCHANGED <<kind, of, channels, tunnels, registry, readers,
                 questions, tasks, registered, found, history>>

Unregistrations(S) == SetToSeq({Msg("unregister", ch) : ch \in S})

KillChannels(h) ==
  /\ pc[h] = "channels"
  /\ channels' = channels \ found[h]
  /\ inbox' = Sent(of[h], Unregistrations(channels \intersect found[h]))
  /\ found' = [found EXCEPT ![h] = {}]
  /\ Goto(h, "tunnels")
  /\ UNCHANGED <<kind, of, connections, tunnels, registry, lock,
                 questions, tasks, registered, history>>

\* Mutant: the tunnels of the connection are overlooked.
NoTunnels(c) == {}

TunnelsOf(c) == {t \in tunnels : of[t] = c}

\* The tunnels of the connection are aborted, then its tasks; the lock goes.
KillTunnels(h) ==
  /\ pc[h] = "tunnels"
  /\ tunnels' = tunnels \ TunnelsOf(of[h])
  /\ inbox' = Sent(of[h], Unregistrations(TunnelsOf(of[h])))
  /\ tasks' = [tasks EXCEPT ![of[h]] = "aborted"]
  /\ writer' = None
  /\ Goto(h, "done")
  /\ UNCHANGED <<kind, of, connections, channels, registry, readers, questions,
                 registered, found, history>>

-----------------------------------------------------------------------------
Next ==
  \/ \E h \in Handlers :
       \/ Start(h)
       \/ PluginAsks(h)
       \/ SendQuestion(h)
       \/ ConnectTimeout(h)
       \/ PluginFails(h)
       \/ PluginSucceeds(h)
       \/ InsertConnection(h)
       \/ OpenChannel(h)
       \/ InsertChannel(h)
       \/ OpenTunnel(h)
       \/ SetUpTunnel(h)
       \/ SetUpFails(h)
       \/ StoreTunnel(h)
       \/ Kill(h)
       \/ KillChannels(h)
       \/ KillTunnels(h)
       \/ Act(h)
       \/ Stop(h)
  \/ \E q \in Callbacks : Authenticate(q)
  \/ \E h \in Handlers, c \in Known, k \in {"open", "kill", "forward", "reverse"} :
       StartAbout(h, k, c)
  \/ \E ch \in channels : ChannelRequest(ch) \/ CloseChannel(ch)
  \/ \E t \in tunnels : CloseManagedTunnel(t)

Spec == Init /\ [][Next]_vars

\* What a handler does when it has the locks it needs and nobody else to wait for.
GoesOn(h) ==
  \/ InsertConnection(h) \/ OpenChannel(h) \/ InsertChannel(h)
  \/ OpenTunnel(h) \/ StoreTunnel(h)
  \/ Kill(h) \/ KillChannels(h) \/ KillTunnels(h)

\* Tasks that can go on are polled.  Nothing makes a plugin finish, a client
\* answer a question, or a tunnel come up.
FairSpec ==
  /\ Spec
  /\ \A h \in Handlers : WF_vars(Act(h)) /\ WF_vars(GoesOn(h))

-----------------------------------------------------------------------------
(* Properties *)

\* The connection is being killed, and kill() has not come to its p-th part.
KillAhead(c, p) ==
  \E h \in Handlers : of[h] = c /\ kind[h] = "kill" /\ pc[h] \in p

(* kill() says "Close any open channels": a channel in the map belongs to a
   connection in the map, or to one whose channels kill() is about to remove.
   It holds because OpenChannel keeps the lock until the channel is stored. *)
NoChannelOutlivesItsConnection ==
  \A ch \in channels :
    of[ch] \in connections \/ KillAhead(of[ch], {"ids", "channels"})

(* kill() says "Abort managed tunnels belonging to this connection": a tunnel
   in the map belongs to a connection in the map or to one about to lose its
   tunnels, except when its set-up, which holds no lock, ended after the kill. *)
NoTunnelOutlivesItsConnectionUnlessLate ==
  \A t \in tunnels :
    \/ of[t] \in connections
    \/ KillAhead(of[t], {"ids", "channels", "tunnels"})
    \/ t \in late

Before(c, i, t, id) == \E j \in 1 .. i - 1 : inbox[c][j] = Msg(t, id)

(* A client's request reaches the action task while its channel is
   registered: the registration is ahead of it, no closing is.  Otherwise the
   server would do what it asks and the answer would be dropped. *)
RequestsFindTheirChannel ==
  \A c \in Handlers : \A i \in DOMAIN inbox[c] :
    inbox[c][i].type = "write" =>
      LET ch == inbox[c][i].id IN
      /\ ch \in registered[c] \/ Before(c, i, "register", ch)
      /\ ~Before(c, i, "unregister", ch)

\* Somebody is responsible for removing the registration of id.
Owned(c, id) ==
  \/ id \in channels \union tunnels
  \/ pc[id] \in {"insert", "setup", "store"}
  \/ \E i \in DOMAIN inbox[c] : inbox[c][i] = Msg("unregister", id)

(* A connection that is not being killed knows only channels that are open,
   being opened or being closed; only a tunnel whose set-up failed leaves its
   registration behind, for as long as the connection lasts. *)
RegistrationsAreOwned ==
  \A c \in connections : \A id \in registered[c] : Owned(c, id) \/ id \in failed

(* Who waits for an answer can be given it: the client has its question, and
   no question is with the client before its callback is in the registry, nor
   after the callback has left it.  A callback in the registry is waited for,
   unless its question could not be sent or the connect timed out while it was
   waited for: then it stays until the client answers, if it ever does. *)
CallbacksMatchQuestions ==
  /\ \A h \in Handlers : pc[h] = "wait" => question[h] \in asked
  /\ asked \subseteq registry
  /\ \A q \in registry :
       \/ \E h \in Handlers : pc[h] \in {"ask", "wait"} /\ question[h] = q
       \/ q \in abandoned

(* Requests to open a channel and to kill a connection are answered, whatever
   other handlers wait for: a connection that hangs in authentication and a
   tunnel that does not come up hold no lock.  Handlers that have not begun are
   interchangeable, so that one of them may stand for all in Followed. *)
RequestsAreAnswered ==
  \A h \in Followed : pc[h] = "lock" ~> pc[h] \in {"done", "setup"}
=============================================================================
