# A TLA+ verification of distant

distant runs commands, file operations, tunnels and searches on a remote machine. A
client and a server exchange frames over a transport that may break at any time; the
connection is then opened again, authenticated with a one-time password, and both
sides replay what the other has missed, so that running processes and open requests do
not notice. The modules here describe the parts of distant where this happens, step by
step as the code takes them. TLC checks them on small instances, and TLAPS proves every
invariant for all values of the constants, under the assumptions section 6 names.

Paths are relative to the root of the repository; `net/` is `distant-core/src/net/`.

## 1. The system

### Components

| Component | Code | State | Operations | Module |
|---|---|---|---|---|
| Framed transport and backup | `net/common/transport/framed.rs`, `framed/backup.rs` | `incoming` and `outgoing` buffers, the codec, the backup: frames kept for replay, sent and received counts, a frozen flag | `try_write_frame`, `try_flush`, `try_read_frame`, `synchronize` | `FramedTransport` |
| Connection and keychain | `net/common/connection.rs`, `keychain.rs` | the id, the one-time password of the client, the sender of the backup; a map from id to password and receiver of the backup | `Connection::client`, `server`, `reconnect`, `Drop` | `Reconnect` |
| Server | `net/server.rs`, `server/*.rs` | connection tasks, the map of connection states, the shutdown timer, a broadcast channel for shutdown | accept, `ConnectionTask::run`, `ServerRef::shutdown`, timer `stop`/`restart`/`abort` | `ServerLifecycle`, `Reconnect` |
| Queued replies | `net/server/reply.rs`, `distant-core/src/api.rs` | `hold`, `queue` | `send`, `send_before`, `flush` | `QueuedReply` |
| Channels and post office | `net/client/channel.rs`, `channel/mailbox.rs` | the map of mailboxes under one mutex, one bounded channel per mailbox | `mail`, `send`, their timeouts, `deliver`, the cleanup of orphans | `PostOffice` |
| Client event loop | `net/client.rs`, `client/reconnect.rs`, `client/shutdown.rs` | the connection, when something was last read, the connection state others watch, requests to shut down | read, write, silence, reconnect with retries and backoff, shutdown, abort | `ClientLoop` |
| Authentication | `distant-core/src/auth/` | a half-duplex exchange of messages | initialization, methods, challenges, verification | not modelled |
| Manager server | `net/manager/server.rs`, `server/*.rs` | maps of connections, channels, pending authentications and tunnels, each under its own lock; the registrations each connection's action task keeps | launch, connect, authenticate, open and close channels, tunnels, kill | `Manager` |
| Manager client | `net/manager/client.rs` | none of its own | requests and answers | not modelled |
| Host tunnels | `distant-host/src/api/state/tunnel.rs` | the actor's map of connections and listeners, a write channel per connection | open, listen, write, close, accept, relay | `HostTunnel` |
| Host watchers | `distant-host/src/api/state/watcher.rs`, `watcher/path.rs` | registrations, a count per path, the file system watcher | watch, unwatch, events | `HostWatcher` |
| Host processes | `distant-host/src/api/state/process.rs`, `process/instance.rs`, `api/process/simple.rs` | the actor's map, and for each process its pipes, channels and six tasks | spawn, stdin, kill, output, wait | `HostProcess` |
| Host searches and files | `distant-host/src/api/state/search.rs`, `api.rs` | running searches | search, cancel, file operations | not modelled |
| Client-side processes, watchers, searches, tunnels, LSP | `distant-core/src/client/` | a mailbox and a task that sorts what arrives | spawn, read, kill, watch, unwatch | not modelled |
| SSH and Docker backends | `distant-ssh/`, `distant-docker/` | pools and maps of remote processes | translation of the API | not modelled |
| Codecs, key exchange, packets, destinations, CLI, plugins, test harness | | | parsing, encryption, terminals | not modelled |

### How they interact

A caller uses a `Channel`: it makes a mailbox in the post office and puts its request
into a channel that the client's event loop reads. The event loop writes it as a frame
of the transport. At the server the task of the connection reads the frame, and a task
of its own runs the handler. The answer and everything the request sets off (output
of a process, matches of a search) go through a `QueuedServerReply` into the response
channel of the session, from there as frames to the client, whose event loop delivers
them to the mailbox.

When the link breaks, the server's task gives the response channels to its
`ConnectionState` in `ServerState.connections`, and dropping its `Connection` sends the
backup through a oneshot channel whose receiver is in the keychain next to the one-time
password. The client's event loop calls `reconnect()`. A new server task checks the
password, takes the backup, derives the next password, synchronizes, takes over the
response channels and goes on.

A manager is a server whose handler keeps clients of its own, one per connection. A client of
the manager opens a channel, and what it sends there goes through the action task of the connection
to the server behind it and back. At a server of the host, the handler passes requests on to actors: one task
each for processes, searches, tunnels and watchers, which answers one message after the
other. The tasks an actor spawns tell it of their end by a message in the same queue.

### What is hard, and the properties that make it correct

* *Replay* (`FramedTransport`). Two peers decide from two snapshots of four counters
  what to send again and what to wait for. The link may break again at any step, the
  backup is bounded, the socket may be full, and a peer can be faster than the other.
  Every frame should be delivered once, in order, and no peer may wait for a frame the
  other does not send.
* *Handover* (`Reconnect`). Three things move from task to task over three channels:
  the password, the backup and the response channels. They must move together,
  whatever fails in between, and whether or not the old task has noticed that its link
  is gone.
* *Deciding who is last* (`ServerLifecycle`). The lonely timer is stopped by one task
  and restarted by others, which look at each other's state.
* *Two locks* (`QueuedReply`). `hold` and `queue` are locked one after the other.
* *A lock held across an await* (`PostOffice`). `deliver` holds the map of mailboxes
  while it waits for room in one of them, and the owner of a mailbox may itself wait elsewhere.
* *A loop that does not listen* (`ClientLoop`). While it reconnects, and while it delivers a response, the event
  loop polls nothing else; what its watchers believe and what those who want to shut it down wait for hangs on how
  `reconnect()` returns.
* *Killing what is being made* (`Manager`). `kill` empties four maps that other handlers are filling.
* *Giving up a wait* (`Manager`, `FramedTransport`). A timeout drops a future at any of its awaits, with all it holds.
* *Messages that overtake each other* (`HostTunnel`). Three kinds of task report to one actor,
  and an entry is made by another task than the one that has it removed.
* *A count that is not kept* (`HostWatcher`). Whether a path is watched is derived from a count.
* *Draining* (`HostProcess`). A process can exit before its output was read, before its input was
  written, and while the actor waits for it.

`PROJECT.json` lists these hazards one by one with the line where each one bites.

## 2. The modules

### `FramedTransport`

Two peers, `Client` and `Server`, each with a backup. A frame is its number in the
output of its writer; all frames have the same length, so the backup's limit in bytes is
a number of frames, `MaxBackup`. The bytes between two peers are one sequence per writer,
`pipe[p]`; two counters say how much of it is in the reader's `incoming` buffer and how
much in the socket, and the rest is in the writer's `outgoing` buffer. `written` and
`delivered` are history. Heartbeats have no number: `beats` of them are somewhere among the frames of the server, and `heard`
says how many the client has read on each link.

| Action | Code |
|---|---|
| `WriteFrame`, `Flush` | `try_write_frame`: the frame is queued, counted, kept, and flushed as far as the socket takes it; `try_flush` later |
| `ReadFrame` | `try_read_frame`: a frame from `incoming`, or a chunk of any size from the socket first |
| `Heartbeat`, `ReadHeartbeat` | the server's loop writes an empty frame (`server/connection.rs:559`), the client's drops it (`client.rs:290`) |
| `Break` | the network: a prefix of what is in the socket still arrives |
| `Detect`, `Silence` | the event loops give the connection up |
| `Reopen` | `Connection::reconnect` and `Connection::server` up to `synchronize`, with the backup of the client frozen around the frames of the handshake |
| `SyncStart`, `SyncStats`, `SyncResend`, `SyncResent`, `SyncRead`, `SyncDone`, `SyncFail` | `synchronize`: one action between two awaits, and its error path |
| `SyncTimeout`, `HandshakeTimeout` | `tokio::time::timeout` in `ReconnectStrategy::reconnect` drops the future in `synchronize` or in the codec handshake |

While `synchronize` runs, the backup is moved out of the transport. The model keeps it
in `backup[p]`, since everything but a dropped future puts it back, and computes what
the transport holds instead (`Scratch`) when the future is dropped. The codec handshake moves the backup out in the same way, and
`HandshakeBackups` are what it leaves behind if it is dropped.

A heartbeat is an empty frame. `try_write_frame` tests whether a frame is empty before it is encoded, and neither counts nor keeps a
heartbeat. `try_read_frame` tests the frame as it comes, still encoded; the codec of a connection encrypts, and an encrypted empty
frame is not empty. So the client counts each heartbeat as a frame it has received (`ReadHeartbeat`), and tells the server so when it
reconnects.

Left out: the inside of the codec handshake but for this, as it uses a backup of its own, connections whose codec is plain text,
on which heartbeats are not counted, and frames longer than the whole backup.

### `Reconnect`

One session over at most `MaxTasks` links. Task `t` is the server task of the `t`-th link,
and the password agreed on that link is called `t`: both sides derive the same key. The
state says where the password, the receiver of the backup, the backup and the response
channels are. `Verify` to `Establish` are the awaits of `Connection::server`; `PutBack` is
the `unwrap_or_fail!` macro; `DropConnection` is `Drop`; `Handover`, `TakeChannels`, `LoopEnds`
and `Close` are what `ConnectionTask::run` does with the map of connections, whose write
lock `Handover` holds until the channels have come. `CancelServer` is a shutdown signal
that makes `await_or_shutdown!` drop `Connection::server` wherever it is; `wasShutdown` remembers that there was one. What happens to
frames is the subject of the module above; here `synchronize` is an exchange of stats, which
hangs if a stats frame is cleared unread (`stuck`).

### `ServerLifecycle`

The accept loop, the timer (`mode` is the configured policy: `After`, `Lonely` or `Never`) and the connection tasks.
`overlapped` remembers whether two connections were open at a time. `entry` is the `ConnectionState` of a connection. `finishing` stands for the time between sending the
channels and the end of the inner task that receives them, in which `is_finished()` is
still false. `End` is the decision of `terminate_connection!` to restart the timer. `Stop` aborts the task of the timer, which is finished only when the
runtime gets to it (`AbortedEnds`); until then `is_running()` is true, and `Restart` does nothing (`missed`).

### `QueuedReply`

One request and the tasks it has set off, the `Streams`. `send` is two steps, because the
lock on `hold` is released before the queue is locked; `flush` holds the lock on `hold`
through its three steps. The handler of the request is `HandlerDone`.

### `PostOffice`

Callers, the event loop, the server and the cleanup task. `loop` says where the event
loop is in `deliver`, and thereby who has the mutex: `send` while it waits for room, and
`relock` when it wants to lock the mutex again to remove a closed mailbox. `Forwarders` are owners that pass
their responses on, as `process_incoming_responses` does (`client/process.rs:515`): having read a response, such an owner may be
`stalled` in the send to a bounded channel, and reads no more until somebody takes it from there (`Forwarded`), which `output()`
does only after the exit of the process.

### `Delivery`

What a pair of transports promises its owners in the abstract: a counter of frames written per peer and the
sequence of frames handed out at the other end. `HandOut` takes any frame that was written and not handed
out before. `FramedTransport` implements it with `written` and `delivered` as the mapping (`Promise`, an
`INSTANCE`), and all else, links, backups, counters and replay, as stuttering. Order and completeness are not
part of it, since the code keeps neither (section 4).

### `ClientLoop`

The task of `UntypedClient::spawn`. `pc` says whether it is in its `select!`, in the delivery of a response, in an attempt of
`ReconnectStrategy::reconnect`, or in the sleep behind one. `ReadResponse` begins to await `deliver_untyped_response`, and `Delivered`
is its return, which need not come: what goes on in between is `PostOffice`. The strategy is a record chosen in `Init` and has
a kind, a base, a factor, limits on sleeps and retries, and a timeout or none; durations are small numbers. A link that is
silent and a link that is closed are both `~link`: the loop does the same. `LoseConnection` stands for all
seven places where the loop decides to reconnect. `Shutdown`, `Enqueue`, `TakeShutdown` are `Shutdown::shutdown`
with its channel of one; `Abort` is `Drop` with `shutdown_on_drop`.

### `Manager`

A handler is the task of one request, `pc[h]` the await it is at; a request that takes one lock and
answers (`Channel`, `CloseChannel`, `Authenticate`, `CloseManagedTunnel`) is one step. What a handler creates
carries its name, except for callbacks, which have ids of their own (`Callbacks`): a connect that fails or times out goes on with the
next address of the host and may ask again. `ConnectTimeout` is the plugin's `connect_timeout`, which drops the wait for an answer
(`distant-host/src/plugin.rs:76`); the callback stays in the registry (`Abandon`) and a late answer to it is taken and lost. The only lock held across an await is that of `connections`: `kill` holds it for writing to its end,
as the guard in the scrutinee of its `match` lives that long, `OpenChannel` for reading until its channel is stored.
The tunnel requests let it go before they set the tunnel up. `Act` is `action_task` on one message, with `registered` its
map; `Stop` is an aborted task at its next await. `Connected` are handlers that have made a connection before the run
begins, by the same steps.

### `HostTunnel`

`inbox` is the actor's channel of one together with the senders that wait for it, which tokio serves in order.
`busy` is the await of `TcpStream::connect` inside the actor. A listener that was aborted takes with it the one message it
had not got into the channel (`Stop`); a connection whose entry is dropped loses its write sender and drains
(`CloseGently`). `PeerMoves` is the other end of a TCP stream: it may stop reading, shut down its side or go away. A reply that
cannot be sent, because the client's session is over, is not modelled.

### `HostWatcher`

Paths with links between them, of which `canonicalize` gives the end as long as it exists; the watcher
of the operating system (external) covers a path flat or recursively and forgets one that is deleted. `WatchCounted`
and `WatchFirst` are the two branches of `Watch`. The registrations are a set, as the order of the Vec does not matter, and each
has the number of its request: two that are otherwise equal are two entries, as `removed_cnt` counts them. `rx` is the channel
of the actor. Events carry no information here: which registrations
they are passed to is left out. No path lies within another one, so what ending the watch of a directory does to a watch below it is
not covered. Whether the operating system accepts an `unwatch` (`watcher.rs:299`) decides the answer the client gets, which is left
out; the registrations are gone in both cases.

### `HostProcess`

For each process of the actor: the task that owns the child (`KillChild`, `ChildExits`), the readers of its pipes (`Read`,
`ReaderEnds`), the forwarders to the client (`Forward`), the writer of its stdin (`TakeStdin`, `WriteStdin`,
`WriteFails`) and `wait_task` (`WaitReturns`, `Done`, `DrainTimesOut`, `OnDone`). A reader that was aborted
loses what it has not passed on, which the model leaves in `pipe` until then: `Read` takes a chunk and sends it in one step, so a
chunk that the reader holds while it waits for room counts as one that it has not read. `Plans` bounds what is asked
of which process.

## 3. What TLC checks

Each run is a `.cfg` file. `CHECK_DEADLOCK` is off everywhere: a client may stop sending, and
bounded runs stop when their bounds are used up. States in which somebody waits forever
are what the liveness properties are about.

| Run | Bounds | What it shows |
|---|---|---|
| `FramedTransportSafety` | 2 and 3 frames, backup 2, socket 2, 2 breaks, 2 new links, 2 heartbeats on each link | `BackupIsSuffixOfWritten`: the backup is the newest frames, without a gap, and counts all of them. `FirstReconnectLosesOnlyMiscounted`: after one reconnect every frame has been delivered or is on its way, if the backup is large enough, except that the server leaves out one frame for each heartbeat the client has counted. `ImplementsDelivery`: every step is a step of `Delivery` or a stutter, so no frame is invented and none is handed out twice. `InductiveInvariant`: why, see section 6. |
| `FramedTransportLiveness` | 1 and 3 frames, backup 2, socket 1, 1 break, 2 new links, 1 heartbeat on each link, timeouts | `SyncEndsUnlessSwallowed`: both sides agree on how many frames are replayed, so that none waits for one that does not come. |
| `ReconnectSession` | 4 links, 2 breaks, shutdowns, refusals | `NeverFresh`: the fallback to a fresh backup is never taken. `EntryLeadsToBackup`: one custodian of the backup, and the keychain leads to it. `SessionKept`: without a shutdown, no sequence of failures loses the session. `OneLoop`, `HandoverNeverBlocks`: the replaced task is out of its loop before its successor is in it, and nobody waits while holding the lock. `SameChannels`: running requests keep their channels. `SupersededOtpRejected`: an old password is never accepted. `AttemptEnds`: every attempt ends. |
| `ServerLifecycle` | 3 connections, each of the three policies | `TimerEndsServer`: the server ends when its time is over, whatever the connections are doing. `TimerStoppedUnlessOverlap`, `LonelyShutsDownUnlessOverlapOrMissed`: the lonely timer works if connections follow one another, and none ends in the moment in which the timer it aborted still counts as running. |
| `QueuedReplyOrder` | 2 tasks, 3 messages each | `AnswerFirst`, `InStreamOrder`. |
| `PostOffice` | 2 callers, one of which forwards, 3 responses, mailboxes of 1 | `NoAnswerDropped`: a response is dropped only if nobody waits for it. `DeliverReturnsUnlessDroppedOrUnread`, `EveryRequestEndsUnlessDroppedOrUnread`: a full mailbox delays everybody, but not forever, as long as no response meets a mailbox that was dropped or one whose owner is held up for ever. |
| `ClientLoop` | 31 strategies with limits at their edges, 2 breaks, 2 callers | `WatcherTellsTheTruth`: what a watcher is told of the client is so. `AllAttemptsWithinLimits`: all attempts that are allowed and none more, with sleeps within the limit. `ShutdownReturnsUnlessReconnectingOrDelivering`. |
| `Manager` | 1 connection and 3 requests of any kind, 2 callback ids, with client traffic and closings in between | `NoChannelOutlivesItsConnection`, `NoTunnelOutlivesItsConnectionUnlessLate`: `kill` leaves nothing behind. `RequestsFindTheirChannel`: what a client sends through an open channel is between its registration and its end. `RegistrationsAreOwned`: every registration is somebody's to remove. `CallbacksMatchQuestions`: an answer that somebody waits for finds its callback, whichever connects time out and ask again. `RequestsAreAnswered`: no handler waits for a lock for ever. |
| `HostTunnel` | 2 tunnels, 4 requests, write channels of 1 | `NoStaleEntryUnlessOvertaken`, `SubTunnelsBelongToTheirListener`: the map agrees with the tasks. `DataLostOnlyIfPeerShutDown`: closing does not drop what was accepted. `ClosedConnectionsEnd`. |
| `HostWatcher` | 2 connections, a directory and a link to it, 4 requests, 2 changes, a channel of 2 | `RegisteredIsWatchedUnlessMisjudged`, `UnusedIsUnwatchedUnlessShared`: registrations and watches agree. |
| `HostProcess` | 1 process with input, output and a kill; 2 processes, one of which is fed and one killed | `DoneIsLast`: nothing comes after `ProcDone`. `OutputReportedUnlessUnread`: all output is accounted for. `KilledOrBlocked`: kills take effect and processes leave the map. |

A property whose name has an *Unless* in it names the cases in which the code does not do what
it should, and says that there are no others. It does not show that these cases are harmless, and it cannot tell whether they were
repaired. `PROJECT.json` notes with each hazard which part of it a property leaves out. The exceptions are real:

* *Swallowed*: `synchronize` begins with `clear()`. A stats frame that the faster peer has sent, and that came in
  one chunk with the last frame of the key exchange, is lost, and the wait for it has no limit.
* *Overlap*: a connection that ends looks for others by counting unfinished entries. If two end together, each
  sees the entry of the other one, and nobody restarts the timer: a lonely server stays up. The other
  way round is the run `TimerStoppedWhileConnected` of section 4.
* *Missed*: a connection that ends before the runtime has got to the timer task it aborted takes the timer for running and
  starts none; a lonely server stays up until another connection comes and goes.
* *Dropped*: the run `PostOfficeDeadlock` of section 4.
* *Unread*, of a mailbox: the owner waits for room in the channel it forwards to, and its reader waits for the exit of the
  process, which is among the responses that no longer get through. The whole client stands still.
* *Delivering*: the event loop polls nothing while it delivers a response, which by *Dropped* and *Unread* may be for ever.
* *Reconnecting*: nobody looks at requests to shut down while `reconnect()` runs, which with unlimited retries, or with an
  attempt that hangs and no timeout, is for ever.
* *Late*: a tunnel whose set-up ends after its connection was killed is stored all the same; nothing removes
  it but `CloseManagedTunnel`.
* *Overtaken*: a connection that ends while its listener still waits to register it is registered after it
  was removed, and its entry stays.
* *Misjudged*: the count of a path is never lowered and never removed. A path that was unwatched, or deleted, is
  taken for watched when it is registered again, and a recursive registration of a path that is
  watched flat is taken for covered.
* *Shared*: for the same reason, a path that two connections gave up one after the other stays watched.
* *Unread*, of a pipe: `wait()` aborts the readers of the pipes once the process has exited, and what they have
  not read is lost.
* *Blocked*: the actor waits for room in the stdin channel of a process that does not read, and
  kills neither this one nor any other.

Some properties have their exception in the formula. `WatcherTellsTheTruth` exempts `max_retries = Some(0)`:
no attempt is made, and `reconnect()` returns `Ok`. `AllAttemptsWithinLimits` exempts the first sleep, which is the base and
not capped. `RegistrationsAreOwned` exempts tunnels whose set-up failed, whose channel stays registered, and
`CallbacksMatchQuestions` callbacks whose question could not be sent, or whose connect timed out before the answer.
`FirstReconnectLosesOnlyMiscounted` says which frames are lost, and is about the first reconnect, as replayed frames can be lost at
the second (section 4). `SubTunnelsBelongToTheirListener` exempts a
registration that was in the channel when its listener was closed. `ClosedConnectionsEnd` exempts a peer that does not read.

`SyncTimeout` and `HandshakeTimeout` are an exception of `BackupIsSuffixOfWritten`: with a timeout in the reconnect strategy the
future that owns the backup can be dropped, and the backup with it. The configurations that are shipped have no such timeout,
and the runs and theorems about the backup assume that there is none.

### Why the bounds are enough

*FramedTransport*: the interesting cases are a backup smaller than what is written (2 < 3), a
chunk of more than one frame (a socket of 2), a second break in the middle of the replay (2 breaks, 2 links),
more heartbeats on a link (2) than one frame can hide, and, in `FramedTransportLiveness`, a socket smaller than what is to be replayed (1 < 2). A third link meets peers in
the same states as the second. *Reconnect*: a successor can overtake at most the one task
that still holds the backup; with four links there are two generations of each. *ServerLifecycle*:
the decision to restart compares a count with one, so that two connections and a bystander
suffice. *QueuedReply*: two tasks race with the request for a lock. *PostOffice*: one caller
blocks the delivery, by not reading yet, by being stalled or by being gone, and the other one suffers from it. *ClientLoop*: the retries reach their limit, go beyond it by none, and
sleeps reach both `max_duration` and the saturation at `MaxSleep`; a second break meets a loop that has reconnected once.
*Manager*: races are between two handlers, and the third makes what they race about (a connection, a channel, a
tunnel); with two callback ids a connect can give up one question and ask another while a second connect asks. `RequestsAreAnswered`
is checked of the handler in `Followed`: handlers that have not begun are interchangeable. *HostTunnel*: a listener and its connection, or two connections, and four requests suffice to open, write,
close and close again; 3 tunnels and 3 requests were checked once as well (629,133 states). *HostWatcher*: two
registrations, two removals; the channel is smaller than the number of messages, so that events are dropped. *HostProcess*:
three writes fill the write task, its channel and the actor itself. The theorems of section 6 do
not depend on any bound. The connections of `HostWatcher` are declared symmetric; the
other runs that could be have liveness properties, which symmetry does not allow.

### Fairness

Tasks of the tokio runtime that can go on are polled again, and timers expire: hence weak
fairness of every step of a task that waits for nothing but what its guard says. No fairness
is assumed of the network, of clients (they need not connect, finish a handshake or leave), of
callers that may time out, or of calls to `shutdown`. The owner of a mailbox is fair as long as it is at its mailbox; nobody has to
take what a stalled one forwards. In `PostOffice` two steps have strong fairness:
`Fire`, since tokio's bounded channels serve their waiting senders in order, and `TakeResponse`, since
the event loop reads and writes in turns on every iteration. In `Reconnect`, fairness of
a server task whose link is gone stands for its heartbeats, which fail on it sooner or later; in
`FramedTransport`, fairness of `Silence` is the silence timer of the client.

In `ClientLoop` the delivery of a response need not end, and `TakeShutdown` has strong fairness: `tokio::select!` polls its branches in random order, so a request that is
there each time the loop comes by is taken at some time, although a link that breaks again and again could
take its place. An attempt to reconnect ends for certain only under a timeout, so its failure is fair
only then. In `Manager` no plugin, timeout, client or tunnel set-up is fair; only what the action tasks (`Act`) and the handlers (`GoesOn`) do
on their own. In `HostTunnel` a connect ends, because the operating system limits it; peers are not fair. In `HostProcess`
nothing makes a process exit or read.

## 4. What the documentation says and the code does not do

The run `PostOfficeDeadlock` ends in a counterexample to `DeliverReturns`: `deliver` fails to send to a mailbox that was dropped, and locks the mutex its
own guard still holds. The event loop never runs again. `PROJECT.json` quotes the line of the repository that says
otherwise.

Six more statements are kept as definitions that do not hold. Added to the `INVARIANTS` of the configuration named here, each one gives a
counterexample within seconds:

| Definition | Configuration | What happens | What the repository says |
|---|---|---|---|
| `NothingLost` | `FramedTransportSafety` | Replayed frames are counted as received when they are queued in `incoming`. If the link breaks again before they are read, the next `synchronize` clears them and tells the peer that it has them. | "any frames not received by the other side are sent again and then this transport waits for any missing frames" (`framed.rs:452`) |
| `EmptyFramesAreNotTracked` | `FramedTransportSafety` | The client counts encrypted heartbeats as received frames, the server does not count them as sent. At the next reconnect the client claims frames it has not had, and the server does not send them again. | "Empty [`Frame`]s are an exception and are not stored within the backup nor are they tracked in terms of sent/received counts" (`framed/backup.rs:12`) |
| `InOrder` | `FramedTransportSafety` | `synchronize` reads a frame from the front of `incoming` and writes it back at the end, behind frames of the same chunk. | the test at `framed.rs:1660` expects the order in which they were sent |
| `OtpAgreement` | `ReconnectSession`, also without shutdowns and refusals | The link breaks when one side has finished synchronizing and the other has not: the passwords differ, and every later attempt is refused. | "only updating if the connection fully completes" (`connection.rs:311`) |
| `TimerStoppedWhileConnected` | `ServerLifecycle` | `count() <= 1` includes the connection that is still there if the one that ends has no unfinished entry: a lonely timer runs while a connection is in use. | "Restart our shutdown timer if this is the last connection" (`server/connection.rs:331`) |
| `NothingLeftBehind` | `QueuedReplyOrder` | A task reads `hold`, the request flushes, the task pushes: the message stays in the queue. | "Lock hold so we can ensure that nothing gets sent to the queue after we clear it" (`reply.rs:133`) |

Where a property of section 3 has an exception, the same can be said: without its *Unless* part it states what a comment
promises. `kill` is to "Abort managed tunnels belonging to this connection" (`manager/server.rs:191`), `WatchCounted` acts
"since we are already watching a path that impacts this one" (`watcher.rs:253`), `wait_task` "drains stdout/stderr before
sending ProcDone" (`process/instance.rs:145`), and `close` of a listener closes "all of its accepted sub-tunnels" (`tunnel.rs:130`).
A comment at `net/server.rs:205` says that the accept loop is left when the shutdown
signal has been received, and the loop does not listen to that channel (`RequestShutdown` of
`ServerLifecycle`, which leaves `server` alone).

## 5. Mutants

Every property of a passing run comes with a mutant of a definition that models code:
a guard dropped, a count off by one, a reset forgotten. The mutated form stands
before the definition it replaces, with a comment that begins with *Mutant*. TLC finds the property
violated when the definition is replaced.

## 6. What is proved

### `FramedTransportProofs`

For all numbers of frames, breaks and links and all sizes of backup and socket:

* `TypeCorrectness`: `Spec => []TypeOK`. `TypeOK` contains the bound
  `inbuf[p] + onwire[p] <= Len(pipe[p])`, that buffer and socket hold no more than was written.
  It is not inductive by itself. Whether a replayed frame can be taken off depends on the
  stats having been read (`StatsRead`), and the type of the backup after `Reopen` on the backup not being frozen
  while the connection is up (`NotFrozen`). `Typed` is the conjunction.
  `ThroughReconnectIsIdentity` is the lemma that freezing the backup makes the handshake
  invisible to it.
* `BackupCorrectness`: `AttemptTimeout = FALSE` implies `Spec => []BackupIsSuffixOfWritten`. The proof carries `SuffixInv`,
  the same fact stated with `Suffix`, together with `Typed`. Two lemmas about `Newest` do the work: the newest
  frames of the newest frames are the newest frames (truncation), and appending a frame and
  dropping the oldest keeps a suffix (eviction). `SyncTimeout` and `HandshakeTimeout` are why the assumption is needed.
* `TheCountsStayInStep`: `AttemptTimeout = FALSE` implies `Spec => []InductiveInvariant`. `TransportInv` is `InductiveInvariant` with
  `SuffixInv` in place of `BackupIsSuffixOfWritten`; `Direction(q)` is what it says of the frames that `q` writes. Its
  core is `PipeInv`: a frame that is on its way at position `i` has a number of at most the count its reader will have
  when it has read up to there, a bound that survives the rotation of frames in `SyncRead`. `AgreementInv` says that the
  reader waits for no more frames than the writer sends again. The proof has one lemma for each action and each
  direction it changes (`WriteFrameKeeps`, `SyncStatsKeepsOut`, `SyncStatsKeepsIn`, ...), `DirectionSame` for a direction that a step leaves alone
  and `DirectionBroken` for all steps after which the link is broken; `DirectionStep` puts them together.
* `NoFrameIsDeliveredTwice` (`[](AtMostOnce /\ NeverUndercounts)`) follows, and `TransportsImplementDelivery`: `Spec => ImplementsDelivery`. The initial
  state maps to the initial state of `Delivery`; `WriteFrame` maps to `Send`, `ReadFrame` to `HandOut`, as `PipeInv` says that the frame
  was written and not handed out before, and all other steps to stutters (`DeliveryStep`).
* `TheFirstReconnectLosesOnlyMiscounted`: `Spec => []FirstReconnectLosesOnlyMiscounted`, for any number of heartbeats and also with an
  attempt timeout. What a peer has had (`Had`) is what it has counted less the heartbeats it has heard on the first link (`Heard`).
  `FirstReconnectInv` says that on the first link `Had` is exact and the frames on their way are the next ones
  (`FirstLink`); hence what a peer claims in the first synchronization it has, but for as many frames as it has heard heartbeats
  (`ClaimsAreTrue`); that the writer has kept everything until it reads the claim (`AllKept`); and that from then on each frame is
  handed out, on its way, still to be sent again or one of those (`AllCovered`, `Miscounted`). After a second reconnect the claims are
  wrong for another reason too: replayed frames are counted before they are read.

### `QueuedReplyProofs`

For all sets of tasks and all numbers of messages:

* `AnswerGoesFirst`: `Spec => []AnswerFirst`. `AnswerFirstInv` adds that nothing is sent directly
  while the reply is on hold, that nothing is sent at all before the flush, and that the
  answer is the head of the queue from the moment it is inserted. Pushes that race with
  the flush are appended, and do not matter.
* `StreamsStayInOrder`: `Spec => []InStreamOrder`. `OrderInv` relates what was sent, what is queued and what a
  task is about to push: all that is queued by a task is newer than all it has sent, as long as the
  queue will be flushed. After the flush a queued message stays where it is, so a newer
  one that is sent directly does not overtake anything that is sent later.

### `ReconnectProofs`

For all numbers of links and breaks, with any failures, refusals and shutdowns. `SessionInv` carries all six
invariants and the action property:

* Who has the backup. `CustodyInv`: at most one task holds the backup of the session or has it in its oneshot channel.
  The entry is in the keychain or with one task that is reconnecting (`EntryInv`), and it names that custodian. This is
  why the fallback to a fresh backup is never taken (`BackupIsNeverFresh`), why the entry leads to the backup
  (`TheEntryLeadsToTheBackup`), and, with `KeptInv`, why nothing but a shutdown loses the session (`TheSessionIsKept`).
* A task that serves the session holds the backup (`HeldInv`), and there is one custodian, so there is one such task
  (`OneTaskServesTheSession`). The task it has replaced gave the backup away when it dropped its connection, after it
  had saved its channels: the handover finds them (`TheLockIsNotHeldForLong`) and they are the ones the session began with
  (`TheChannelsStayTheSame`, from `ChannelsInv`).
* `OldPasswordsAreRejected`: `Spec => SupersededOtpRejected`. `PasswordInv` says that the entry in the keychain has the
  password that was stored last.

### `ServerLifecycleProofs`

For any set of connections and each policy. `TimerInv` says that, as long as no two connections have overlapped, at most
one task is active, a live entry belongs to an active task, and the lonely timer is stopped while a task is active and runs
otherwise, unless the last restart was missed: hence `ConnectionsStopTheTimer` (`Spec => []TimerStoppedUnlessOverlap`) and its counterpart
`TheLastConnectionRestartsTheTimer` (`Spec => []TimerRunsWhileLonely`), which is the safety part of
`LonelyShutsDownUnlessOverlapOrMissed`. The only use of cardinality is `LastConnection`: a set all of whose elements are equal has
at most one.

### `ClientProofs`

`ClientLoop`, for all sets of strategies that `StrategiesAreStrategies` admits. `LoopInv` ties what the watcher was told last, the
result of the task and the established flag to `pc`, and the number of retries left to the number of attempts made:
`WatchersAreToldTheTruth` and `AttemptsKeepTheLimits`.

`PostOffice`, for all sets of requests, all capacities and all numbers of responses. `NoAnswerDropped` is not inductive by itself:
a response that `deliver` finds no mailbox for counts as dropped, so a mailbox that somebody may still read has to be in the
map (`OpenIsListed`), and one that is made must not be for a request that has been answered (`NothingUnasked`). `PostInv` is the
conjunction, with the types; `NoAnswerIsDropped` follows, without any assumption on fairness or on who holds the mutex.

### `ManagerProofs`

For any number of requests side by side. `ManagerInv` has fifteen parts; what they say is this:

* `LockInv`: which handlers have the lock on the connections at which `pc`. `kill` is the only writer, and it removes the
  connection before it asks for the ids of its channels; `OpenChannel` keeps the lock until its channel is stored. So no
  channel of a connection is added once its kill has begun, `FoundInv`: `kill` has found exactly the channels of the
  connection, and `NoChannelIsLeft`, `NoTunnelIsLeftUnlessLate` follow.
* `MessageInv`, `OrderInv`, `RegisteredInv`: each message to an action task names a handler that has come far enough for
  it, and a registration comes before all that depends on it: the requests and the end of its channel, and the question of
  `kill`, after which there are none. `RequestsComeInTime` follows.
* `OwnedInv` relates a registration to the maps, to the handler that makes it and to the unregistration on its way:
  `NoRegistrationIsOrphaned`.
* `QuestionInv`: a callback is put into the registry before its question is sent, and no two handlers that ask or wait share one, so
  neither an answer to a late question nor a connect that gives up takes away what another one waits for. `AnswersFindTheirCallback`
  follows, with any number of callback ids.

### `HostTunnelProofs`

For any number of tunnels and requests and any room in the write channels. `TunnelInv` adds to the three properties:
`PendingInv` and `HoldsInv`, a sub-tunnel that its listener holds or that is in the actor's queue to be registered has no
entry yet, is registered once, and its end is accounted for (its task runs, its removal is on the way or has overtaken it);
`FreshInv`, an id that has not been given out is nowhere. They give `NoEntryIsStaleUnlessOvertaken`,
`ListenersKnowTheirSubTunnels` and `ClosingLosesNoData`. The lemmas `WithoutKeeps` and `AppendKeeps` say what becomes of
the messages in the queue when one is taken out at any place or added.

### `HostActorProofs`

`HostProcess`, for any set of processes and plans. `Conserved` says where each chunk of output is: what was produced is what was reported,
what waits in the channel, what is in the pipe and what was lost. `SpawnedOnce` and `EndsInOrder` say that a process is
spawned once, though its request travels through the actor's queue, and which of its tasks can have ended at which time.
`OutputInv` is the conjunction with `DoneIsLast`. `ProcDoneIsLast` and `OutputIsReported` follow.

`HostWatcher`, for any connections and any paths with links among them. The two properties need each other's bookkeeping. What
carries both is that the count of a path, which is never lowered, is at least the number of its registrations
(`CountsAreNotLow`), so a path without a count has none (`NoneAtZero`), and the first registration sets a mode that no
other depends on. An `unwatch` removes by the canonical and by the raw path. A path that has a count is canonical
(`CountedIsCanonical`) and every entry has the path its raw path stands for (`PathsAreResolved`), so it removes
registrations of that path only, and if they reach the count they are all there are (`Removed`): the watch that ends is
nobody else's. `OneMore` and `SomeLess` are the facts about cardinality. `WatchInv` is the conjunction; `RegisteredIsWatched` and
`UnusedIsUnwatched` follow.

Two components that are proved about in one module are extended by it side by side, which is why `PostOffice` and `HostWatcher`
call their specifications `PostSpec` and `WatcherSpec`. They share no variable, and each theorem is about one of the two.

### The assumptions

All proofs use the assumptions on constants that the modules name (`PeersDiffer`, `BoundsAreNaturals`, `QueuedReplyConstants`,
`ReconnectConstants`, `StrategiesAreStrategies`, `PlansAreBounds`, `NoneIsNoHandler`,
`ConnectedByHandlers`, `FollowedAreHandlers`, `LinksLeadToCanonical`) and nothing else; TLC
evaluates these on every run. Each inductive invariant was checked by TLC as an invariant before it was proved.

### What stays with TLC

Liveness under fairness (`SyncEndsUnlessSwallowed`, `AttemptEnds`, `LonelyShutsDownUnlessOverlapOrMissed`, `TimerEndsServer`,
`DeliverReturnsUnlessDroppedOrUnread`, `EveryRequestEndsUnlessDroppedOrUnread`,
`ShutdownReturnsUnlessReconnectingOrDelivering`, `RequestsAreAnswered`,
`ClosedConnectionsEnd`, `KilledOrBlocked`) is beyond the prover. Every invariant and every
action property of a run is a theorem, and so is the refinement. What happens with an attempt timeout is proved only where the theorem does not assume
`AttemptTimeout = FALSE`: a timeout in the middle of `synchronize()` or of the codec handshake leaves the client with the backup of the attempt, so neither
`BackupIsSuffixOfWritten` nor `InductiveInvariant` is claimed for it.

## 7. What is not modelled

* Bytes: partial frames, codecs, compression, encryption, serialization. A frame is written
  and read as a whole, which the code ensures by its length prefix.
* Several sessions on one server. Sessions share the map of connections and its lock, which
  matters if `shutdown_and_wait` could block; `HandoverNeverBlocks` says that it cannot.
* Entries of clients that never come back: the maps grow, and nothing removes them.
* The default mailbox of the post office, which only the manager uses.
* Memory: `PostOffice` and the response channels are bounded or unbounded as in the code, but
  running out of memory is no state of the model.
* Authentication: initialization, methods, challenges and verification alternate strictly over one link, so there is
  no interleaving to check; in `Reconnect` and `Manager` it succeeds, fails or hangs.
* The manager's requests that only read, the translation of ids in its channels, the default mailbox its
  connections read from, and the relay loops of its tunnels.
* Searches and file operations of the host: one task each that reads files until it is through or cancelled. Pseudo
  terminals, which wait in the operating system's threads. Symbolic links that are replaced while they are watched, and the
  filter of events by kind and path.
* The client's side of processes, watchers, searches, tunnels and LSP: tasks that sort responses into channels. Only that such a task
  may be held up is modelled, in `PostOffice`.
* The SSH backend's pool, and the SSH and Docker backends, which translate requests into calls of libraries.
* The command line, options, protocol messages, destinations, the vendored `nix` crate and the test harness: parsing,
  formatting and data types without a state of their own. They are most of the repository's lines.

## 8. Plan

Done: `FramedTransport` with `Delivery`, `Reconnect`, `ServerLifecycle`, `QueuedReply`, `PostOffice`, `ClientLoop`, `Manager`,
`HostTunnel`, `HostWatcher` and `HostProcess`, and the proofs of section 6. What is left: the client's side of processes
and tunnels (`distant-core/src/client/process.rs`, `tunnel.rs`), composed with the host's actors. There a task sorts responses
into bounded channels while its user waits for the exit, reads or drops them, which is the hazard to begin with.
