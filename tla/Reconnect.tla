------------------------------ MODULE Reconnect ------------------------------
(***************************************************************************)
(* One client session and the server tasks that carry it, one after the    *)
(* other, as the client reconnects.  The session is three things that the  *)
(* tasks hand on: the one-time password that lets the client in again (in  *)
(* the keychain), the backup of the transport (through a oneshot channel   *)
(* whose receiver is kept in the keychain with the password), and the      *)
(* response channels of the running requests (through the entry of the     *)
(* session in ServerState.connections).                                    *)
(*                                                                         *)
(*   distant-core/src/net/common/connection.rs   reconnect(), server()     *)
(*   distant-core/src/net/common/keychain.rs     insert, remove_if_has_key *)
(*   distant-core/src/net/server/connection.rs   ConnectionTask::run       *)
(*   distant-core/src/net/server/state.rs        ConnectionState           *)
(*                                                                         *)
(* Task t serves the t-th link of the session.  Both peers derive the same *)
(* key from a key exchange, so the password agreed on link t is called t.  *)
(* Counting and replaying frames is the subject of FramedTransport.        *)
(***************************************************************************)
EXTENDS Naturals, FiniteSets

CONSTANTS
  MaxTasks,      \* bound: how many links the client opens
  MaxBreaks,     \* bound: how often the network breaks a link
  CanShutdown,   \* may somebody call ServerRef::shutdown?
  CanRefuse      \* may on_connect of the handler fail?

ASSUME ReconnectConstants ==
  /\ MaxTasks \in Nat \ {0}
  /\ MaxBreaks \in Nat
  /\ CanShutdown \in BOOLEAN
  /\ CanRefuse \in BOOLEAN

Tasks == 1 .. MaxTasks
NoTask == 0
NoOtp == 0
First == 1

VARIABLES
  client,       \* [pc, otp, task]: the client's Connection and its link
  pc,           \* where the server task of a link is
  link,         \* "none", "open" or "broken"
  wire,         \* what was written on the link while it was open
  offered,      \* the password sent on the link, NoOtp for ConnectType::Connect
  from,         \* the task whose oneshot a task waits for
  held,         \* the backup a task holds: "none", "session" or "fresh"
  oneshot,      \* backup channel of a task: "empty", a backup, "dropped" if the
                \* sender is gone, "closed" if the receiver is
  keychain,     \* entry of the session: NoEntry or [otp, rx]
  connections,  \* whose ConnectionState is in ServerState.connections
  channels,     \* the response channels a task uses, named by their creator
  saved,        \* its ConnectionState: "empty", "channels" or "dropped"
  stuck,        \* links on which synchronize hangs (see FramedTransport)
  signalled,    \* tasks with an unread shutdown signal
  stored,       \* history: the newest password put into the keychain
  wasShutdown,  \* history: was ServerRef::shutdown called?
  breaks

vars == <<client, pc, link, wire, offered, from, held, oneshot, keychain, connections,
          channels, saved, stuck, signalled, stored, wasShutdown, breaks>>

NoEntry == [otp |-> NoOtp, rx |-> NoTask]

Init ==
  /\ client = [pc |-> "new", otp |-> NoOtp, task |-> NoTask]
  /\ pc = [t \in Tasks |-> "none"]
  /\ link = [t \in Tasks |-> "none"]
  /\ wire = [t \in Tasks |-> {}]
  /\ offered = [t \in Tasks |-> NoOtp]
  /\ from = [t \in Tasks |-> NoTask]
  /\ held = [t \in Tasks |-> "none"]
  /\ oneshot = [t \in Tasks |-> "empty"]
  /\ keychain = NoEntry
  /\ connections = NoTask
  /\ channels = [t \in Tasks |-> NoTask]
  /\ saved = [t \in Tasks |-> "empty"]
  /\ stuck = {}
  /\ signalled = {}
  /\ stored = NoOtp
  /\ wasShutdown = FALSE
  /\ breaks = 0

-----------------------------------------------------------------------------
(* The network and the client *)

serverVars == <<pc, from, held, oneshot, keychain, connections, channels, saved,
                signalled, stored, wasShutdown>>

\* What is written on a broken link is lost.  What was written before may have
\* arrived: it can be read, and the read can fail.
Write(t, frame) ==
  wire' = [wire EXCEPT ![t] = IF link[t] = "open" THEN @ \union {frame} ELSE @]

Break(t) ==
  /\ link[t] = "open"
  /\ breaks < MaxBreaks
  /\ breaks' = breaks + 1
  /\ link' = [link EXCEPT ![t] = "broken"]
  /\ UNCHANGED <<client, wire, offered, stuck, serverVars>>

\* The client opens link t, which drops its old one, says what it wants and
\* writes its half of the key exchange; the listener spawns task t.
OpenLink(t) ==
  /\ client' = [client EXCEPT !.pc = "exchange", !.task = t]
  /\ link' = [u \in Tasks |-> IF u = t THEN "open"
                             ELSE IF u = client.task THEN "broken" ELSE link[u]]
  /\ offered' = [offered EXCEPT ![t] = client.otp]
  /\ pc' = [pc EXCEPT ![t] = "type"]
  /\ UNCHANGED <<wire, from, held, oneshot, keychain, connections, channels, saved,
                 stuck, signalled, stored, breaks, wasShutdown>>

(* Connection::client *)
ClientConnect == client.pc = "new" /\ OpenLink(First)

(* Connection::reconnect *)
ClientReconnect ==
  /\ client.pc = "down"
  /\ client.task < MaxTasks
  /\ OpenLink(client.task + 1)

(* The event loop of the client gives the connection up: the link is closed,
   or no heartbeat came for silence_duration because the task of the link is
   not in its loop. *)
ClientDown ==
  /\ client.pc = "up"
  /\ link[client.task] = "broken" \/ pc[client.task] # "loop"
  /\ client' = [client EXCEPT !.pc = "down"]
  /\ UNCHANGED <<link, wire, offered, stuck, breaks, serverVars>>

\* A peer that starts to synchronize when the other one already has may
\* clear the stats frame of the other one unread (FramedTransport!SyncStart).
MaybeStuck(t, frame) ==
  stuck' \in {stuck, IF frame \in wire[t] THEN stuck \union {t} ELSE stuck}

(* The first connection is complete with the key exchange. *)
ClientConnected ==
  LET t == client.task IN
  /\ client.pc = "exchange"
  /\ client.otp = NoOtp
  /\ "server key" \in wire[t]
  /\ client' = [client EXCEPT !.pc = "up", !.otp = t]
  /\ UNCHANGED <<link, wire, offered, stuck, breaks, serverVars>>

ClientExchange ==
  LET t == client.task IN
  /\ client.pc = "exchange"
  /\ client.otp # NoOtp
  /\ "server key" \in wire[t]
  /\ client' = [client EXCEPT !.pc = "sync"]
  /\ Write(t, "client stats")
  /\ MaybeStuck(t, "server stats")
  /\ UNCHANGED <<link, offered, breaks, serverVars>>

(* Only now that everything has succeeded is the password replaced. *)
ClientSync ==
  LET t == client.task IN
  /\ client.pc = "sync"
  /\ "server stats" \in wire[t]
  /\ t \notin stuck
  /\ client' = [client EXCEPT !.pc = "up", !.otp = t]
  /\ UNCHANGED <<link, wire, offered, stuck, breaks, serverVars>>

(* The attempt fails: the first one for good, a later one until the strategy
   tries again, with the same password. *)
ClientFail ==
  /\ client.pc \in {"exchange", "sync"}
  /\ link[client.task] = "broken"
  /\ client' = [client EXCEPT !.pc = IF client.otp = NoOtp THEN "failed" ELSE "down"]
  /\ UNCHANGED <<link, wire, offered, stuck, breaks, serverVars>>

-----------------------------------------------------------------------------
(* The task of a link: Connection::server *)

\* run() returns without channels to save, and the transport is closed.
Abandon(t) ==
  /\ pc' = [pc EXCEPT ![t] = "done"]
  /\ link' = [link EXCEPT ![t] = "broken"]
  /\ saved' = [saved EXCEPT ![t] = "dropped"]
  /\ signalled' = signalled \ {t}

(* ConnectType::Connect, and the client is authenticated. *)
Verify(t) ==
  /\ pc[t] = "type"
  /\ offered[t] = NoOtp
  /\ pc' = [pc EXCEPT ![t] = "new keys"]
  /\ Write(t, "server key")
  /\ UNCHANGED <<client, link, offered, from, held, oneshot, keychain, connections,
                 channels, saved, stuck, signalled, stored, breaks, wasShutdown>>

\* A password and the receiver of the task's backup are stored.
Insert(otp, t) == keychain' = [otp |-> otp, rx |-> t]

(* The key exchange with a new client is done: it is registered. *)
Register(t) ==
  /\ pc[t] = "new keys"
  /\ held' = [held EXCEPT ![t] = "session"]
  /\ Insert(t, t)
  /\ stored' = t
  /\ pc' = [pc EXCEPT ![t] = "established"]
  /\ UNCHANGED <<client, link, wire, offered, from, oneshot, connections, channels,
                 saved, stuck, signalled, breaks, wasShutdown>>

\* remove_if_has_key with result Ok.
RemoveIfHasKey(t) == keychain # NoEntry /\ keychain.otp = offered[t] /\ keychain' = NoEntry

(* ConnectType::Reconnect with the right password. *)
Accept(t) ==
  /\ pc[t] = "type"
  /\ offered[t] # NoOtp
  /\ RemoveIfHasKey(t)
  /\ from' = [from EXCEPT ![t] = keychain.rx]
  /\ pc' = [pc EXCEPT ![t] = "await"]
  /\ UNCHANGED <<client, link, wire, offered, held, oneshot, connections, channels,
                 saved, stuck, signalled, stored, breaks, wasShutdown>>

(* Authentication failed, InvalidId, InvalidPassword, or the link is gone. *)
Reject(t) ==
  /\ pc[t] \in {"type", "new keys"}
  /\ \/ pc[t] = "type" /\ offered[t] = NoOtp
     \/ pc[t] = "type" /\ keychain.otp # offered[t]
     \/ link[t] = "broken"
  /\ Abandon(t)
  /\ oneshot' = [oneshot EXCEPT ![t] = "closed"]
  /\ UNCHANGED <<client, wire, offered, from, held, keychain, connections, channels,
                 stuck, stored, breaks, wasShutdown>>

\* Mutant: the backup is not waited for.
BackupNotAwaited(t) == TRUE

\* x.await is over: the previous task has dropped its Connection.
BackupAvailable(t) == oneshot[from[t]] # "empty"

(* The backup is acquired, and the server writes its half of the key
   exchange. *)
AcquireBackup(t) ==
  /\ pc[t] = "await"
  /\ BackupAvailable(t)
  /\ held' = [held EXCEPT ![t] = IF oneshot[from[t]] = "session" THEN "session"
                                 ELSE "fresh"]
  /\ oneshot' = [oneshot EXCEPT ![from[t]] = "closed"]
  /\ Write(t, "server key")
  /\ pc' = [pc EXCEPT ![t] = "exchange"]
  /\ UNCHANGED <<client, link, offered, from, keychain, connections, channels, saved,
                 stuck, signalled, stored, breaks, wasShutdown>>

(* The half of the client is there: it follows the request. *)
ServerExchange(t) ==
  /\ pc[t] = "exchange"
  /\ Write(t, "server stats")
  /\ MaybeStuck(t, "client stats")
  /\ pc' = [pc EXCEPT ![t] = "sync"]
  /\ UNCHANGED <<client, link, offered, from, held, oneshot, keychain, connections,
                 channels, saved, signalled, stored, breaks, wasShutdown>>

\* Mutant: a failed attempt keeps what it took from the keychain.
PutBackForgotten(t) == UNCHANGED keychain

\* Mutant: the receiver that was already used is put back.
PutBackOldReceiver(t) == Insert(offered[t], from[t])

\* The password the client came with stays valid if the attempt fails.
PutBack(t) == Insert(offered[t], t)

(* unwrap_or_fail!: the exchange or the synchronization failed. *)
RestoreOnFailure(t) ==
  /\ pc[t] \in {"exchange", "sync"}
  /\ link[t] = "broken"
  /\ oneshot' = [oneshot EXCEPT ![t] = held[t]]
  /\ held' = [held EXCEPT ![t] = "none"]
  /\ PutBack(t)
  /\ Abandon(t)
  /\ UNCHANGED <<client, wire, offered, from, connections, channels, stuck, stored,
                 breaks, wasShutdown>>

\* Mutant: the password stays the same.
StoreOldOtp(t) == Insert(offered[t], t)

StoreNewOtp(t) == Insert(t, t)

(* synchronize() is done, and the new password is stored. *)
Establish(t) ==
  /\ pc[t] = "sync"
  /\ "client stats" \in wire[t]
  /\ t \notin stuck
  /\ StoreNewOtp(t)
  /\ stored' = t
  /\ pc' = [pc EXCEPT ![t] = "established"]
  /\ UNCHANGED <<client, link, wire, offered, from, held, oneshot, connections,
                 channels, saved, stuck, signalled, breaks, wasShutdown>>

-----------------------------------------------------------------------------
(* The task of a link: the rest of run() *)

\* Mutant: the backup is not sent.
DropConnectionSilently(t) ==
  /\ oneshot' = [oneshot EXCEPT ![t] = "dropped"]
  /\ held' = [held EXCEPT ![t] = "none"]

\* Mutant: the sender is kept alive by somebody else.
DropConnectionLeaks(t) ==
  /\ UNCHANGED oneshot
  /\ held' = [held EXCEPT ![t] = "none"]

\* Drop of Connection::Server sends the backup to whoever has the receiver.
DropConnection(t) ==
  /\ oneshot' = [oneshot EXCEPT ![t] = IF @ = "closed" THEN @ ELSE held[t]]
  /\ held' = [held EXCEPT ![t] = "none"]

(* on_connect fails, or is cancelled by the shutdown signal. *)
OnConnectFails(t) ==
  /\ pc[t] = "established"
  /\ CanRefuse \/ t \in signalled
  /\ DropConnection(t)
  /\ Abandon(t)
  /\ UNCHANGED <<client, wire, offered, from, keychain, connections, channels, stuck,
                 stored, breaks, wasShutdown>>

LockFree == \A t \in Tasks : pc[t] # "handover"

(* on_connect succeeds.  A new session gets new channels. *)
NewChannels(t) ==
  /\ pc[t] = "established"
  /\ LockFree
  /\ connections = NoTask
  /\ channels' = [channels EXCEPT ![t] = t]
  /\ connections' = t
  /\ pc' = [pc EXCEPT ![t] = "loop"]
  /\ UNCHANGED <<client, link, wire, offered, from, held, oneshot, keychain, saved,
                 stuck, signalled, stored, breaks, wasShutdown>>

(* The entry of an existing session is removed, and its task asked to shut
   down; the write lock is held until the channels have come. *)
Handover(t) ==
  /\ pc[t] = "established"
  /\ LockFree
  /\ connections # NoTask
  /\ from' = [from EXCEPT ![t] = connections]
  /\ connections' = NoTask
  /\ pc' = [pc EXCEPT ![t] = "handover"]
  /\ UNCHANGED <<client, link, wire, offered, held, oneshot, keychain, channels,
                 saved, stuck, signalled, stored, breaks, wasShutdown>>

(* shutdown_and_wait returns, and the task stores its own ConnectionState. *)
TakeChannels(t) ==
  /\ pc[t] = "handover"
  /\ saved[from[t]] # "empty"
  /\ channels' = [channels EXCEPT ![t] = IF saved[from[t]] = "dropped" THEN t
                                         ELSE channels[from[t]]]
  /\ connections' = t
  /\ pc' = [pc EXCEPT ![t] = "loop"]
  /\ UNCHANGED <<client, link, wire, offered, from, held, oneshot, keychain, saved,
                 stuck, signalled, stored, breaks, wasShutdown>>

\* Mutant: the loop ends without sending its channels back.
ChannelsDropped(t) == saved' = [saved EXCEPT ![t] = "dropped"]

\* terminate_connection! sends the channels to the ConnectionState.
SendChannelsBack(t) == saved' = [saved EXCEPT ![t] = "channels"]

(* The loop ends with the link or on a signal. *)
LoopEnds(t) ==
  /\ pc[t] = "loop"
  /\ link[t] = "broken" \/ t \in signalled
  /\ SendChannelsBack(t)
  /\ signalled' = signalled \ {t}
  /\ pc' = [pc EXCEPT ![t] = "closing"]
  /\ UNCHANGED <<client, link, wire, offered, from, held, oneshot, keychain,
                 connections, channels, stuck, stored, breaks, wasShutdown>>

(* The connections are counted under the lock, and run() returns. *)
Close(t) ==
  /\ pc[t] = "closing"
  /\ LockFree
  /\ DropConnection(t)
  /\ pc' = [pc EXCEPT ![t] = "done"]
  /\ link' = [link EXCEPT ![t] = "broken"]
  /\ UNCHANGED <<client, wire, offered, from, keychain, connections, channels, saved,
                 stuck, signalled, stored, breaks, wasShutdown>>

Running == {t \in Tasks : pc[t] \notin {"none", "done"}}

(* ServerRef::shutdown: a broadcast to the tasks that exist. *)
Shutdown ==
  /\ CanShutdown
  /\ Running # {}
  /\ signalled' = Running
  /\ wasShutdown' = TRUE
  /\ UNCHANGED <<client, pc, link, wire, offered, from, held, oneshot, keychain,
                 connections, channels, saved, stuck, stored, breaks>>

(* await_or_shutdown! drops the future of Connection::server at whatever await
   it is: what it took out of the keychain goes with it. *)
CancelServer(t) ==
  /\ pc[t] \in {"type", "new keys", "await", "exchange", "sync"}
  /\ t \in signalled
  /\ held' = [held EXCEPT ![t] = "none"]
  /\ oneshot' = [u \in Tasks |->
                   IF u = t \/ (pc[t] = "await" /\ u = from[t]) THEN "closed"
                   ELSE oneshot[u]]
  /\ Abandon(t)
  /\ UNCHANGED <<client, wire, offered, from, keychain, connections, channels, stuck,
                 stored, breaks, wasShutdown>>

-----------------------------------------------------------------------------
ServerTask(t) ==
  \/ Verify(t) \/ Register(t) \/ Accept(t) \/ Reject(t) \/ AcquireBackup(t)
  \/ ServerExchange(t) \/ RestoreOnFailure(t) \/ Establish(t) \/ OnConnectFails(t)
  \/ NewChannels(t) \/ Handover(t) \/ TakeChannels(t) \/ LoopEnds(t) \/ Close(t)
  \/ CancelServer(t)

ClientTask ==
  \/ ClientConnect \/ ClientConnected \/ ClientDown \/ ClientReconnect
  \/ ClientExchange \/ ClientSync \/ ClientFail

Next ==
  \/ ClientTask
  \/ \E t \in Tasks : Break(t) \/ ServerTask(t)
  \/ Shutdown

Spec == Init /\ [][Next]_vars

\* Tasks that can go on do.  The server notices that a link is gone because it
\* keeps writing heartbeats on it.
FairSpec ==
  /\ Spec
  /\ WF_vars(ClientTask)
  /\ \A t \in Tasks : WF_vars(ServerTask(t))

-----------------------------------------------------------------------------
(* Properties *)

PCs == {"none", "type", "new keys", "await", "exchange", "sync", "established", "handover",
        "loop", "closing", "done"}

Backups == {"none", "session", "fresh"}

TypeOK ==
  /\ client \in [pc : {"new", "exchange", "sync", "up", "down", "failed"},
                  otp : Tasks \union {NoOtp}, task : Tasks \union {NoTask}]
  /\ pc \in [Tasks -> PCs]
  /\ link \in [Tasks -> {"none", "open", "broken"}]
  /\ wire \in [Tasks -> SUBSET {"server key", "server stats", "client stats"}]
  /\ offered \in [Tasks -> Tasks \union {NoOtp}]
  /\ from \in [Tasks -> Tasks \union {NoTask}]
  /\ \A t \in Tasks : pc[t] \in {"await", "handover"} => from[t] # NoTask
  /\ held \in [Tasks -> Backups]
  /\ oneshot \in [Tasks -> Backups \union {"empty", "dropped", "closed"}]
  /\ keychain \in [otp : Tasks \union {NoOtp}, rx : Tasks \union {NoTask}]
  /\ connections \in Tasks \union {NoTask}
  /\ channels \in [Tasks -> Tasks \union {NoTask}]
  /\ saved \in [Tasks -> {"empty", "dropped", "channels"}]
  /\ stuck \subseteq Tasks
  /\ signalled \subseteq Tasks
  /\ stored \in Tasks \union {NoOtp}
  /\ wasShutdown \in BOOLEAN
  /\ breaks \in Nat

(* A connection is never restored with a fresh backup: the fallback for a
   missing one ("Missing backup, will use fresh copy") is never taken. *)
NeverFresh == \A t \in Tasks : held[t] # "fresh"

\* Where the backup of the session is.
Custodians == {t \in Tasks : held[t] = "session"}
                \union {t \in Tasks : oneshot[t] = "session"}

(* The backup of the session is in one place, and the entry in the keychain
   leads to it: the task it names holds the backup or has sent it. *)
EntryLeadsToBackup ==
  /\ Cardinality(Custodians) <= 1
  /\ keychain # NoEntry => Custodians = {keychain.rx}

(* Without a shutdown nothing of a registered session is lost, whatever fails
   in which order: the backup exists, and the password and the receiver of the
   backup are in the keychain or with a task that is going to put them back. *)
SessionKept ==
  stored # NoOtp /\ ~wasShutdown =>
    /\ Custodians # {}
    /\ \/ keychain # NoEntry
       \/ \E t \in Tasks : pc[t] \in {"await", "exchange", "sync"}

(* A password that was replaced is never accepted again. *)
SupersededOtpRejected ==
  [][\A t \in Tasks : pc[t] = "type" /\ pc'[t] = "await" => offered[t] = stored]_vars

(* At most one task talks to the client of the session at a time. *)
OneLoop ==
  \A t, u \in Tasks :
    pc[t] \in {"established", "handover", "loop"}
      /\ pc[u] \in {"established", "handover", "loop"} => t = u

(* The requests of the session keep their response channels across every
   reconnect. *)
SameChannels ==
  \A t, u \in Tasks :
    channels[t] # NoTask /\ channels[u] # NoTask => channels[t] = channels[u]

(* The task that is replaced has given its channels back before the lock on
   the connections is taken: nobody waits while holding it. *)
HandoverNeverBlocks == \A t \in Tasks : pc[t] = "handover" => saved[from[t]] # "empty"

(* A connection attempt ends, with success or an error, unless synchronize
   hangs. *)
AttemptEnds ==
  client.pc \in {"exchange", "sync"} ~>
    client.pc \notin {"exchange", "sync"} \/ stuck # {}

(* The password is only updated if the connection fully completes: when no
   attempt is under way, a client that was registered has the password the
   server accepts. *)
OtpAgreement ==
  (/\ stored # NoOtp /\ client.pc = "down"
   /\ \A t \in Tasks : pc[t] \in {"none", "done"}) =>
    keychain.otp = client.otp
=============================================================================
