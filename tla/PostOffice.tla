------------------------------ MODULE PostOffice ------------------------------
(***************************************************************************)
(* How answers find the callers of a client: the callers use a Channel     *)
(* (distant-core/src/net/client/channel.rs) to make a mailbox and fire a   *)
(* request, the event loop of the client (distant-core/src/net/client.rs)  *)
(* writes requests and delivers responses through the PostOffice           *)
(* (client/channel/mailbox.rs), and a background task removes orphaned     *)
(* mailboxes.  All three share the map of mailboxes under one async mutex, *)
(* which deliver() holds while it waits for room in a mailbox.             *)
(*                                                                         *)
(* A request is named by its caller, who also owns the mailbox.  Most      *)
(* owners read it and nothing else; a Forwarder passes each response on to *)
(* somebody who may not take it, and does not read meanwhile.  The default *)
(* mailbox is left out.                                                    *)
(***************************************************************************)
EXTENDS Naturals, Sequences

CONSTANTS
  Requesters,   \* bound: the requests that are made
  Forwarders,   \* those whose responses are passed on through a bounded channel
  Capacity,     \* CHANNEL_MAILBOX_CAPACITY
  MaxReplies    \* bound: how many responses the server sends to one request

ASSUME PostOfficeConstants ==
  /\ Forwarders \subseteq Requesters
  /\ Capacity \in Nat \ {0}
  /\ MaxReplies \in Nat \ {0}

VARIABLES
  caller,      \* "idle", "mailing", "waiting", "stalled", "gone" or "failed"
  mailboxes,   \* the ids in PostOffice.mailboxes
  buffer,      \* [Requesters -> responses queued in the mailbox]
  outgoing,    \* the channel of requests to the event loop, of capacity 1
  owed,        \* [Requesters -> responses the server is still to send]
  incoming,    \* [Requesters -> responses that wait to be read]
  dropped,     \* [Requesters -> responses deliver() returned false for]
  loop         \* the event loop: "idle", "ended", or where it is in deliver()

postVars == <<caller, mailboxes, buffer, outgoing, owed, incoming, dropped, loop>>

Idle == [at |-> "idle"]
Ended == [at |-> "ended"]
Deliver(c) == [at |-> "send", to |-> c]
Relock(c) == [at |-> "relock", to |-> c]

PostInit ==
  /\ caller = [c \in Requesters |-> "idle"]
  /\ mailboxes = {}
  /\ buffer = [c \in Requesters |-> 0]
  /\ outgoing = <<>>
  /\ owed = [c \in Requesters |-> 0]
  /\ incoming = [c \in Requesters |-> 0]
  /\ dropped = [c \in Requesters |-> 0]
  /\ loop = Idle

\* The receiving half of a mailbox exists from make_mailbox until its owner
\* drops it.
IsOpen(c) == caller[c] \in {"mailing", "waiting", "stalled"}

LockFree == loop \in {Idle, Ended}

-----------------------------------------------------------------------------
(* A caller: Channel::mail and Channel::send *)

(* The post office is still there: a mailbox is made ... *)
MakeMailbox(c) ==
  /\ caller[c] = "idle"
  /\ loop # Ended
  /\ LockFree
  /\ caller' = [caller EXCEPT ![c] = "mailing"]
  /\ mailboxes' = mailboxes \union {c}
  /\ UNCHANGED <<buffer, outgoing, owed, incoming, dropped, loop>>

(* ... and then the request is sent to the event loop. *)
Fire(c) ==
  /\ caller[c] = "mailing"
  /\ loop # Ended
  /\ outgoing = <<>>
  /\ outgoing' = <<c>>
  /\ caller' = [caller EXCEPT ![c] = "waiting"]
  /\ UNCHANGED <<mailboxes, buffer, owed, incoming, dropped, loop>>

(* The post office or the channel is gone, or next() yields None because the
   senders of all mailboxes are gone: NotConnected, BrokenPipe or
   ConnectionAborted. *)
Fail(c) ==
  /\ loop = Ended
  /\ \/ caller[c] \in {"idle", "mailing"}
     \/ caller[c] = "waiting" /\ buffer[c] = 0
  /\ caller' = [caller EXCEPT ![c] = "failed"]
  /\ UNCHANGED <<mailboxes, buffer, outgoing, owed, incoming, dropped, loop>>

\* No further response is on its way.
LastOne(c) ==
  owed[c] = 0 /\ incoming[c] = 0 /\ buffer[c] = 1 /\ loop # Deliver(c)

(* Mailbox::next.  send() drops the mailbox after the first response; the
   owner of a mailbox that mail() returned may wait for more, and a forwarder
   first for somebody to take this one: the output of a remote process goes
   into a bounded channel, and its owner reads the next response only then. *)
Next_(c) ==
  /\ caller[c] = "waiting"
  /\ buffer[c] > 0
  /\ buffer' = [buffer EXCEPT ![c] = @ - 1]
  /\ \/ caller' = [caller EXCEPT ![c] = "gone"]
     \/ ~LastOne(c) /\ UNCHANGED caller
     \/ ~LastOne(c) /\ c \in Forwarders /\ caller' = [caller EXCEPT ![c] = "stalled"]
  /\ UNCHANGED <<mailboxes, outgoing, owed, incoming, dropped, loop>>

(* Somebody takes what the forwarder has: it goes back to its mailbox. *)
Forwarded(c) ==
  /\ caller[c] = "stalled"
  /\ caller' = [caller EXCEPT ![c] = "waiting"]
  /\ UNCHANGED <<mailboxes, buffer, outgoing, owed, incoming, dropped, loop>>

(* mail_timeout or send_timeout gives up, or the owner's task is aborted. *)
Timeout(c) ==
  /\ IsOpen(c)
  /\ caller' = [caller EXCEPT ![c] = "gone"]
  /\ UNCHANGED <<mailboxes, buffer, outgoing, owed, incoming, dropped, loop>>

-----------------------------------------------------------------------------
(* The event loop of the client *)

TakeRequest ==
  /\ loop = Idle
  /\ outgoing # <<>>
  /\ outgoing' = <<>>
  /\ owed' \in {[owed EXCEPT ![outgoing[1]] = n] : n \in 1 .. MaxReplies}
  /\ UNCHANGED <<caller, mailboxes, buffer, incoming, dropped, loop>>

(* A response is read, and deliver() finds a mailbox or drops it. *)
TakeResponse(c) ==
  /\ loop = Idle
  /\ incoming[c] > 0
  /\ incoming' = [incoming EXCEPT ![c] = @ - 1]
  /\ IF c \in mailboxes
     THEN loop' = Deliver(c) /\ UNCHANGED dropped
     ELSE loop' = loop /\ dropped' = [dropped EXCEPT ![c] = @ + 1]
  /\ UNCHANGED <<caller, mailboxes, buffer, outgoing, owed>>

\* Mutant: the sender does not notice that the mailbox was dropped.
SendNeverFails(c) == FALSE

SendFails(c) == ~IsOpen(c)

(* tx.send(value).await with the mutex held: it waits for room. *)
SendToMailbox(c) ==
  /\ loop = Deliver(c)
  /\ ~SendFails(c)
  /\ buffer[c] < Capacity
  /\ buffer' = [buffer EXCEPT ![c] = @ + 1]
  /\ loop' = Idle
  /\ UNCHANGED <<caller, mailboxes, outgoing, owed, incoming, dropped>>

(* The mailbox was dropped.  deliver() wants to remove it, and locks the mutex
   it holds already: the guard lives as long as the reference to the sender. *)
SendToDropped(c) ==
  /\ loop = Deliver(c)
  /\ SendFails(c)
  /\ loop' = Relock(c)
  /\ UNCHANGED <<caller, mailboxes, buffer, outgoing, owed, incoming, dropped>>

(* The client is shut down or cannot reconnect: the task ends, and with it the
   post office. *)
End ==
  /\ loop = Idle
  /\ loop' = Ended
  /\ UNCHANGED <<caller, mailboxes, buffer, outgoing, owed, incoming, dropped>>

-----------------------------------------------------------------------------
(* The server, and the background task *)

Respond(c) ==
  /\ owed[c] > 0
  /\ owed' = [owed EXCEPT ![c] = @ - 1]
  /\ incoming' = [incoming EXCEPT ![c] = @ + 1]
  /\ UNCHANGED <<caller, mailboxes, buffer, outgoing, dropped, loop>>

\* Mutant: a mailbox nobody is waiting on yet is an orphan.
OrphansAndNew == {c \in mailboxes : caller[c] # "waiting"}

\* tx.is_closed()
Orphans == {c \in mailboxes : ~IsOpen(c)}

Cleanup ==
  /\ LockFree
  /\ Orphans # {}
  /\ mailboxes' = mailboxes \ Orphans
  /\ UNCHANGED <<caller, buffer, outgoing, owed, incoming, dropped, loop>>

-----------------------------------------------------------------------------
EventLoop ==
  TakeRequest \/ \E c \in Requesters : TakeResponse(c) \/ SendToMailbox(c) \/ SendToDropped(c)

PostNext ==
  \/ EventLoop
  \/ End
  \/ Cleanup
  \/ \E c \in Requesters : MakeMailbox(c) \/ Fire(c) \/ Fail(c) \/ Next_(c)
  \/ \E c \in Requesters : Forwarded(c) \/ Timeout(c)
  \/ \E c \in Requesters : Respond(c)

PostSpec == PostInit /\ [][PostNext]_postVars

\* The event loop takes turns with reading and writing, the server answers, and
\* an owner that is at its mailbox is polled when there is something in it.
\* Nobody has to shut down, time out, make a request, or take what a forwarder
\* has (output() reads the output of a process only after its end).
FairPostSpec ==
  /\ PostSpec
  /\ WF_postVars(TakeRequest)
  /\ \A c \in Requesters :
       /\ SF_postVars(TakeResponse(c))
       /\ WF_postVars(SendToMailbox(c))
       /\ WF_postVars(SendToDropped(c))
       /\ SF_postVars(Fire(c))
       /\ WF_postVars(Fail(c))
       /\ WF_postVars(Next_(c))
       /\ WF_postVars(Respond(c))

-----------------------------------------------------------------------------
(* Properties *)

(* A response is dropped only if its caller no longer waits for it: mailboxes
   exist before the request is sent, and only orphaned ones are removed. *)
NoAnswerDropped == \A c \in Requesters : dropped[c] > 0 => ~IsOpen(c)

(* deliver() returns: with true, or with false if the mailbox is no longer
   receiving values. *)
DeliverReturns == loop \notin {Idle, Ended} ~> loop \in {Idle, Ended}

\* deliver() waits for the mutex it holds.
Relocked == \E c \in Requesters : loop = Relock(c)

\* deliver() waits for room in the mailbox of an owner that does not read it.
Unread(c) == loop = Deliver(c) /\ buffer[c] = Capacity /\ caller[c] = "stalled"

(* Waiting for room in a full mailbox with the mutex held is no deadlock by
   itself, since the owner that makes room needs no lock.  deliver() returns,
   with two exceptions: its mailbox was dropped, or the owner is for ever held
   up by whoever should take the responses it passes on. *)
DeliverReturnsUnlessDroppedOrUnread ==
  loop \notin {Idle, Ended} ~>
    \/ loop \in {Idle, Ended}
    \/ Relocked
    \/ [](\E c \in Forwarders : Unread(c))

\* Fired, and neither had its responses nor given up.
Awaits(c) == caller[c] \in {"waiting", "stalled"}

(* Every request that was fired is over at some time, although one full mailbox
   stops the responses to all: the caller has had its responses or has given
   up, or the client has ended.  The exceptions are those of deliver(), which
   then stops every other request too, and a caller that passes its responses
   on and is itself held up for ever. *)
EveryRequestEndsUnlessDroppedOrUnread ==
  \A c \in Requesters :
    Awaits(c) ~>
      \/ ~Awaits(c)
      \/ Relocked
      \/ [](caller[c] = "stalled" \/ \E f \in Forwarders : Unread(f))
=============================================================================
