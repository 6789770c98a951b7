----------------------------- MODULE QueuedReply -----------------------------
(***************************************************************************)
(* How the answer to a request gets ahead of what the request set off.     *)
(* ApiServerHandler::on_request (distant-core/src/api.rs) gives the tasks  *)
(* of a request (the readers of a process' stdout and stderr, a search, a  *)
(* watcher, the requests of a batch) a QueuedServerReply                   *)
(* (distant-core/src/net/server/reply.rs).  What they send is held back    *)
(* until the answer itself has been put in front of it and everything is   *)
(* flushed; from then on they send directly.                               *)
(*                                                                         *)
(* `hold` and `queue` have a lock each.  send() reads `hold` under its     *)
(* lock, releases the lock, and only then pushes or sends.                 *)
(***************************************************************************)
EXTENDS Naturals, Sequences

CONSTANTS
  Streams,       \* the tasks that send through the reply of one request
  MaxMessages    \* bound: how many messages each of them sends

ASSUME QueuedReplyConstants ==
  /\ "request" \notin Streams
  /\ MaxMessages \in Nat

VARIABLES
  request,   \* where on_request is
  stream,    \* where each task is: "ready", "pushing" or "sending"
  count,     \* how many messages each task has begun to send
  hold,      \* QueuedServerReply.hold
  queue,     \* QueuedServerReply.queue
  out        \* what was sent to the connection, in order

vars == <<request, stream, count, hold, queue, out>>

Message(s, n) == [by |-> s, nr |-> n]
Answer == Message("request", 1)

Init ==
  /\ request = "handling"
  /\ stream = [s \in Streams |-> "ready"]
  /\ count = [s \in Streams |-> 0]
  /\ hold = TRUE
  /\ queue = <<>>
  /\ out = <<>>

\* The lock on `hold` is held across more than one step only by flush.
HoldLocked == request \in {"flushing", "flushed"}

-----------------------------------------------------------------------------
(* QueuedServerReply::send *)

(* The first half: is the reply on hold? *)
ReadHold(s) ==
  /\ stream[s] = "ready"
  /\ count[s] < MaxMessages
  /\ ~HoldLocked
  /\ count' = [count EXCEPT ![s] = @ + 1]
  /\ stream' = [stream EXCEPT ![s] = IF hold THEN "pushing" ELSE "sending"]
  /\ UNCHANGED <<request, hold, queue, out>>

(* The second half, one way: the queue. *)
Push(s) ==
  /\ stream[s] = "pushing"
  /\ stream' = [stream EXCEPT ![s] = "ready"]
  /\ queue' = Append(queue, Message(s, count[s]))
  /\ UNCHANGED <<request, count, hold, out>>

(* The second half, the other way: ServerReply::send. *)
SendDirectly(s) ==
  /\ stream[s] = "sending"
  /\ stream' = [stream EXCEPT ![s] = "ready"]
  /\ out' = Append(out, Message(s, count[s]))
  /\ UNCHANGED <<request, count, hold, queue>>

-----------------------------------------------------------------------------
(* on_request *)

(* The handler is done.  send_before finds the reply on hold. *)
HandlerDone ==
  /\ request = "handling"
  /\ hold
  /\ request' = "inserting"
  /\ UNCHANGED <<stream, count, hold, queue, out>>

\* Mutant: the answer takes its turn.
InsertLast(m) == Append(queue, m)

\* queue.insert(0, data)
InsertFirst(m) == <<m>> \o queue

SendBefore ==
  /\ request = "inserting"
  /\ queue' = InsertFirst(Answer)
  /\ request' = "answered"
  /\ UNCHANGED <<stream, count, hold, out>>

(* flush(false) *)
FlushLock ==
  /\ request = "answered"
  /\ request' = "flushing"
  /\ UNCHANGED <<stream, count, hold, queue, out>>

\* Mutant: the answer is sent, and then the rest from the back.
DrainedFromTheBack ==
  [i \in 1 .. Len(queue) |-> IF i = 1 THEN queue[1] ELSE queue[Len(queue) + 2 - i]]

\* queue.drain(..)
Drained == queue

FlushDrain ==
  /\ request = "flushing"
  /\ out' = out \o Drained
  /\ queue' = <<>>
  /\ request' = "flushed"
  /\ UNCHANGED <<stream, count, hold>>

FlushRelease ==
  /\ request = "flushed"
  /\ hold' = FALSE
  /\ request' = "done"
  /\ UNCHANGED <<stream, count, queue, out>>

-----------------------------------------------------------------------------
OnRequest == HandlerDone \/ SendBefore \/ FlushLock \/ FlushDrain \/ FlushRelease

Next ==
  \/ OnRequest
  \/ \E s \in Streams : ReadHold(s) \/ Push(s) \/ SendDirectly(s)

Spec == Init /\ [][Next]_vars

-----------------------------------------------------------------------------
(* Properties *)

Messages == [by : Streams \union {"request"}, nr : Nat]

TypeOK ==
  /\ request \in {"handling", "inserting", "answered", "flushing", "flushed", "done"}
  /\ stream \in [Streams -> {"ready", "pushing", "sending"}]
  /\ count \in [Streams -> Nat]
  /\ hold \in BOOLEAN
  /\ queue \in Seq(Messages)
  /\ out \in Seq(Messages)

(* The answer to a request is sent before anything else the request sends. *)
AnswerFirst == out # <<>> => out[1] = Answer

(* What one task sends arrives in the order it was sent, across the change
   from the queue to direct sending, and nothing arrives twice. *)
InStreamOrder ==
  \A i, j \in 1 .. Len(out) :
    i < j /\ out[i].by = out[j].by => out[i].nr < out[j].nr

(* Nothing is put into the queue after it was cleared. *)
NothingLeftBehind == request = "done" => queue = <<>>
=============================================================================
