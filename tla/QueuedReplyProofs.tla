-------------------------- MODULE QueuedReplyProofs --------------------------
(***************************************************************************)
(* Proofs about QueuedReply, for any tasks and any number of messages: the *)
(* answer goes out first, and each task's messages go out in order.        *)
(***************************************************************************)
EXTENDS QueuedReply, TLAPS

-----------------------------------------------------------------------------
(* The answer first *)

NotSending == \A s \in Streams : stream[s] # "sending"

\* Why the answer is first: nothing gets past the queue until it is drained, and
\* when it is drained the answer is at its front.
AnswerFirstInv ==
  /\ TypeOK
  /\ hold <=> request # "done"
  /\ request # "done" => NotSending
  /\ request \in {"handling", "inserting", "answered", "flushing"} => out = <<>>
  /\ request \in {"answered", "flushing"} => queue # <<>> /\ queue[1] = Answer
  /\ request \in {"flushed", "done"} => out # <<>> /\ out[1] = Answer

(* A message of a task, and the answer, are messages. *)
LEMMA MessageType ==
  /\ Answer \in Messages
  /\ \A s \in Streams : \A n \in Nat : Message(s, n) \in Messages
BY DEF Answer, Message, Messages

LEMMA AnswerFirstInit == Init => AnswerFirstInv
BY DEF Init, AnswerFirstInv, TypeOK, NotSending

LEMMA AnswerFirstStep == AnswerFirstInv /\ [Next]_vars => AnswerFirstInv'
<1> SUFFICES ASSUME AnswerFirstInv, [Next]_vars PROVE AnswerFirstInv'
  OBVIOUS
<1> USE DEF AnswerFirstInv, TypeOK, NotSending
<1>1. ASSUME NEW s \in Streams, ReadHold(s) PROVE AnswerFirstInv'
  BY <1>1 DEF ReadHold, HoldLocked
<1>2. ASSUME NEW s \in Streams, Push(s) PROVE AnswerFirstInv'
  <2>1. Message(s, count[s]) \in Messages
    BY MessageType
  <2>2. queue' \in Seq(Messages)
    BY <1>2, <2>1 DEF Push
  <2>3. request \in {"answered", "flushing"} => queue' # <<>> /\ queue'[1] = Answer
    <3> SUFFICES ASSUME queue # <<>>, queue[1] = Answer
                 PROVE  queue' # <<>> /\ queue'[1] = Answer
      BY <1>2 DEF Push
    <3>1. Len(queue) \in Nat \ {0}
      OBVIOUS
    <3> QED
      BY <1>2, <2>1, <3>1 DEF Push
  <2> QED
    BY <1>2, <2>2, <2>3 DEF Push
<1>3. ASSUME NEW s \in Streams, SendDirectly(s) PROVE AnswerFirstInv'
  <2>1. Message(s, count[s]) \in Messages
    BY MessageType
  <2>2. request = "done"
    BY <1>3 DEF SendDirectly
  <2>3. out' \in Seq(Messages) /\ out' # <<>> /\ out'[1] = Answer
    BY <1>3, <2>1, <2>2 DEF SendDirectly
  <2> QED
    BY <1>3, <2>2, <2>3 DEF SendDirectly
<1>4. CASE HandlerDone
  BY <1>4 DEF HandlerDone
<1>5. CASE SendBefore
  <2>1. queue' \in Seq(Messages) /\ queue' # <<>> /\ queue'[1] = Answer
    BY <1>5, MessageType DEF SendBefore, InsertFirst
  <2> QED
    BY <1>5, <2>1 DEF SendBefore
<1>6. CASE FlushLock
  BY <1>6 DEF FlushLock
<1>7. CASE FlushDrain
  <2>1. out' = queue
    BY <1>7 DEF FlushDrain, Drained
  <2> QED
    BY <1>7, <2>1 DEF FlushDrain
<1>8. CASE FlushRelease
  BY <1>8 DEF FlushRelease
<1>9. CASE UNCHANGED vars
  BY <1>9 DEF vars
<1> QED
  BY <1>1, <1>2, <1>3, <1>4, <1>5, <1>6, <1>7, <1>8, <1>9 DEF Next, OnRequest

LEMMA AnswerFirstInvariant == Spec => []AnswerFirstInv
BY AnswerFirstInit, AnswerFirstStep, PTL DEF Spec

(* Whatever tasks a request sets off, nothing any of them sends through its
   QueuedServerReply reaches the connection before the answer does. *)
THEOREM AnswerGoesFirst == Spec => []AnswerFirst
<1>1. AnswerFirstInv => AnswerFirst
  BY DEF AnswerFirstInv, AnswerFirst, TypeOK
<1> QED
  BY <1>1, AnswerFirstInvariant, PTL

-----------------------------------------------------------------------------
(* Each task's messages in order *)

Ordered(q) ==
  \A i, j \in 1 .. Len(q) : i < j /\ q[i].by = q[j].by => q[i].nr < q[j].nr

\* Every message of a task in q was begun, and the one it is at is not there.
Begun(q, where, begun) ==
  \A i \in 1 .. Len(q) : \A s \in Streams :
    q[i].by = s =>
      /\ q[i].nr <= begun[s]
      /\ where[s] # "ready" => q[i].nr < begun[s]

\* What is pushed too late stays in the queue, so that only the order of the
\* queue up to the time it is drained matters.
OrderInv ==
  /\ AnswerFirstInv
  /\ Ordered(out)
  /\ Begun(out, stream, count)
  /\ request \in {"handling", "inserting", "answered", "flushing"} =>
       Ordered(queue) /\ Begun(queue, stream, count)
  /\ request \in {"handling", "inserting"} =>
       \A i \in 1 .. Len(queue) : queue[i].by # "request"

(* A task that is in the middle of sending ends it: the message goes to the
   end of a sequence that stays ordered. *)
LEMMA AppendKeepsOrder ==
  ASSUME NEW q \in Seq(Messages), Ordered(q),
         NEW where \in [Streams -> {"ready", "pushing", "sending"}],
         NEW begun \in [Streams -> Nat],
         Begun(q, where, begun),
         NEW s \in Streams, where[s] # "ready"
  PROVE  LET r == Append(q, Message(s, begun[s])) IN
         Ordered(r) /\ Begun(r, [where EXCEPT ![s] = "ready"], begun)
<1> DEFINE m == Message(s, begun[s])
           r == Append(q, m)
           where2 == [where EXCEPT ![s] = "ready"]
<1>1. m \in Messages /\ m.by = s /\ m.nr = begun[s]
  BY DEF Message, Messages
<1>2. /\ Len(q) \in Nat
      /\ Len(r) = Len(q) + 1
      /\ \A i \in 1 .. Len(q) : r[i] = q[i]
      /\ r[Len(q) + 1] = m
  BY <1>1
<1>3. \A i \in 1 .. Len(q) : q[i].nr \in Nat
  <2>1. \A x \in Messages : x.nr \in Nat
    BY DEF Messages
  <2>2. \A i \in 1 .. Len(q) : q[i] \in Messages
    OBVIOUS
  <2> QED
    BY <2>1, <2>2
<1>4. \A i \in 1 .. Len(q) : q[i].by = s => q[i].nr < begun[s]
  BY DEF Begun
<1> HIDE DEF m, r
<1>5. Ordered(r)
  <2> SUFFICES ASSUME NEW i \in 1 .. Len(r), NEW j \in 1 .. Len(r),
                      i < j, r[i].by = r[j].by
               PROVE  r[i].nr < r[j].nr
    BY DEF Ordered
  <2>1. i \in 1 .. Len(q)
    BY <1>2
  <2>2. CASE j = Len(q) + 1
    BY <1>1, <1>2, <1>4, <2>1, <2>2
  <2>3. CASE j # Len(q) + 1
    <3>1. j \in 1 .. Len(q)
      BY <1>2, <2>3
    <3> QED
      BY <1>2, <2>1, <3>1 DEF Ordered
  <2> QED
    BY <2>2, <2>3
<1>6. Begun(r, where2, begun)
  <2> SUFFICES ASSUME NEW i \in 1 .. Len(r), NEW t \in Streams, r[i].by = t
               PROVE  /\ r[i].nr <= begun[t]
                      /\ where2[t] # "ready" => r[i].nr < begun[t]
    BY DEF Begun
  <2>1. CASE i = Len(q) + 1
    BY <1>1, <1>2, <2>1
  <2>2. CASE i # Len(q) + 1
    <3>1. i \in 1 .. Len(q) /\ r[i] = q[i]
      BY <1>2, <2>2
    <3>2. q[i].nr <= begun[t] /\ (where[t] # "ready" => q[i].nr < begun[t])
      BY <3>1 DEF Begun
    <3> QED
      BY <3>1, <3>2
  <2> QED
    BY <2>1, <2>2
<1> QED
  BY <1>5, <1>6 DEF r, m

(* A sequence in which every message was begun stays one when a task begins
   the next message, ... *)
LEMMA BeginKeepsBegun ==
  ASSUME NEW q \in Seq(Messages),
         NEW where \in [Streams -> {"ready", "pushing", "sending"}],
         NEW begun \in [Streams -> Nat],
         Begun(q, where, begun),
         NEW s \in Streams, where[s] = "ready",
         NEW p \in {"pushing", "sending"}
  PROVE  Begun(q, [where EXCEPT ![s] = p], [begun EXCEPT ![s] = @ + 1])
<1>1. \A i \in 1 .. Len(q) : q[i].nr \in Nat
  <2>1. \A x \in Messages : x.nr \in Nat
    BY DEF Messages
  <2>2. \A i \in 1 .. Len(q) : q[i] \in Messages
    OBVIOUS
  <2> QED
    BY <2>1, <2>2
<1> QED
  BY <1>1 DEF Begun

(* ... and when it ends the one it was at elsewhere. *)
LEMMA EndKeepsBegun ==
  ASSUME NEW q \in Seq(Messages),
         NEW where \in [Streams -> {"ready", "pushing", "sending"}],
         NEW begun \in [Streams -> Nat],
         Begun(q, where, begun),
         NEW s \in Streams
  PROVE  Begun(q, [where EXCEPT ![s] = "ready"], begun)
BY DEF Begun

LEMMA OrderInit == Init => OrderInv
<1> SUFFICES ASSUME Init PROVE OrderInv
  OBVIOUS
<1>1. AnswerFirstInv
  BY AnswerFirstInit
<1>2. Len(out) = 0 /\ Len(queue) = 0
  BY DEF Init
<1>3. 1 .. Len(out) = {} /\ 1 .. Len(queue) = {}
  BY <1>2
<1> QED
  BY <1>1, <1>3 DEF OrderInv, Ordered, Begun

LEMMA OrderStep == OrderInv /\ [Next]_vars => OrderInv'
<1> SUFFICES ASSUME OrderInv, [Next]_vars PROVE OrderInv'
  OBVIOUS
<1> DEFINE Held == request \in {"handling", "inserting", "answered", "flushing"}
           Unanswered == request \in {"handling", "inserting"}
           NoAnswer(q) == \A i \in 1 .. Len(q) : q[i].by # "request"
<1>0. AnswerFirstInv'
  BY AnswerFirstStep DEF OrderInv
<1>t. /\ queue \in Seq(Messages)
      /\ out \in Seq(Messages)
      /\ stream \in [Streams -> {"ready", "pushing", "sending"}]
      /\ count \in [Streams -> Nat]
  BY DEF OrderInv, AnswerFirstInv, TypeOK
<1>1. ASSUME NEW s \in Streams, ReadHold(s) PROVE OrderInv'
  <2>1. PICK p \in {"pushing", "sending"} : stream' = [stream EXCEPT ![s] = p]
    BY <1>1 DEF ReadHold
  <2>2. stream[s] = "ready" /\ count' = [count EXCEPT ![s] = @ + 1]
    BY <1>1 DEF ReadHold
  <2>3. ASSUME NEW q \in Seq(Messages), Begun(q, stream, count)
        PROVE  Begun(q, stream', count')
    <3>1. Begun(q, [stream EXCEPT ![s] = p], [count EXCEPT ![s] = @ + 1])
      BY <1>t, <2>2, <2>3, BeginKeepsBegun
    <3> QED
      BY <2>1, <2>2, <3>1, Zenon
  <2> QED
    BY <1>0, <1>1, <1>t, <2>3 DEF ReadHold, OrderInv
<1>2. ASSUME NEW s \in Streams, Push(s) PROVE OrderInv'
  <2>1. Begun(out, stream', count')
    BY <1>2, <1>t, EndKeepsBegun DEF Push, OrderInv
  <2>2. Held => Ordered(queue') /\ Begun(queue', stream', count')
    BY <1>2, <1>t, AppendKeepsOrder DEF Push, OrderInv
  <2>3. Unanswered => NoAnswer(queue')
    <3>1. Message(s, count[s]) \in Messages /\ Message(s, count[s]).by # "request"
      BY <1>t, QueuedReplyConstants DEF Message, Messages
    <3> QED
      BY <1>2, <1>t, <3>1 DEF Push, OrderInv
  <2> QED
    BY <1>0, <1>2, <2>1, <2>2, <2>3 DEF Push, OrderInv
<1>3. ASSUME NEW s \in Streams, SendDirectly(s) PROVE OrderInv'
  <2>1. request = "done"
    BY <1>3 DEF SendDirectly, OrderInv, AnswerFirstInv, NotSending
  <2>2. Ordered(out') /\ Begun(out', stream', count')
    BY <1>3, <1>t, AppendKeepsOrder DEF SendDirectly, OrderInv
  <2> QED
    BY <1>0, <1>3, <2>1, <2>2 DEF SendDirectly, OrderInv
<1>4. CASE HandlerDone
  BY <1>0, <1>4 DEF HandlerDone, OrderInv
<1>5. CASE SendBefore
  <2>1. /\ queue' \in Seq(Messages)
        /\ Len(queue') = Len(queue) + 1
        /\ queue'[1] = Answer
        /\ \A i \in 1 .. Len(queue') : i # 1 => i - 1 \in 1 .. Len(queue) /\ queue'[i] = queue[i - 1]
    BY <1>5, <1>t, MessageType DEF SendBefore, InsertFirst
  <2>2. NoAnswer(queue) /\ Ordered(queue) /\ Begun(queue, stream, count)
    BY <1>5 DEF SendBefore, OrderInv
  <2>3. Answer.by = "request" /\ "request" \notin Streams
    BY QueuedReplyConstants DEF Answer, Message
  <2>4. Ordered(queue')
    <3> SUFFICES ASSUME NEW i \in 1 .. Len(queue'), NEW j \in 1 .. Len(queue'),
                        i < j, queue'[i].by = queue'[j].by
                 PROVE  queue'[i].nr < queue'[j].nr
      BY DEF Ordered
    <3>1. j - 1 \in 1 .. Len(queue) /\ queue'[j] = queue[j - 1]
      BY <2>1
    <3>2. i # 1
      BY <2>1, <2>2, <2>3, <3>1
    <3>3. i - 1 \in 1 .. Len(queue) /\ queue'[i] = queue[i - 1]
      BY <2>1, <3>2
    <3>4. i - 1 < j - 1
      OBVIOUS
    <3> QED
      BY <2>2, <3>1, <3>3, <3>4 DEF Ordered
  <2>5. Begun(queue', stream, count)
    <3> SUFFICES ASSUME NEW i \in 1 .. Len(queue'), NEW s \in Streams, queue'[i].by = s
                 PROVE  /\ queue'[i].nr <= count[s]
                        /\ stream[s] # "ready" => queue'[i].nr < count[s]
      BY DEF Begun
    <3>1. i # 1
      BY <2>1, <2>3
    <3> QED
      BY <2>1, <2>2, <3>1 DEF Begun
  <2> QED
    BY <1>0, <1>5, <2>4, <2>5 DEF SendBefore, OrderInv
<1>6. CASE FlushLock
  BY <1>0, <1>6 DEF FlushLock, OrderInv
<1>7. CASE FlushDrain
  <2>1. out' = queue
    BY <1>7, <1>t DEF FlushDrain, Drained, OrderInv, AnswerFirstInv
  <2> QED
    BY <1>0, <1>7, <2>1 DEF FlushDrain, OrderInv
<1>8. CASE FlushRelease
  BY <1>0, <1>8 DEF FlushRelease, OrderInv
<1>9. CASE UNCHANGED vars
  BY <1>0, <1>9 DEF vars, OrderInv
<1> QED
  BY <1>1, <1>2, <1>3, <1>4, <1>5, <1>6, <1>7, <1>8, <1>9 DEF Next, OnRequest

(* Whatever tasks a request sets off, and however they race with its answer,
   the messages of each reach the connection in the order in which the task
   sent them and at most once, although the ones sent early go through the
   queue and the later ones do not. *)
THEOREM StreamsStayInOrder == Spec => []InStreamOrder
<1>1. OrderInv => InStreamOrder
  BY DEF OrderInv, InStreamOrder, Ordered
<1> QED
  BY <1>1, OrderInit, OrderStep, PTL DEF Spec
=============================================================================
