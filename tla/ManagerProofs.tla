---------------------------- MODULE ManagerProofs ----------------------------
(***************************************************************************)
(* Proofs about Manager, for any number of handlers and connections: what  *)
(* is in one map of the manager agrees with what is in the others and with *)
(* what the action tasks of the connections have been told.                *)
(***************************************************************************)
EXTENDS Manager, FiniteSetTheorems, SequenceTheorems, TLAPS

About == {"open", "kill", "forward", "reverse"}
Killing == {"ids", "channels", "tunnels"}
Messages == [type : {"register", "unregister", "get", "write"}, id : Handlers]

TypeInv ==
  /\ pc \in [Handlers -> {"idle", "plugin", "ask", "wait", "insert", "lock", "setup",
                          "store", "done"} \union Killing]
  /\ kind \in [Handlers -> {None, "launch", "connect"} \union About]
  /\ of \in [Handlers -> Handlers \union {None}]
  /\ connections \subseteq Handlers /\ channels \subseteq Handlers
  /\ tunnels \subseteq Handlers /\ registry \subseteq Callbacks
  /\ readers \subseteq Handlers /\ writer \in Handlers \union {None}
  /\ question \in [Handlers -> Callbacks \union {None}] /\ asked \subseteq Callbacks
  /\ tasks \in [Handlers -> {"none", "running", "aborted", "gone"}]
  /\ inbox \in [Handlers -> Seq(Messages)]
  /\ registered \in [Handlers -> SUBSET Handlers]
  /\ found \in [Handlers -> SUBSET Handlers]
  /\ failed \subseteq Handlers /\ abandoned \subseteq Callbacks
  /\ late \subseteq Handlers
  /\ IsFiniteSet(channels) /\ IsFiniteSet(tunnels)

\* Where a handler can be, by its request, and that what it is about is known.
Stage(h) ==
  /\ kind[h] = None <=> pc[h] = "idle"
  /\ kind[h] = "launch" => pc[h] \in {"plugin", "ask", "wait", "done"}
  /\ kind[h] = "connect" => pc[h] \in {"plugin", "ask", "wait", "insert", "done"}
  /\ kind[h] = "open" => pc[h] \in {"lock", "insert", "done"}
  /\ kind[h] \in {"forward", "reverse"} => pc[h] \in {"lock", "setup", "store", "done"}
  /\ kind[h] = "kill" => pc[h] \in {"lock", "done"} \union Killing
  /\ kind[h] \in About => of[h] \in Known

StageInv == \A h \in Handlers : Stage(h)

\* What the maps hold was put there by a handler that is through.
MapsInv ==
  /\ \A c \in connections : c \in Known /\ tasks[c] = "running"
  /\ \A ch \in channels : kind[ch] = "open" /\ pc[ch] = "done"
  /\ \A t \in tunnels : kind[t] \in {"forward", "reverse"} /\ pc[t] = "done"

\* kill() holds the lock for writing and has removed the connection, whose tasks
\* still run; open_channel() holds it for reading while the connection is there.
LockInv ==
  /\ \A h \in Handlers : pc[h] \in Killing =>
       writer = h /\ of[h] \notin connections /\ tasks[of[h]] = "running"
  /\ \A h \in Handlers : kind[h] = "open" /\ pc[h] = "insert" =>
       h \in readers /\ of[h] \in connections
  /\ writer # None => readers = {}

\* A connection whose tasks run is in the map or being killed.
ConnectionInv ==
  /\ \A c \in Known :
       c \in connections \/ KillAhead(c, Killing) \/ tasks[c] # "running"
  /\ \A c \in Handlers : kind[c] = "connect" /\ pc[c] = "insert" => tasks[c] = "running"
  /\ \A c \in Handlers : pc[c] \in {"idle", "plugin", "ask", "wait"} =>
       tasks[c] = "none"

\* What kill() was told has all channels of the connection, and no other.
FoundInv ==
  \A h \in Handlers : pc[h] = "channels" =>
    \A ch \in channels : of[ch] = of[h] <=> ch \in found[h]

\* A handler that has registered its channel.
Opened(h) == kind[h] \in {"open", "forward", "reverse"} /\ pc[h] # "lock"

\* What a message to connection c says of the handler it names.
Legit(c, m) ==
  /\ of[m.id] = c
  /\ m.type = "register" => Opened(m.id)
  /\ m.type = "get" => kind[m.id] = "kill" /\ pc[m.id] = "ids"
  /\ m.type = "write" => kind[m.id] = "open" /\ pc[m.id] = "done"
  /\ m.type = "unregister" =>
       Opened(m.id) /\ pc[m.id] = "done" /\ m.id \notin channels \union tunnels

MessageInv == \A c \in Handlers : \A i \in 1 .. Len(inbox[c]) : Legit(c, inbox[c][i])

\* A registration comes before what depends on it; kill() asks once.
InOrder(a, b) ==
  a.type = "register" =>
    b.type # "get" /\ (b.type \in {"unregister", "write"} => b.id # a.id)

OrderInv ==
  \A c \in Handlers : \A i \in 1 .. Len(inbox[c]) : \A j \in 1 .. Len(inbox[c]) :
    /\ j < i => InOrder(inbox[c][i], inbox[c][j])
    /\ j < i => ~(inbox[c][i].type = "get" /\ inbox[c][j].type = "get")

Registering(c, id) == \E i \in 1 .. Len(inbox[c]) : inbox[c][i] = Msg("register", id)

\* The action task knows a channel that is stored or about to be, or will.
RegisteredInv ==
  /\ \A c \in Handlers : \A id \in registered[c] : of[id] = c /\ Opened(id)
  /\ \A h \in Handlers :
       /\ h \in channels \/ (kind[h] = "open" /\ pc[h] = "insert")
       /\ Alive(of[h])
       => h \in registered[of[h]] \/ Registering(of[h], h)

OwnedInv ==
  \A c \in connections : \A id \in Handlers :
    id \in registered[c] \/ Registering(c, id) => Owned(c, id) \/ id \in failed

\* A callback is there before its question is sent, for one handler only.
Asking(h) == pc[h] \in {"ask", "wait"}

QuestionInv ==
  /\ \A h \in Handlers : pc[h] = "ask" => question[h] \in registry \ asked
  /\ \A h \in Handlers : \A k \in Handlers :
       Asking(h) /\ Asking(k) /\ question[h] = question[k] => h = k

ManagerInv ==
  /\ TypeInv /\ StageInv /\ MapsInv /\ LockInv /\ ConnectionInv /\ FoundInv
  /\ MessageInv /\ OrderInv /\ RegisteredInv /\ OwnedInv
  /\ NoChannelOutlivesItsConnection /\ NoTunnelOutlivesItsConnectionUnlessLate
  /\ RequestsFindTheirChannel /\ CallbacksMatchQuestions /\ QuestionInv

-----------------------------------------------------------------------------
(* What a step does to the inboxes *)

\* Nothing changes in the inboxes, but that messages of type t naming members of
\* S have been added at the end of that of c.
GrownBy(c, t, S) ==
  \A d \in Handlers :
    /\ Len(inbox'[d]) >= Len(inbox[d])
    /\ \A i \in 1 .. Len(inbox[d]) : inbox'[d][i] = inbox[d][i]
    /\ \A i \in 1 .. Len(inbox'[d]) : i > Len(inbox[d]) =>
         d = c /\ inbox'[d][i].type = t /\ inbox'[d][i].id \in S

(* A sequence of the messages of a finite set is one. *)
LEMMA SetToSeqType ==
  ASSUME NEW S, IsFiniteSet(S)
  PROVE  SetToSeq(S) \in Seq(S)
<1>1. Cardinality(S) \in Nat /\ Bijection(1 .. Cardinality(S), S) # {}
  BY FS_CardinalityType DEF ExistsBijection
<1>2. \E f \in [1 .. Cardinality(S) -> S] : IsInjective(f)
  BY <1>1 DEF Bijection, Injection
<1>3. SetToSeq(S) \in [1 .. Cardinality(S) -> S]
  BY <1>2 DEF SetToSeq
<1> QED
  BY <1>1, <1>3

(* So is what kill() sends for a finite set of ids. *)
LEMMA UnregistrationsType ==
  ASSUME NEW S \in SUBSET Handlers, IsFiniteSet(S)
  PROVE  Unregistrations(S) \in Seq({Msg("unregister", id) : id \in S})
<1> DEFINE T == {Msg("unregister", id) : id \in S}
           f == [id \in S |-> Msg("unregister", id)]
<1>1. f \in Surjection(S, T)
  BY DEF Surjection
<1>2. IsFiniteSet(T)
  BY <1>1, FS_Surjection
<1> QED
  BY <1>2, SetToSeqType DEF Unregistrations

(* Sending messages of one type lets an inbox grow. *)
LEMMA Sending ==
  ASSUME TypeInv, NEW c \in Handlers, NEW S \in SUBSET Handlers,
         NEW t \in {"register", "unregister", "get", "write"},
         NEW msgs \in Seq({Msg(t, id) : id \in S}), inbox' = Sent(c, msgs)
  PROVE  /\ inbox' \in [Handlers -> Seq(Messages)]
         /\ GrownBy(c, t, S)
         /\ Len(inbox'[c]) <= Len(inbox[c]) + Len(msgs)
         /\ Alive(c) => \A i \in 1 .. Len(msgs) :
              /\ Len(inbox[c]) + i \in 1 .. Len(inbox'[c])
              /\ inbox'[c][Len(inbox[c]) + i] = msgs[i]
<1>1. inbox \in [Handlers -> Seq(Messages)] /\ inbox[c] \in Seq(Messages)
  BY DEF TypeInv
<1>2. \A i \in 1 .. Len(msgs) :
        msgs[i] \in Messages /\ msgs[i].type = t /\ msgs[i].id \in S
  <2>1. \A i \in 1 .. Len(msgs) : msgs[i] \in {Msg(t, id) : id \in S}
    BY ElementOfSeq
  <2> QED
    BY <2>1 DEF Msg, Messages
<1>3. msgs \in Seq(Messages)
  <2>1. {Msg(t, id) : id \in S} \subseteq Messages
    BY DEF Msg, Messages
  <2> QED
    BY <2>1, SeqMonotonic
<1>4. CASE ~Alive(c)
  <2>1. inbox' = inbox
    BY <1>4 DEF Sent
  <2>2. Len(msgs) \in Nat /\ \A d \in Handlers : Len(inbox[d]) \in Nat
    BY <1>1, LenProperties
  <2> QED
    BY <1>1, <1>4, <2>1, <2>2 DEF GrownBy
<1>5. CASE Alive(c)
  <2> DEFINE new == inbox[c] \o msgs
  <2>1. inbox' = [inbox EXCEPT ![c] = new]
    BY <1>5 DEF Sent
  <2>2. /\ new \in Seq(Messages) /\ Len(new) = Len(inbox[c]) + Len(msgs)
        /\ \A i \in 1 .. Len(inbox[c]) + Len(msgs) :
             new[i] = IF i <= Len(inbox[c]) THEN inbox[c][i] ELSE msgs[i - Len(inbox[c])]
    BY <1>1, <1>3, ConcatProperties
  <2>3. Len(msgs) \in Nat /\ \A d \in Handlers : Len(inbox[d]) \in Nat
    BY <1>1, LenProperties
  <2> HIDE DEF new
  <2>4. inbox' \in [Handlers -> Seq(Messages)]
    BY <1>1, <2>1, <2>2
  <2>5. inbox'[c] = new /\ \A d \in Handlers : d # c => inbox'[d] = inbox[d]
    BY <1>1, <2>1
  <2>6. \A i \in 1 .. Len(new) : i > Len(inbox[c]) => new[i].type = t /\ new[i].id \in S
    <3> SUFFICES ASSUME NEW i \in 1 .. Len(new), i > Len(inbox[c])
                 PROVE  new[i].type = t /\ new[i].id \in S
      OBVIOUS
    <3>1. i - Len(inbox[c]) \in 1 .. Len(msgs) /\ new[i] = msgs[i - Len(inbox[c])]
      BY <2>2, <2>3
    <3> QED
      BY <1>2, <3>1
  <2>7. GrownBy(c, t, S)
    <3>1. ASSUME NEW d \in Handlers, d # c
          PROVE  /\ Len(inbox'[d]) >= Len(inbox[d])
                 /\ \A i \in 1 .. Len(inbox[d]) : inbox'[d][i] = inbox[d][i]
                 /\ \A i \in 1 .. Len(inbox'[d]) : ~(i > Len(inbox[d]))
      BY <2>3, <2>5, <3>1
    <3>2. \A i \in 1 .. Len(inbox[c]) : new[i] = inbox[c][i]
      BY <2>2, <2>3
    <3>3. Len(new) >= Len(inbox[c])
      BY <2>2, <2>3
    <3> QED
      BY <2>5, <2>6, <3>1, <3>2, <3>3 DEF GrownBy
  <2>8. ASSUME NEW i \in 1 .. Len(msgs)
        PROVE  /\ Len(inbox[c]) + i \in 1 .. Len(new)
               /\ new[Len(inbox[c]) + i] = msgs[i]
    <3> DEFINE k == Len(inbox[c])
    <3>1. k \in Nat /\ Len(msgs) \in Nat /\ Len(new) = k + Len(msgs)
      BY <2>2, <2>3
    <3> HIDE DEF k
    <3>2. k + i \in 1 .. Len(new) /\ ~(k + i <= k) /\ (k + i) - k = i
      BY <3>1
    <3>3. new[k + i] = IF k + i <= k THEN inbox[c][k + i] ELSE msgs[(k + i) - k]
      BY <2>2, <3>1, <3>2 DEF k
    <3> QED
      BY <3>2, <3>3 DEF k
  <2> QED
    BY <2>2, <2>3, <2>4, <2>5, <2>7, <2>8
<1> QED
  BY <1>4, <1>5

(* The same for one message. *)
LEMMA SendingOne ==
  ASSUME TypeInv, NEW c \in Handlers, NEW id \in Handlers,
         NEW t \in {"register", "unregister", "get", "write"},
         inbox' = Sent(c, <<Msg(t, id)>>)
  PROVE  /\ inbox' \in [Handlers -> Seq(Messages)]
         /\ GrownBy(c, t, {id})
         /\ Len(inbox'[c]) <= Len(inbox[c]) + 1
         /\ Alive(c) => \E i \in 1 .. Len(inbox'[c]) : inbox'[c][i] = Msg(t, id)
<1> DEFINE msgs == <<Msg(t, id)>>
           S == {id}
<1>1. msgs \in Seq({Msg(t, x) : x \in S}) /\ Len(msgs) = 1 /\ msgs[1] = Msg(t, id)
  OBVIOUS
<1>2. inbox' = Sent(c, msgs) /\ S \in SUBSET Handlers
  OBVIOUS
<1> HIDE DEF msgs, S
<1>3. /\ inbox' \in [Handlers -> Seq(Messages)]
      /\ GrownBy(c, t, S)
      /\ Len(inbox'[c]) <= Len(inbox[c]) + Len(msgs)
      /\ Alive(c) => \A i \in 1 .. Len(msgs) :
           /\ Len(inbox[c]) + i \in 1 .. Len(inbox'[c])
           /\ inbox'[c][Len(inbox[c]) + i] = msgs[i]
  BY <1>1, <1>2, Sending
<1>4. Alive(c) => \E i \in 1 .. Len(inbox'[c]) : inbox'[c][i] = Msg(t, id)
  <2> SUFFICES ASSUME Alive(c)
               PROVE  \E i \in 1 .. Len(inbox'[c]) : inbox'[c][i] = Msg(t, id)
    OBVIOUS
  <2>1. /\ Len(inbox[c]) + 1 \in 1 .. Len(inbox'[c])
        /\ inbox'[c][Len(inbox[c]) + 1] = Msg(t, id)
    BY <1>1, <1>3
  <2> QED
    BY <2>1
<1>5. GrownBy(c, t, {id})
  BY <1>3 DEF S
<1> QED
  BY <1>1, <1>3, <1>4, <1>5

\* The requests about connections go on: none is replaced by another, none goes
\* back to the lock, and what one that is through has made is made only once.
Onward ==
  \A h \in Handlers : kind[h] \in About =>
    /\ kind'[h] = kind[h] /\ of'[h] = of[h]
    /\ pc[h] # "lock" => pc'[h] # "lock"
    /\ pc[h] = "done" => /\ pc'[h] = "done"
                         /\ h \in channels' \union tunnels' =>
                              h \in channels \union tunnels

GetsWait == \A h \in Handlers : pc[h] = "ids" => pc'[h] = "ids"

(* What messages say stays true while the requests go on. *)
LEMMA LegitStays ==
  ASSUME Onward, GetsWait, NEW c \in Handlers, NEW m \in Messages, Legit(c, m)
  PROVE  Legit(c, m)'
<1>1. m.id \in Handlers /\ m.type \in {"register", "unregister", "get", "write"}
  BY DEF Messages
<1>2. kind[m.id] \in About
  BY <1>1 DEF Legit, Opened, About
<1> QED
  BY <1>1, <1>2 DEF Legit, Opened, Onward, GetsWait

(* New messages that are true, too, keep MessageInv. *)
LEMMA MessagesGrown ==
  ASSUME ManagerInv, inbox' \in [Handlers -> Seq(Messages)], Onward, GetsWait,
         NEW c \in Handlers, NEW t, NEW S, GrownBy(c, t, S),
         \A m \in Messages : m.type = t /\ m.id \in S => Legit(c, m)'
  PROVE  MessageInv'
<1> SUFFICES ASSUME NEW d \in Handlers, NEW i \in 1 .. Len(inbox'[d]),
                    NEW m, m = inbox'[d][i]
             PROVE  Legit(d, m)'
  BY DEF MessageInv, Legit, Opened
<1>1. m \in Messages /\ Len(inbox[d]) \in Nat
  BY ElementOfSeq, LenProperties DEF ManagerInv, TypeInv
<1>2. CASE i > Len(inbox[d])
  BY <1>1, <1>2 DEF GrownBy
<1>3. CASE ~(i > Len(inbox[d]))
  <2>1. i \in 1 .. Len(inbox[d])
    BY <1>1, <1>3
  <2>2. m = inbox[d][i] /\ Legit(d, inbox[d][i])
    BY <2>1 DEF GrownBy, ManagerInv, MessageInv
  <2>3. Legit(d, m)
    BY <2>2
  <2> QED
    BY <1>1, <2>3, LegitStays
<1> QED
  BY <1>2, <1>3

(* A new registration finds no message that depends on it, a new question no
   other. *)
LEMMA OrderGrown ==
  ASSUME ManagerInv, inbox' \in [Handlers -> Seq(Messages)],
         NEW c \in Handlers, NEW t, NEW S, GrownBy(c, t, S),
         t \in {"register", "get"} =>
           /\ Len(inbox'[c]) <= Len(inbox[c]) + 1
           /\ \A i \in 1 .. Len(inbox[c]) : inbox[c][i].type # "get",
         t = "register" => \A i \in 1 .. Len(inbox[c]) :
           inbox[c][i].type \in {"unregister", "write"} => inbox[c][i].id \notin S
  PROVE  OrderInv'
<1> SUFFICES ASSUME NEW d \in Handlers, NEW i \in 1 .. Len(inbox'[d]),
                    NEW j \in 1 .. Len(inbox'[d]), j < i
             PROVE  /\ InOrder(inbox'[d][i], inbox'[d][j])
                    /\ ~(inbox'[d][i].type = "get" /\ inbox'[d][j].type = "get")
  BY DEF OrderInv, InOrder
<1>1. Len(inbox[d]) \in Nat /\ Len(inbox'[d]) \in Nat /\ i \in Nat /\ j \in Nat
  BY LenProperties DEF ManagerInv, TypeInv
<1>2. CASE i <= Len(inbox[d])
  <2>1. i \in 1 .. Len(inbox[d]) /\ j \in 1 .. Len(inbox[d])
    BY <1>1, <1>2
  <2>2. inbox'[d][i] = inbox[d][i] /\ inbox'[d][j] = inbox[d][j]
    BY <2>1 DEF GrownBy
  <2> QED
    BY <2>1, <2>2 DEF ManagerInv, OrderInv
<1>3. CASE i > Len(inbox[d])
  <2>1. d = c /\ inbox'[d][i].type = t /\ inbox'[d][i].id \in S
    BY <1>3 DEF GrownBy
  <2>2. CASE t \notin {"register", "get"}
    BY <2>1, <2>2 DEF InOrder
  <2>3. CASE t \in {"register", "get"}
    <3>1. j \in 1 .. Len(inbox[d])
      BY <1>1, <1>3, <2>1, <2>3
    <3>2. inbox'[d][j] = inbox[d][j]
      BY <3>1 DEF GrownBy
    <3> QED
      BY <2>1, <2>3, <3>1, <3>2 DEF InOrder
  <2> QED
    BY <2>2, <2>3
<1> QED
  BY <1>1, <1>2, <1>3

(* Registrations that were under way are still. *)
LEMMA RegisteringStays ==
  ASSUME ManagerInv, inbox' \in [Handlers -> Seq(Messages)],
         NEW c, NEW t, NEW S, GrownBy(c, t, S),
         NEW d \in Handlers, NEW m, \E i \in 1 .. Len(inbox[d]) : inbox[d][i] = m
  PROVE  \E i \in 1 .. Len(inbox'[d]) : inbox'[d][i] = m
<1>1. PICK i \in 1 .. Len(inbox[d]) : inbox[d][i] = m
  OBVIOUS
<1>2. Len(inbox[d]) \in Nat /\ Len(inbox'[d]) \in Nat
  BY LenProperties DEF ManagerInv, TypeInv
<1>3. i \in 1 .. Len(inbox'[d]) /\ inbox'[d][i] = m
  BY <1>1, <1>2 DEF GrownBy
<1> QED
  BY <1>3

(* Who had or sent a registration has or sent it still; others have to. *)
LEMMA RegisteredGrown ==
  ASSUME ManagerInv, inbox' \in [Handlers -> Seq(Messages)], Onward,
         NEW c, NEW t, NEW S, GrownBy(c, t, S), registered' = registered,
         \A h \in Handlers :
           /\ h \in channels' \/ (kind'[h] = "open" /\ pc'[h] = "insert")
           /\ Alive(of[h])'
           => \/ /\ h \in channels \/ (kind[h] = "open" /\ pc[h] = "insert")
                 /\ Alive(of[h]) /\ of'[h] = of[h] /\ of[h] \in Handlers
              \/ Registering(of[h], h)'
  PROVE  RegisteredInv'
<1>1. \A d \in Handlers : \A id \in registered'[d] : of'[id] = d /\ Opened(id)'
  <2> SUFFICES ASSUME NEW d \in Handlers, NEW id \in registered[d]
               PROVE  of'[id] = d /\ Opened(id)'
    OBVIOUS
  <2>1. id \in Handlers /\ of[id] = d /\ Opened(id)
    BY DEF ManagerInv, TypeInv, RegisteredInv
  <2> QED
    BY <2>1 DEF Onward, Opened, About
<1>2. ASSUME NEW h \in Handlers,
             h \in channels' \/ (kind'[h] = "open" /\ pc'[h] = "insert"), Alive(of[h])'
      PROVE  h \in registered'[of'[h]] \/ Registering(of[h], h)'
  <2>1. CASE Registering(of[h], h)'
    BY <2>1
  <2>2. CASE /\ h \in channels \/ (kind[h] = "open" /\ pc[h] = "insert")
             /\ Alive(of[h]) /\ of'[h] = of[h] /\ of[h] \in Handlers
    <3>1. CASE h \in registered[of[h]]
      BY <2>2, <3>1
    <3>2. CASE Registering(of[h], h)
      <4>1. \E i \in 1 .. Len(inbox'[of[h]]) : inbox'[of[h]][i] = Msg("register", h)
        BY <2>2, <3>2, RegisteringStays DEF Registering
      <4> QED
        BY <2>2, <4>1 DEF Registering, Msg
    <3> QED
      BY <2>2, <3>1, <3>2 DEF ManagerInv, RegisteredInv
  <2> QED
    BY <1>2, <2>1, <2>2
<1> QED
  BY <1>1, <1>2 DEF RegisteredInv

\* A message that unregisters id is on its way to d.
Unregistering(d, id) ==
  \E i \in 1 .. Len(inbox[d]) : inbox[d][i] = Msg("unregister", id)

\* A registration has an owner in the maps or in a handler.
InHand(id) == id \in channels \union tunnels \/ pc[id] \in {"insert", "setup", "store"}

(* Owned, in other words. *)
LEMMA OwnedIs ==
  ASSUME TypeInv, NEW c \in Handlers, NEW id
  PROVE  Owned(c, id) <=> InHand(id) \/ Unregistering(c, id)
<1>1. DOMAIN inbox[c] = 1 .. Len(inbox[c])
  BY LenProperties DEF TypeInv
<1> QED
  BY <1>1 DEF Owned, InHand, Unregistering

(* What is registered or about to be is about this connection. *)
LEMMA RegistrationsOf ==
  ASSUME ManagerInv, NEW c \in Handlers, NEW id \in Handlers,
         id \in registered[c] \/ Registering(c, id)
  PROVE  of[id] = c /\ Opened(id)
<1>1. CASE id \in registered[c]
  BY <1>1 DEF ManagerInv, RegisteredInv
<1>2. CASE Registering(c, id)
  <2>1. PICK i \in 1 .. Len(inbox[c]) : inbox[c][i] = Msg("register", id)
    BY <1>2 DEF Registering
  <2>2. Legit(c, inbox[c][i])
    BY DEF ManagerInv, MessageInv
  <2> QED
    BY <2>1, <2>2 DEF Legit, Msg
<1> QED
  BY <1>1, <1>2

(* A registration stays owned if its owner leaves it with a message only, and a
   new one has a handler. *)
LEMMA OwnedGrown ==
  ASSUME ManagerInv, TypeInv', NEW c \in Handlers, NEW t, NEW S, GrownBy(c, t, S),
         registered' = registered,
         \A d \in connections' :
           \/ d \in connections
           \/ \A id \in Handlers : ~(id \in registered[d]) /\ ~Registering(d, id)',
         \A id \in Handlers :
           (InHand(id) \/ id \in failed) /\ kind[id] \in About
             /\ of[id] \in connections' =>
             \/ InHand(id)' \/ id \in failed'
             \/ \E i \in 1 .. Len(inbox'[of[id]]) :
                  inbox'[of[id]][i] = Msg("unregister", id),
         t = "register" /\ c \in connections' => \A id \in S : InHand(id)'
  PROVE  OwnedInv'
<1> SUFFICES ASSUME NEW d \in connections', NEW id \in Handlers,
                    id \in registered'[d] \/ Registering(d, id)'
             PROVE  Owned(d, id)' \/ id \in failed'
  BY DEF OwnedInv
<1>1. d \in Handlers /\ d \in connections /\ inbox' \in [Handlers -> Seq(Messages)]
  BY DEF TypeInv
<1>2. Owned(d, id)' <=> InHand(id)' \/ Unregistering(d, id)'
  <2>1. DOMAIN inbox'[d] = 1 .. Len(inbox'[d])
    BY <1>1, LenProperties
  <2> QED
    BY <2>1 DEF Owned, InHand, Unregistering
<1>3. CASE id \in registered[d] \/ Registering(d, id)
  <2>1. of[id] = d /\ kind[id] \in About
    BY <1>1, <1>3, RegistrationsOf DEF Opened, About
  <2>2. InHand(id) \/ id \in failed \/ Unregistering(d, id)
    BY <1>1, <1>3, OwnedIs DEF ManagerInv, OwnedInv
  <2>3. CASE Unregistering(d, id)
    <3>1. \E i \in 1 .. Len(inbox'[d]) : inbox'[d][i] = Msg("unregister", id)
      BY <1>1, <2>3, RegisteringStays DEF Unregistering
    <3> QED
      BY <1>2, <3>1 DEF Unregistering, Msg
  <2>4. CASE InHand(id) \/ id \in failed
    BY <1>2, <2>1, <2>4 DEF Unregistering, Msg
  <2> QED
    BY <2>2, <2>3, <2>4
<1>4. CASE ~(id \in registered[d]) /\ ~Registering(d, id)
  <2>1. PICK i \in 1 .. Len(inbox'[d]) : inbox'[d][i] = Msg("register", id)
    BY <1>4 DEF Registering, Msg
  <2>2. i > Len(inbox[d])
    <3>1. Len(inbox[d]) \in Nat /\ Len(inbox'[d]) \in Nat
      BY <1>1, LenProperties DEF ManagerInv, TypeInv
    <3>2. ~(i \in 1 .. Len(inbox[d]))
      BY <1>1, <1>4, <2>1 DEF Registering, GrownBy
    <3> QED
      BY <3>1, <3>2
  <2>3. d = c /\ t = "register" /\ id \in S
    BY <1>1, <2>1, <2>2 DEF GrownBy, Msg
  <2> QED
    BY <1>2, <2>3
<1> QED
  BY <1>3, <1>4

(* A new request comes after the registration of its channel, which nobody has
   begun to remove. *)
LEMMA RequestsGrown ==
  ASSUME ManagerInv, inbox' \in [Handlers -> Seq(Messages)],
         NEW c \in Handlers, NEW t, NEW S, GrownBy(c, t, S), registered' = registered,
         t = "write" => \A id \in S : id \in channels /\ of[id] = c /\ Alive(c)
  PROVE  RequestsFindTheirChannel'
<1> SUFFICES ASSUME NEW d \in Handlers, NEW i \in 1 .. Len(inbox'[d]),
                    inbox'[d][i].type = "write", NEW ch, ch = inbox'[d][i].id
             PROVE  /\ ch \in registered[d]
                         \/ \E j \in 1 .. i - 1 : inbox'[d][j] = Msg("register", ch)
                    /\ ~ \E j \in 1 .. i - 1 : inbox'[d][j] = Msg("unregister", ch)
  <2>1. \A d \in Handlers : DOMAIN inbox'[d] = 1 .. Len(inbox'[d])
    BY LenProperties
  <2> QED
    BY <2>1 DEF RequestsFindTheirChannel, Before, Msg
<1>1. Len(inbox[d]) \in Nat /\ Len(inbox'[d]) \in Nat /\ i \in Nat
  BY LenProperties DEF ManagerInv, TypeInv
<1>2. CASE i <= Len(inbox[d])
  <2>1. i \in 1 .. Len(inbox[d]) /\ \A j \in 1 .. i - 1 : j \in 1 .. Len(inbox[d])
    BY <1>1, <1>2
  <2>2. inbox'[d][i] = inbox[d][i] /\ \A j \in 1 .. i - 1 : inbox'[d][j] = inbox[d][j]
    BY <2>1 DEF GrownBy
  <2>3. i \in DOMAIN inbox[d]
    BY <2>1, LenProperties DEF ManagerInv, TypeInv
  <2>4. /\ ch \in registered[d] \/ Before(d, i, "register", ch)
        /\ ~Before(d, i, "unregister", ch)
    BY <2>2, <2>3 DEF ManagerInv, RequestsFindTheirChannel
  <2> QED
    BY <2>2, <2>4 DEF Before
<1>3. CASE i > Len(inbox[d])
  <2>1. d = c /\ t = "write" /\ ch \in S
    BY <1>3 DEF GrownBy
  <2>2. ch \in channels /\ of[ch] = d /\ Alive(d) /\ ch \in Handlers
    BY <2>1 DEF ManagerInv, TypeInv
  <2>3. ch \in registered[d] \/ Registering(d, ch)
    BY <2>2 DEF ManagerInv, RegisteredInv
  <2>4. Registering(d, ch) => \E j \in 1 .. i - 1 : inbox'[d][j] = Msg("register", ch)
    <3> SUFFICES ASSUME NEW j \in 1 .. Len(inbox[d]), inbox[d][j] = Msg("register", ch)
                 PROVE  \E k \in 1 .. i - 1 : inbox'[d][k] = Msg("register", ch)
      BY DEF Registering
    <3>1. j \in 1 .. i - 1 /\ inbox'[d][j] = inbox[d][j]
      BY <1>1, <1>3 DEF GrownBy
    <3> QED
      BY <3>1
  <2>5. ASSUME NEW j \in 1 .. i - 1, inbox'[d][j] = Msg("unregister", ch) PROVE FALSE
    <3>1. CASE j > Len(inbox[d])
      <4>1. j \in 1 .. Len(inbox'[d])
        BY <1>1
      <4> QED
        BY <2>1, <2>5, <3>1, <4>1 DEF GrownBy, Msg
    <3>2. CASE ~(j > Len(inbox[d]))
      <4>1. j \in 1 .. Len(inbox[d])
        BY <1>1, <3>2
      <4>2. Legit(d, inbox[d][j]) /\ inbox[d][j] = Msg("unregister", ch)
        BY <2>5, <4>1 DEF GrownBy, ManagerInv, MessageInv
      <4> QED
        BY <2>2, <4>2 DEF Legit, Msg
    <3> QED
      BY <3>1, <3>2
  <2> QED
    BY <2>3, <2>4, <2>5
<1>4. i <= Len(inbox[d]) \/ i > Len(inbox[d])
  BY <1>1
<1> QED
  BY <1>2, <1>3, <1>4

-----------------------------------------------------------------------------
(* The parts of the invariant *)

\* What is proved of every step besides types, and its part about messages.
Messaging ==
  MessageInv /\ OrderInv /\ RegisteredInv /\ OwnedInv /\ RequestsFindTheirChannel

Handling == StageInv /\ MapsInv /\ LockInv /\ ConnectionInv

Mapping ==
  /\ FoundInv
  /\ NoChannelOutlivesItsConnection /\ NoTunnelOutlivesItsConnectionUnlessLate

\* g is f but for v at h.
Sets(f, g, h, v) == \A u \in Handlers : g[u] = IF u = h THEN v ELSE f[u]

(* A step that sends nothing and changes no registration keeps what is known of
   messages. *)
LEMMA QuietKeeps ==
  ASSUME ManagerInv, TypeInv', UNCHANGED <<inbox, registered>>, Onward, GetsWait,
         \A d \in connections' :
           \/ d \in connections
           \/ \A id \in Handlers : ~(id \in registered[d]) /\ ~Registering(d, id),
         \A h \in Handlers :
           /\ h \in channels' \/ (kind'[h] = "open" /\ pc'[h] = "insert")
           /\ Alive(of[h])'
           => /\ h \in channels \/ (kind[h] = "open" /\ pc[h] = "insert")
              /\ Alive(of[h]) /\ of'[h] = of[h] /\ of[h] \in Handlers,
         \A id \in Handlers : kind[id] \in About /\ (InHand(id) \/ id \in failed) =>
           InHand(id)' \/ id \in failed'
  PROVE  Messaging'
<1>1. CASE Handlers = {}
  BY <1>1 DEF Messaging, MessageInv, OrderInv, RegisteredInv, OwnedInv,
     RequestsFindTheirChannel, TypeInv
<1>2. CASE Handlers # {}
  <2>1. PICK c \in Handlers : TRUE
    BY <1>2
  <2>2. GrownBy(c, "write", {}) /\ inbox' \in [Handlers -> Seq(Messages)]
    <3>1. \A d \in Handlers : Len(inbox[d]) \in Nat
      BY LenProperties DEF ManagerInv, TypeInv
    <3> QED
      BY <3>1 DEF GrownBy, TypeInv
  <2>3. MessageInv'
    BY <2>1, <2>2, MessagesGrown
  <2>4. OrderInv'
    BY <2>1, <2>2, OrderGrown
  <2>5. RegisteredInv'
    BY <2>1, <2>2, RegisteredGrown
  <2>6. OwnedInv'
    BY <2>1, <2>2, OwnedGrown DEF Registering
  <2>7. RequestsFindTheirChannel'
    BY <2>1, <2>2, RequestsGrown
  <2> QED
    BY <2>3, <2>4, <2>5, <2>6, <2>7 DEF Messaging
<1> QED
  BY <1>1, <1>2

\* A step of a launch or connect request before it has a connection.
Aside(h) ==
  /\ \/ pc' = pc /\ kind' = kind
     \/ /\ kind[h] \notin About /\ kind'[h] \in {"launch", "connect"}
        /\ pc[h] \in {"idle", "plugin", "ask", "wait"}
        /\ pc'[h] \in {"plugin", "ask", "wait", "done"}
        /\ \A u \in Handlers : u # h => pc'[u] = pc[u] /\ kind'[u] = kind[u]
  /\ UNCHANGED <<of, connections, channels, tunnels, readers, writer, tasks, inbox,
                 registered, found, failed, late>>

(* Such a step is of no concern for the maps and messages. *)
LEMMA AsideKeeps ==
  ASSUME ManagerInv, TypeInv', NEW h \in Handlers, Aside(h)
  PROVE  Handling' /\ Mapping' /\ Messaging'
<1>1. CASE pc' = pc /\ kind' = kind
  <2>1. Handling'
    BY <1>1 DEF Aside, ManagerInv, Handling, StageInv, Stage, MapsInv, LockInv,
       ConnectionInv, Known, KillAhead
  <2>2. Mapping'
    BY <1>1 DEF Aside, ManagerInv, Mapping, FoundInv, NoChannelOutlivesItsConnection,
       NoTunnelOutlivesItsConnectionUnlessLate, KillAhead
  <2>3. Messaging'
    <3>1. Onward /\ GetsWait
      BY <1>1 DEF Aside, Onward, GetsWait
    <3>2. \A u \in channels : of[u] \in Handlers
      BY DEF ManagerInv, MapsInv, StageInv, Stage, TypeInv, About, Known
    <3>3. \A u \in Handlers : kind[u] = "open" => of[u] \in Handlers
      BY DEF ManagerInv, StageInv, Stage, About, Known
    <3> QED
      BY <1>1, <3>1, <3>2, <3>3, QuietKeeps DEF Aside, Alive, InHand
  <2> QED
    BY <2>1, <2>2, <2>3
<1>2. CASE ~(pc' = pc /\ kind' = kind)
  <2>1. /\ kind[h] \notin About /\ kind'[h] \in {"launch", "connect"}
        /\ pc[h] \in {"idle", "plugin", "ask", "wait"}
        /\ pc'[h] \in {"plugin", "ask", "wait", "done"}
        /\ \A u \in Handlers : u # h => pc'[u] = pc[u] /\ kind'[u] = kind[u]
        /\ UNCHANGED <<of, connections, channels, tunnels, readers, writer, tasks,
                       inbox,
                       registered, found, failed, late>>
    BY <1>2 DEF Aside
  <2>2. tasks[h] = "none"
    BY <2>1 DEF ManagerInv, ConnectionInv
  <2>3. \A u \in Handlers : kind'[u] \in About <=> kind[u] \in About
    BY <2>1 DEF About
  <2>4. Known' = Known /\ Known \subseteq Handlers
    BY <2>1, <2>2 DEF Known
  <2>5. \A u \in Handlers : kind[u] \in About =>
          u # h /\ pc'[u] = pc[u] /\ kind'[u] = kind[u]
    BY <2>1
  <2>6. StageInv'
    BY <2>1, <2>2, <2>3, <2>4 DEF ManagerInv, StageInv, Stage, About, None, Known
  <2>7. MapsInv'
    BY <2>1, <2>4, <2>5 DEF ManagerInv, MapsInv, TypeInv, About
  <2>8. LockInv'
    BY <2>1, <2>5 DEF ManagerInv, LockInv, Killing, About
  <2>9. \A c, p : KillAhead(c, p) => KillAhead(c, p)'
    BY <2>1, <2>5 DEF KillAhead, About
  <2>10. ConnectionInv'
    <3>1. \A c \in Known' :
            c \in connections' \/ KillAhead(c, Killing)' \/ tasks'[c] # "running"
      BY <2>1, <2>4, <2>9 DEF ManagerInv, ConnectionInv
    <3> QED
      BY <2>1, <2>2, <3>1 DEF ManagerInv, ConnectionInv
  <2>11. Mapping'
    BY <2>1, <2>9 DEF ManagerInv, Mapping, FoundInv, NoChannelOutlivesItsConnection,
       NoTunnelOutlivesItsConnectionUnlessLate
  <2>12. Messaging'
    <3>1. Onward /\ GetsWait
      BY <2>1, <2>5 DEF Onward, GetsWait
    <3>2. \A u \in channels : of[u] \in Handlers
      BY DEF ManagerInv, MapsInv, StageInv, Stage, TypeInv, About, Known
    <3>3. \A u \in Handlers : kind[u] = "open" => of[u] \in Handlers
      BY DEF ManagerInv, StageInv, Stage, About, Known
    <3> QED
      BY <2>1, <3>1, <3>2, <3>3, QuietKeeps DEF Alive, InHand
  <2> QED
    BY <2>6, <2>7, <2>8, <2>10, <2>11, <2>12 DEF Handling
<1> QED
  BY <1>1, <1>2

(* A connection in the map has not been asked for its channels. *)
LEMMA NotAsked ==
  ASSUME ManagerInv, NEW c \in connections, NEW i \in 1 .. Len(inbox[c])
  PROVE  inbox[c][i].type # "get"
<1>1. c \in Handlers /\ inbox[c][i] \in Messages /\ Legit(c, inbox[c][i])
  BY ElementOfSeq DEF ManagerInv, TypeInv, MessageInv
<1>2. inbox[c][i].id \in Handlers
  BY <1>1 DEF Messages
<1> QED
  BY <1>1, <1>2 DEF Legit, ManagerInv, LockInv, Killing

(* open_channel() and InternalRawChannel::open: the registration is new, and the
   handler that sent it goes on to store the channel or the tunnel. *)
LEMMA RegisterKeeps ==
  ASSUME ManagerInv, TypeInv', NEW h \in Handlers, NEW l \in {"insert", "setup"},
         pc[h] = "lock", kind[h] \in {"open", "forward", "reverse"},
           of[h] \in connections,
         inbox' = Sent(of[h], <<Msg("register", h)>>), Sets(pc, pc', h, l),
         kind[h] # "open" => l = "setup",
         UNCHANGED <<kind, of, connections, channels, tunnels, tasks, registered,
                     failed>>
  PROVE  Messaging'
<1> DEFINE S == {h}
<1>1. PICK c \in Handlers : c = of[h] /\ c \in connections /\ Alive(c) /\ of'[h] = c
  BY DEF ManagerInv, TypeInv, MapsInv, Alive
<1>2. /\ inbox' \in [Handlers -> Seq(Messages)] /\ GrownBy(c, "register", S)
      /\ Len(inbox'[c]) <= Len(inbox[c]) + 1
      /\ \E i \in 1 .. Len(inbox'[c]) : inbox'[c][i] = Msg("register", h)
  BY <1>1, SendingOne DEF ManagerInv
<1>3. Onward /\ GetsWait
  BY DEF Onward, GetsWait, Sets
<1>4. MessageInv'
  <2>1. \A m \in Messages : m.type = "register" /\ m.id \in S => Legit(c, m)'
    BY <1>1 DEF Legit, Opened, Sets
  <2> HIDE DEF S
  <2> QED
    BY <1>1, <1>2, <1>3, <2>1, MessagesGrown
<1>5. OrderInv'
  <2>1. \A i \in 1 .. Len(inbox[c]) : inbox[c][i].type # "get"
    BY <1>1, NotAsked
  <2>2. \A i \in 1 .. Len(inbox[c]) :
          inbox[c][i].type \in {"unregister", "write"} => inbox[c][i].id \notin S
    BY <1>1 DEF ManagerInv, MessageInv, Legit
  <2> HIDE DEF S
  <2> QED
    BY <1>1, <1>2, <2>1, <2>2, OrderGrown
<1>6. RegisteredInv'
  <2>1. Registering(of[h], h)'
    BY <1>1, <1>2 DEF Registering, Msg
  <2>2. \A u \in Handlers : kind[u] = "open" => of[u] \in Handlers
    BY DEF ManagerInv, StageInv, Stage, About, Known
  <2>3. \A u \in channels : kind[u] = "open"
    BY DEF ManagerInv, MapsInv
  <2>4. ASSUME NEW u \in Handlers, u # h,
               u \in channels' \/ (kind'[u] = "open" /\ pc'[u] = "insert"),
                 Alive(of[u])'
        PROVE  /\ u \in channels \/ (kind[u] = "open" /\ pc[u] = "insert")
               /\ Alive(of[u]) /\ of'[u] = of[u] /\ of[u] \in Handlers
    BY <2>2, <2>3, <2>4 DEF Sets, Alive
  <2> HIDE DEF S
  <2> QED
    BY <1>1, <1>2, <1>3, <2>1, <2>4, RegisteredGrown
<1>7. OwnedInv'
  <2>1. \A id \in Handlers : InHand(id) \/ id \in failed =>
          InHand(id)' \/ id \in failed'
    BY DEF InHand, Sets, ManagerInv, MapsInv
  <2>2. \A id \in S : InHand(id)'
    BY DEF InHand, Sets
  <2> HIDE DEF S
  <2> QED
    BY <1>1, <1>2, <2>1, <2>2, OwnedGrown
<1>8. RequestsFindTheirChannel'
  BY <1>1, <1>2, RequestsGrown
<1> QED
  BY <1>4, <1>5, <1>6, <1>7, <1>8 DEF Messaging

(* Channels and tunnels that leave the maps are unregistered: whoever removes
   them sends the message, or their connection has left the map. *)
LEMMA UnregisterKeeps ==
  ASSUME ManagerInv, TypeInv', NEW c \in Handlers, NEW S \in SUBSET Handlers,
         GrownBy(c, "unregister", S), Onward, GetsWait,
         \A id \in S : of[id] = c /\ Opened(id) /\ pc[id] = "done"
                       /\ id \notin channels' \union tunnels',
         UNCHANGED <<kind, of, connections, registered, failed>>,
                     channels' \subseteq channels,
         \A u \in Handlers : pc'[u] = "insert" <=> pc[u] = "insert",
         \A u \in Handlers : Alive(u)' => Alive(u),
         \A id \in Handlers : (InHand(id) \/ id \in failed) /\ of[id] \in connections =>
           InHand(id)' \/ id \in failed' \/ Unregistering(of[id], id)'
  PROVE  Messaging'
<1>1. inbox' \in [Handlers -> Seq(Messages)]
  BY DEF TypeInv
<1>2. MessageInv'
  <2>1. \A m \in Messages : m.type = "unregister" /\ m.id \in S => Legit(c, m)'
    BY DEF Legit, Opened, Onward, About, Messages
  <2> QED
    BY <1>1, <2>1, MessagesGrown
<1>3. OrderInv'
  BY <1>1, OrderGrown
<1>4. RegisteredInv'
  <2>1. \A u \in Handlers : kind[u] = "open" => of[u] \in Handlers
    BY DEF ManagerInv, StageInv, Stage, About, Known
  <2>2. \A u \in channels : kind[u] = "open"
    BY DEF ManagerInv, MapsInv
  <2>3. ASSUME NEW u \in Handlers,
               u \in channels' \/ (kind'[u] = "open" /\ pc'[u] = "insert"),
                 Alive(of[u])'
        PROVE  /\ u \in channels \/ (kind[u] = "open" /\ pc[u] = "insert")
               /\ Alive(of[u]) /\ of'[u] = of[u] /\ of[u] \in Handlers
    <3>1. /\ u \in channels \/ (kind[u] = "open" /\ pc[u] = "insert")
          /\ of'[u] = of[u] /\ of[u] \in Handlers
      BY <2>1, <2>2, <2>3
    <3>2. Alive(of[u])
      BY <2>3, <3>1 DEF Alive
    <3> QED
      BY <3>1, <3>2
  <2> QED
    BY <1>1, <2>3, RegisteredGrown
<1>5. OwnedInv'
  <2>1. \A id \in Handlers :
          (InHand(id) \/ id \in failed) /\ of[id] \in connections' =>
            \/ InHand(id)' \/ id \in failed'
            \/ \E i \in 1 .. Len(inbox'[of[id]]) :
                 inbox'[of[id]][i] = Msg("unregister", id)
    BY DEF Unregistering, Msg
  <2> QED
    BY <2>1, OwnedGrown
<1>6. RequestsFindTheirChannel'
  BY <1>1, RequestsGrown
<1> QED
  BY <1>2, <1>3, <1>4, <1>5, <1>6 DEF Messaging

(* A request about a connection that is not in the map is refused. *)
LEMMA RefusedKeeps ==
  ASSUME ManagerInv, TypeInv', NEW h \in Handlers, pc[h] = "lock", kind[h] \in About,
         Goto(h, "done"),
         UNCHANGED <<kind, of, connections, channels, tunnels, readers, writer, tasks,
                     inbox, registered, found, failed, late>>
  PROVE  Handling' /\ Mapping' /\ Messaging'
<1> USE DEF Sets
<1>1. Sets(pc, pc', h, "done")
  BY DEF Goto, ManagerInv, TypeInv
<1>2. Known' = Known /\ Known \subseteq Handlers
  BY <1>1 DEF Known, About
<1>3. \A u \in Handlers : kind[u] \in About => of[u] \in Known /\ of[u] \in Handlers
  BY DEF ManagerInv, StageInv, Stage, Known
<1>4. \A d : KillAhead(d, Killing) => KillAhead(d, Killing)'
  BY <1>1 DEF KillAhead, Killing
<1>5. \A d : KillAhead(d, {"ids", "channels"}) => KillAhead(d, {"ids", "channels"})'
  BY <1>1 DEF KillAhead
<1>6. StageInv'
  BY <1>1, <1>2 DEF ManagerInv, StageInv, Stage, Killing, About, None
<1>7. MapsInv'
  BY <1>1, <1>2 DEF ManagerInv, MapsInv, TypeInv
<1>8. LockInv'
  BY <1>1 DEF ManagerInv, LockInv, Killing
<1>9. ConnectionInv'
  <2>1. \A d \in Known' :
          d \in connections' \/ KillAhead(d, Killing)' \/ tasks'[d] # "running"
    BY <1>1, <1>2, <1>4 DEF ManagerInv, ConnectionInv
  <2> QED
    BY <1>1, <2>1 DEF ManagerInv, ConnectionInv
<1>10. FoundInv'
  BY <1>1 DEF ManagerInv, FoundInv
<1>11. NoChannelOutlivesItsConnection'
  BY <1>1, <1>5 DEF ManagerInv, NoChannelOutlivesItsConnection
<1>12. NoTunnelOutlivesItsConnectionUnlessLate'
  BY <1>1, <1>4 DEF ManagerInv, NoTunnelOutlivesItsConnectionUnlessLate, Killing
<1>13. Messaging'
  <2>1. Onward /\ GetsWait
    BY <1>1 DEF Onward, GetsWait
  <2>2. \A u \in Handlers :
          /\ u \in channels' \/ (kind'[u] = "open" /\ pc'[u] = "insert")
          /\ Alive(of[u])'
          => /\ u \in channels \/ (kind[u] = "open" /\ pc[u] = "insert")
             /\ Alive(of[u]) /\ of'[u] = of[u] /\ of[u] \in Handlers
    BY <1>1, <1>3 DEF Alive, ManagerInv, MapsInv, About
  <2>3. \A id \in Handlers : InHand(id) \/ id \in failed =>
          InHand(id)' \/ id \in failed'
    BY <1>1 DEF InHand
  <2> QED
    BY <2>1, <2>2, <2>3, QuietKeeps
<1> QED
  BY <1>6, <1>7, <1>8, <1>9, <1>10, <1>11, <1>12, <1>13 DEF Handling, Mapping

(* InsertChannel, under the lock: the connection is still there. *)
LEMMA InsertChannelStep ==
  ASSUME ManagerInv, TypeInv', NEW h \in Handlers, InsertChannel(h)
  PROVE  Handling' /\ Mapping' /\ Messaging'
<1> USE DEF Sets
<1>1. /\ pc[h] = "insert" /\ kind[h] = "open" /\ h \in readers /\ of[h] \in connections
      /\ writer = None
      /\ Sets(pc, pc', h, "done") /\ channels' = channels \union {h}
           /\ readers' = readers \ {h}
      /\ UNCHANGED <<kind, of, connections, tunnels, writer, tasks, inbox, registered,
                     found, failed, late>>
  BY DEF InsertChannel, Goto, maps, lock, actors, history, Sets, ManagerInv, TypeInv,
     LockInv
<1>2. Known' = Known /\ Known \subseteq Handlers
  BY <1>1 DEF Known, About
<1>3. \A u \in Handlers : kind[u] \in About => of[u] \in Known /\ of[u] \in Handlers
  BY DEF ManagerInv, StageInv, Stage, Known
<1>4. \A d, p : KillAhead(d, p) => KillAhead(d, p)'
  BY <1>1 DEF KillAhead, About
<1>5. StageInv'
  BY <1>1, <1>2 DEF ManagerInv, StageInv, Stage, Killing, About, None
<1>6. MapsInv'
  BY <1>1, <1>2 DEF ManagerInv, MapsInv, TypeInv
<1>7. LockInv'
  BY <1>1 DEF ManagerInv, LockInv, Killing
<1>8. ConnectionInv'
  <2>1. \A d \in Known' :
          d \in connections' \/ KillAhead(d, Killing)' \/ tasks'[d] # "running"
    BY <1>1, <1>2, <1>4 DEF ManagerInv, ConnectionInv
  <2> QED
    BY <1>1, <2>1 DEF ManagerInv, ConnectionInv
<1>9. FoundInv'
  <2>1. \A u \in Handlers : pc[u] \notin Killing
    BY <1>1, NoneIsNoHandler DEF ManagerInv, LockInv
  <2> QED
    BY <1>1, <2>1 DEF ManagerInv, FoundInv, Killing
<1>10. NoChannelOutlivesItsConnection'
  BY <1>1, <1>4 DEF ManagerInv, NoChannelOutlivesItsConnection
<1>11. NoTunnelOutlivesItsConnectionUnlessLate'
  BY <1>1, <1>4 DEF ManagerInv, NoTunnelOutlivesItsConnectionUnlessLate
<1>12. Messaging'
  <2>1. Onward /\ GetsWait
    BY <1>1 DEF Onward, GetsWait, About, ManagerInv, MapsInv
  <2>2. \A u \in Handlers :
          /\ u \in channels' \/ (kind'[u] = "open" /\ pc'[u] = "insert")
          /\ Alive(of[u])'
          => /\ u \in channels \/ (kind[u] = "open" /\ pc[u] = "insert")
             /\ Alive(of[u]) /\ of'[u] = of[u] /\ of[u] \in Handlers
    BY <1>1, <1>3 DEF Alive, ManagerInv, MapsInv, About
  <2>3. \A id \in Handlers : kind[id] \in About /\ (InHand(id) \/ id \in failed) =>
          InHand(id)' \/ id \in failed'
    BY <1>1 DEF InHand, ManagerInv, MapsInv, About
  <2> QED
    BY <1>1, <2>1, <2>2, <2>3, QuietKeeps
<1> QED
  BY <1>5, <1>6, <1>7, <1>8, <1>9, <1>10, <1>11, <1>12 DEF Handling, Mapping

(* SetUpTunnel changes nothing but where the handler is. *)
LEMMA SetUpTunnelStep ==
  ASSUME ManagerInv, TypeInv', NEW h \in Handlers, SetUpTunnel(h)
  PROVE  Handling' /\ Mapping' /\ Messaging'
<1> USE DEF Sets
<1>1. /\ pc[h] = "setup" /\ kind[h] \in {"forward", "reverse"}
      /\ Sets(pc, pc', h, "store")
      /\ UNCHANGED <<kind, of, connections, channels, tunnels, readers, writer, tasks,
                     inbox, registered, found, failed, late>>
  BY DEF SetUpTunnel, Goto, maps, lock, actors, history, Sets, ManagerInv, TypeInv,
     StageInv, Stage, About, Killing
<1>2. Known' = Known /\ Known \subseteq Handlers
  BY <1>1 DEF Known, About
<1>3. \A u \in Handlers : kind[u] \in About => of[u] \in Known /\ of[u] \in Handlers
  BY DEF ManagerInv, StageInv, Stage, Known
<1>4. \A d, p : KillAhead(d, p) => KillAhead(d, p)'
  BY <1>1 DEF KillAhead, About
<1>5. StageInv'
  BY <1>1, <1>2 DEF ManagerInv, StageInv, Stage, Killing, About, None
<1>6. MapsInv'
  BY <1>1, <1>2 DEF ManagerInv, MapsInv, TypeInv
<1>7. LockInv'
  BY <1>1 DEF ManagerInv, LockInv, Killing
<1>8. ConnectionInv'
  <2>1. \A d \in Known' :
          d \in connections' \/ KillAhead(d, Killing)' \/ tasks'[d] # "running"
    BY <1>1, <1>2, <1>4 DEF ManagerInv, ConnectionInv
  <2> QED
    BY <1>1, <2>1 DEF ManagerInv, ConnectionInv
<1>9. FoundInv'
  BY <1>1 DEF ManagerInv, FoundInv
<1>10. NoChannelOutlivesItsConnection'
  BY <1>1, <1>4 DEF ManagerInv, NoChannelOutlivesItsConnection
<1>11. NoTunnelOutlivesItsConnectionUnlessLate'
  BY <1>1, <1>4 DEF ManagerInv, NoTunnelOutlivesItsConnectionUnlessLate
<1>12. Messaging'
  <2>1. Onward /\ GetsWait
    BY <1>1 DEF Onward, GetsWait, About, ManagerInv, MapsInv
  <2>2. \A u \in Handlers :
          /\ u \in channels' \/ (kind'[u] = "open" /\ pc'[u] = "insert")
          /\ Alive(of[u])'
          => /\ u \in channels \/ (kind[u] = "open" /\ pc[u] = "insert")
             /\ Alive(of[u]) /\ of'[u] = of[u] /\ of[u] \in Handlers
    BY <1>1, <1>3 DEF Alive, ManagerInv, MapsInv, About
  <2>3. \A id \in Handlers : kind[id] \in About /\ (InHand(id) \/ id \in failed) =>
          InHand(id)' \/ id \in failed'
    BY <1>1 DEF InHand, ManagerInv, MapsInv, About
  <2> QED
    BY <1>1, <2>1, <2>2, <2>3, QuietKeeps
<1> QED
  BY <1>5, <1>6, <1>7, <1>8, <1>9, <1>10, <1>11, <1>12 DEF Handling, Mapping

(* SetUpFails: the registration has no owner any more, and the set-up has failed. *)
LEMMA SetUpFailsStep ==
  ASSUME ManagerInv, TypeInv', NEW h \in Handlers, SetUpFails(h)
  PROVE  Handling' /\ Mapping' /\ Messaging'
<1> USE DEF Sets
<1>1. /\ pc[h] = "setup" /\ kind[h] \in {"forward", "reverse"}
      /\ Sets(pc, pc', h, "done") /\ failed' = failed \union {h}
      /\ UNCHANGED <<kind, of, connections, channels, tunnels, readers, writer, tasks,
                     inbox, registered, found, late>>
  BY DEF SetUpFails, Goto, maps, lock, actors, history, Sets, ManagerInv, TypeInv,
     StageInv, Stage, About, Killing
<1>2. Known' = Known /\ Known \subseteq Handlers
  BY <1>1 DEF Known, About
<1>3. \A u \in Handlers : kind[u] \in About => of[u] \in Known /\ of[u] \in Handlers
  BY DEF ManagerInv, StageInv, Stage, Known
<1>4. \A d, p : KillAhead(d, p) => KillAhead(d, p)'
  BY <1>1 DEF KillAhead, About
<1>5. StageInv'
  BY <1>1, <1>2 DEF ManagerInv, StageInv, Stage, Killing, About, None
<1>6. MapsInv'
  BY <1>1, <1>2 DEF ManagerInv, MapsInv, TypeInv
<1>7. LockInv'
  BY <1>1 DEF ManagerInv, LockInv, Killing
<1>8. ConnectionInv'
  <2>1. \A d \in Known' :
          d \in connections' \/ KillAhead(d, Killing)' \/ tasks'[d] # "running"
    BY <1>1, <1>2, <1>4 DEF ManagerInv, ConnectionInv
  <2> QED
    BY <1>1, <2>1 DEF ManagerInv, ConnectionInv
<1>9. FoundInv'
  BY <1>1 DEF ManagerInv, FoundInv
<1>10. NoChannelOutlivesItsConnection'
  BY <1>1, <1>4 DEF ManagerInv, NoChannelOutlivesItsConnection
<1>11. NoTunnelOutlivesItsConnectionUnlessLate'
  BY <1>1, <1>4 DEF ManagerInv, NoTunnelOutlivesItsConnectionUnlessLate
<1>12. Messaging'
  <2>1. Onward /\ GetsWait
    BY <1>1 DEF Onward, GetsWait, About, ManagerInv, MapsInv
  <2>2. \A u \in Handlers :
          /\ u \in channels' \/ (kind'[u] = "open" /\ pc'[u] = "insert")
          /\ Alive(of[u])'
          => /\ u \in channels \/ (kind[u] = "open" /\ pc[u] = "insert")
             /\ Alive(of[u]) /\ of'[u] = of[u] /\ of[u] \in Handlers
    BY <1>1, <1>3 DEF Alive, ManagerInv, MapsInv, About
  <2>3. \A id \in Handlers : kind[id] \in About /\ (InHand(id) \/ id \in failed) =>
          InHand(id)' \/ id \in failed'
    BY <1>1 DEF InHand, ManagerInv, MapsInv, About
  <2> QED
    BY <1>1, <2>1, <2>2, <2>3, QuietKeeps
<1> QED
  BY <1>5, <1>6, <1>7, <1>8, <1>9, <1>10, <1>11, <1>12 DEF Handling, Mapping

(* StoreTunnel: a connection whose tasks run is in the map or being killed. *)
LEMMA StoreTunnelStep ==
  ASSUME ManagerInv, TypeInv', NEW h \in Handlers, StoreTunnel(h)
  PROVE  Handling' /\ Mapping' /\ Messaging'
<1> USE DEF Sets
<1>1. /\ pc[h] = "store" /\ kind[h] \in {"forward", "reverse"}
      /\ Sets(pc, pc', h, "done") /\ tunnels' = tunnels \union {h}
      /\ late' = IF tasks[of[h]] = "running" THEN late ELSE late \union {h}
      /\ UNCHANGED <<kind, of, connections, channels, readers, writer, tasks, inbox,
                     registered, found, failed>>
  BY DEF StoreTunnel, Goto, maps, lock, actors, history, Sets, ManagerInv, TypeInv,
     StageInv, Stage, About, Killing
<1>2. Known' = Known /\ Known \subseteq Handlers
  BY <1>1 DEF Known, About
<1>3. \A u \in Handlers : kind[u] \in About => of[u] \in Known /\ of[u] \in Handlers
  BY DEF ManagerInv, StageInv, Stage, Known
<1>4. \A d, p : KillAhead(d, p) => KillAhead(d, p)'
  BY <1>1 DEF KillAhead, About
<1>5. StageInv'
  BY <1>1, <1>2 DEF ManagerInv, StageInv, Stage, Killing, About, None
<1>6. MapsInv'
  BY <1>1, <1>2 DEF ManagerInv, MapsInv, TypeInv
<1>7. LockInv'
  BY <1>1 DEF ManagerInv, LockInv, Killing
<1>8. ConnectionInv'
  <2>1. \A d \in Known' :
          d \in connections' \/ KillAhead(d, Killing)' \/ tasks'[d] # "running"
    BY <1>1, <1>2, <1>4 DEF ManagerInv, ConnectionInv
  <2> QED
    BY <1>1, <2>1 DEF ManagerInv, ConnectionInv
<1>9. FoundInv'
  BY <1>1 DEF ManagerInv, FoundInv
<1>10. NoChannelOutlivesItsConnection'
  BY <1>1, <1>4 DEF ManagerInv, NoChannelOutlivesItsConnection
<1>11. NoTunnelOutlivesItsConnectionUnlessLate'
  <2>1. \A t \in tunnels : \/ of'[t] \in connections'
                            \/ KillAhead(of[t], Killing)'
                            \/ t \in late'
    BY <1>1, <1>4 DEF ManagerInv, NoTunnelOutlivesItsConnectionUnlessLate, Killing
  <2>2. tasks[of[h]] = "running" =>
          of[h] \in connections \/ KillAhead(of[h], Killing)
    BY <1>1, <1>3 DEF ManagerInv, ConnectionInv, About
  <2> QED
    BY <1>1, <1>4, <2>1, <2>2 DEF NoTunnelOutlivesItsConnectionUnlessLate, Killing
<1>12. Messaging'
  <2>1. Onward /\ GetsWait
    BY <1>1 DEF Onward, GetsWait, About, ManagerInv, MapsInv
  <2>2. \A u \in Handlers :
          /\ u \in channels' \/ (kind'[u] = "open" /\ pc'[u] = "insert")
          /\ Alive(of[u])'
          => /\ u \in channels \/ (kind[u] = "open" /\ pc[u] = "insert")
             /\ Alive(of[u]) /\ of'[u] = of[u] /\ of[u] \in Handlers
    BY <1>1, <1>3 DEF Alive, ManagerInv, MapsInv, About
  <2>3. \A id \in Handlers : kind[id] \in About /\ (InHand(id) \/ id \in failed) =>
          InHand(id)' \/ id \in failed'
    BY <1>1 DEF InHand, ManagerInv, MapsInv, About
  <2> QED
    BY <1>1, <2>1, <2>2, <2>3, QuietKeeps
<1> QED
  BY <1>5, <1>6, <1>7, <1>8, <1>9, <1>10, <1>11, <1>12 DEF Handling, Mapping

(* StartAbout: a handler begins. *)
LEMMA StartAboutStep ==
  ASSUME ManagerInv, TypeInv', NEW h \in Handlers, NEW c \in Known, NEW k \in About,
         StartAbout(h, k, c)
  PROVE  Handling' /\ Mapping' /\ Messaging'
<1> USE DEF Sets
<1>1. /\ pc[h] = "idle" /\ kind[h] = None /\ c \in Known /\ k \in About
      /\ Sets(pc, pc', h, "lock") /\ Sets(kind, kind', h, k) /\ Sets(of, of', h, c)
      /\ UNCHANGED <<connections, channels, tunnels, readers, writer, tasks, inbox,
                     registered, found, failed, late>>
  BY DEF StartAbout, Goto, maps, lock, actors, history, Sets, ManagerInv, TypeInv,
     StageInv, Stage
<1>2. Known' = Known /\ Known \subseteq Handlers
  BY <1>1 DEF Known, About
<1>3. \A u \in Handlers : kind[u] \in About => of[u] \in Known /\ of[u] \in Handlers
  BY DEF ManagerInv, StageInv, Stage, Known
<1>4. \A d, p : KillAhead(d, p) => KillAhead(d, p)'
  BY <1>1 DEF KillAhead, About, None
<1>5. StageInv'
  BY <1>1, <1>2 DEF ManagerInv, StageInv, Stage, Killing, About, None
<1>6. MapsInv'
  BY <1>1, <1>2 DEF ManagerInv, MapsInv, TypeInv
<1>7. LockInv'
  BY <1>1 DEF ManagerInv, LockInv, Killing
<1>8. ConnectionInv'
  <2>1. \A d \in Known' :
          d \in connections' \/ KillAhead(d, Killing)' \/ tasks'[d] # "running"
    BY <1>1, <1>2, <1>4 DEF ManagerInv, ConnectionInv
  <2> QED
    BY <1>1, <2>1 DEF ManagerInv, ConnectionInv
<1>9. FoundInv'
  <2>1. \A ch \in channels : ch # h /\ ch \in Handlers
    BY <1>1 DEF ManagerInv, MapsInv, TypeInv
  <2> QED
    BY <1>1, <2>1 DEF ManagerInv, FoundInv
<1>10. NoChannelOutlivesItsConnection'
  <2>1. \A ch \in channels : ch # h /\ ch \in Handlers
    BY <1>1 DEF ManagerInv, MapsInv, TypeInv
  <2>2. \A ch \in channels : of'[ch] = of[ch]
    BY <1>1, <2>1
  <2> QED
    BY <1>1, <1>4, <2>2 DEF ManagerInv, NoChannelOutlivesItsConnection
<1>11. NoTunnelOutlivesItsConnectionUnlessLate'
  <2>1. \A t \in tunnels : t # h /\ t \in Handlers
    BY <1>1 DEF ManagerInv, MapsInv, TypeInv
  <2>2. \A t \in tunnels : of'[t] = of[t]
    BY <1>1, <2>1
  <2> QED
    BY <1>1, <1>4, <2>2 DEF ManagerInv, NoTunnelOutlivesItsConnectionUnlessLate
<1>12. Messaging'
  <2>1. Onward /\ GetsWait
    BY <1>1 DEF Onward, GetsWait, About, None, ManagerInv, MapsInv
  <2>2. \A u \in Handlers :
          /\ u \in channels' \/ (kind'[u] = "open" /\ pc'[u] = "insert")
          /\ Alive(of[u])'
          => /\ u \in channels \/ (kind[u] = "open" /\ pc[u] = "insert")
             /\ Alive(of[u]) /\ of'[u] = of[u] /\ of[u] \in Handlers
    BY <1>1, <1>3 DEF Alive, ManagerInv, MapsInv, About, TypeInv
  <2>3. \A id \in Handlers : kind[id] \in About /\ (InHand(id) \/ id \in failed) =>
          InHand(id)' \/ id \in failed'
    BY <1>1 DEF InHand, ManagerInv, MapsInv, About, TypeInv
  <2> QED
    BY <1>1, <2>1, <2>2, <2>3, QuietKeeps
<1> QED
  BY <1>5, <1>6, <1>7, <1>8, <1>9, <1>10, <1>11, <1>12 DEF Handling, Mapping

(* PluginSucceeds, for connect(): the tasks of a connection that nobody knows yet. *)
LEMMA PluginConnectsStep ==
  ASSUME ManagerInv, TypeInv', NEW h \in Handlers, kind[h] = "connect",
         PluginSucceeds(h)
  PROVE  Handling' /\ Mapping' /\ Messaging'
<1> USE DEF Sets
<1>1. /\ pc[h] = "plugin" /\ kind[h] = "connect"
      /\ Sets(pc, pc', h, "insert") /\ Sets(tasks, tasks', h, "running")
      /\ UNCHANGED <<kind, of, connections, channels, tunnels, readers, writer, inbox,
                     registered, found, failed, late>>
  BY DEF PluginSucceeds, Goto, maps, lock, actors, history, ManagerInv, TypeInv
<1>2. Known' = Known /\ Known \subseteq Handlers
  BY <1>1 DEF Known, About
<1>3. \A u \in Handlers : kind[u] \in About => of[u] \in Known /\ of[u] \in Handlers
  BY DEF ManagerInv, StageInv, Stage, Known
<1>4. \A d, p : KillAhead(d, p) => KillAhead(d, p)'
  BY <1>1 DEF KillAhead, About
<1>5. StageInv'
  BY <1>1, <1>2 DEF ManagerInv, StageInv, Stage, Killing, About, None
<1>6. MapsInv'
  BY <1>1, <1>2 DEF ManagerInv, MapsInv, TypeInv
<1>7. LockInv'
  <2>1. \A u \in Handlers : pc[u] \in Killing => of[u] \in Handlers
    BY <1>3 DEF ManagerInv, TypeInv, StageInv, Stage, Killing, About, None
  <2> QED
    BY <1>1, <2>1 DEF ManagerInv, LockInv, Killing
<1>8. ConnectionInv'
  <2>1. \A d \in Known' :
          d \in connections' \/ KillAhead(d, Killing)' \/ tasks'[d] # "running"
    BY <1>1, <1>2, <1>4 DEF ManagerInv, ConnectionInv, Known
  <2> QED
    BY <1>1, <2>1 DEF ManagerInv, ConnectionInv, Known
<1>9. FoundInv'
  BY <1>1 DEF ManagerInv, FoundInv
<1>10. NoChannelOutlivesItsConnection'
  BY <1>1, <1>4 DEF ManagerInv, NoChannelOutlivesItsConnection
<1>11. NoTunnelOutlivesItsConnectionUnlessLate'
  BY <1>1, <1>4 DEF ManagerInv, NoTunnelOutlivesItsConnectionUnlessLate
<1>12. Messaging'
  <2>1. Onward /\ GetsWait
    BY <1>1 DEF Onward, GetsWait, About, ManagerInv, MapsInv
  <2>2. \A u \in Handlers :
          /\ u \in channels' \/ (kind'[u] = "open" /\ pc'[u] = "insert")
          /\ Alive(of[u])'
          => /\ u \in channels \/ (kind[u] = "open" /\ pc[u] = "insert")
             /\ Alive(of[u]) /\ of'[u] = of[u] /\ of[u] \in Handlers
    BY <1>1, <1>3 DEF Known, Alive, ManagerInv, MapsInv, About
  <2>3. \A id \in Handlers : kind[id] \in About /\ (InHand(id) \/ id \in failed) =>
          InHand(id)' \/ id \in failed'
    BY <1>1 DEF InHand, ManagerInv, MapsInv, About
  <2> QED
    BY <1>1, <2>1, <2>2, <2>3, QuietKeeps
<1> QED
  BY <1>5, <1>6, <1>7, <1>8, <1>9, <1>10, <1>11, <1>12 DEF Handling, Mapping

(* InsertConnection: nothing has been registered with the new connection. *)
LEMMA InsertConnectionStep ==
  ASSUME ManagerInv, TypeInv', NEW h \in Handlers, InsertConnection(h)
  PROVE  Handling' /\ Mapping' /\ Messaging'
<1> USE DEF Sets
<1>1. /\ pc[h] = "insert" /\ kind[h] = "connect" /\ tasks[h] = "running"
      /\ writer = None /\ readers = {}
      /\ Sets(pc, pc', h, "done") /\ connections' = connections \union {h}
      /\ UNCHANGED <<kind, of, channels, tunnels, readers, writer, tasks, inbox,
                     registered, found, failed, late>>
  BY DEF InsertConnection, Goto, maps, lock, actors, history, ManagerInv, TypeInv,
     StageInv, Stage, LockInv, ConnectionInv, About, Killing, None
<1>2. Known' = Known \union {h} /\ Known \subseteq Handlers /\ h \notin Known
  BY <1>1 DEF Known
<1>3. \A u \in Handlers : kind[u] \in About => of[u] \in Known /\ of[u] \in Handlers
  BY DEF ManagerInv, StageInv, Stage, Known
<1>4. \A d, p : KillAhead(d, p) => KillAhead(d, p)'
  BY <1>1 DEF KillAhead, About
<1>5. StageInv'
  BY <1>1, <1>2 DEF ManagerInv, StageInv, Stage, Killing, About, None
<1>6. MapsInv'
  BY <1>1, <1>2 DEF ManagerInv, MapsInv, TypeInv
<1>7. LockInv'
  <2>1. \A u \in Handlers : pc'[u] \notin Killing
    BY <1>1, NoneIsNoHandler DEF ManagerInv, LockInv, Killing
  <2>2. \A u \in Handlers : ~(kind'[u] = "open" /\ pc'[u] = "insert")
    BY <1>1 DEF ManagerInv, LockInv
  <2> QED
    BY <1>1, <2>1, <2>2 DEF LockInv
<1>8. ConnectionInv'
  <2>1. \A d \in Known' :
          d \in connections' \/ KillAhead(d, Killing)' \/ tasks'[d] # "running"
    BY <1>1, <1>2, <1>4 DEF ManagerInv, ConnectionInv
  <2> QED
    BY <1>1, <2>1 DEF ManagerInv, ConnectionInv
<1>9. FoundInv'
  BY <1>1 DEF ManagerInv, FoundInv
<1>10. NoChannelOutlivesItsConnection'
  BY <1>1, <1>4 DEF ManagerInv, NoChannelOutlivesItsConnection
<1>11. NoTunnelOutlivesItsConnectionUnlessLate'
  BY <1>1, <1>4 DEF ManagerInv, NoTunnelOutlivesItsConnectionUnlessLate
<1>12. Messaging'
  <2>1. Onward /\ GetsWait
    BY <1>1 DEF Onward, GetsWait, About, ManagerInv, MapsInv
  <2>2. \A u \in Handlers :
          /\ u \in channels' \/ (kind'[u] = "open" /\ pc'[u] = "insert")
          /\ Alive(of[u])'
          => /\ u \in channels \/ (kind[u] = "open" /\ pc[u] = "insert")
             /\ Alive(of[u]) /\ of'[u] = of[u] /\ of[u] \in Handlers
    BY <1>1, <1>3 DEF Alive, ManagerInv, MapsInv, About
  <2>3. \A id \in Handlers : kind[id] \in About /\ (InHand(id) \/ id \in failed) =>
          InHand(id)' \/ id \in failed'
    BY <1>1 DEF InHand, ManagerInv, MapsInv, About
  <2>4. \A id \in Handlers : ~(id \in registered[h]) /\ ~Registering(h, id)
    <3> SUFFICES ASSUME NEW id \in Handlers, id \in registered[h] \/ Registering(h, id)
                 PROVE  FALSE
      OBVIOUS
    <3>1. of[id] = h /\ kind[id] \in About
      BY RegistrationsOf DEF Opened, About
    <3> QED
      BY <3>1, <1>3, <1>2
  <2> QED
    BY <1>1, <2>4, <2>1, <2>2, <2>3, QuietKeeps
<1> QED
  BY <1>5, <1>6, <1>7, <1>8, <1>9, <1>10, <1>11, <1>12 DEF Handling, Mapping

(* OpenChannel, where the connection is there: the lock is kept. *)
LEMMA OpensStep ==
  ASSUME ManagerInv, TypeInv', NEW h \in Handlers, of[h] \in connections, OpenChannel(h)
  PROVE  Handling' /\ Mapping' /\ Messaging'
<1> USE DEF Sets
<1>1. /\ pc[h] = "lock" /\ kind[h] = "open" /\ writer = None /\ of[h] \in connections
      /\ Sets(pc, pc', h, "insert") /\ readers' = readers \union {h}
      /\ inbox' = Sent(of[h], <<Msg("register", h)>>)
      /\ UNCHANGED <<kind, of, connections, channels, tunnels, writer, tasks,
                     registered, found, failed, late>>
  BY DEF OpenChannel, HoldReadLock, Goto, maps, lock, actors, history, ManagerInv,
     TypeInv
<1>2. Known' = Known /\ Known \subseteq Handlers
  BY <1>1 DEF Known, About
<1>3. \A u \in Handlers : kind[u] \in About => of[u] \in Known /\ of[u] \in Handlers
  BY DEF ManagerInv, StageInv, Stage, Known
<1>4. \A d, p : KillAhead(d, p) => KillAhead(d, p)'
  BY <1>1 DEF KillAhead, About
<1>5. StageInv'
  BY <1>1, <1>2 DEF ManagerInv, StageInv, Stage, Killing, About, None
<1>6. MapsInv'
  BY <1>1, <1>2 DEF ManagerInv, MapsInv, TypeInv
<1>7. LockInv'
  BY <1>1 DEF ManagerInv, LockInv, Killing
<1>8. ConnectionInv'
  <2>1. \A d \in Known' :
          d \in connections' \/ KillAhead(d, Killing)' \/ tasks'[d] # "running"
    BY <1>1, <1>2, <1>4 DEF ManagerInv, ConnectionInv
  <2> QED
    BY <1>1, <2>1 DEF ManagerInv, ConnectionInv
<1>9. FoundInv'
  BY <1>1 DEF ManagerInv, FoundInv
<1>10. NoChannelOutlivesItsConnection'
  BY <1>1, <1>4 DEF ManagerInv, NoChannelOutlivesItsConnection
<1>11. NoTunnelOutlivesItsConnectionUnlessLate'
  BY <1>1, <1>4 DEF ManagerInv, NoTunnelOutlivesItsConnectionUnlessLate
<1>12. Messaging'
  BY <1>1, RegisterKeeps
<1> QED
  BY <1>5, <1>6, <1>7, <1>8, <1>9, <1>10, <1>11, <1>12 DEF Handling, Mapping

(* OpenTunnel, where the connection is there. *)
LEMMA OpensTunnelStep ==
  ASSUME ManagerInv, TypeInv', NEW h \in Handlers, of[h] \in connections, OpenTunnel(h)
  PROVE  Handling' /\ Mapping' /\ Messaging'
<1> USE DEF Sets
<1>1. /\ pc[h] = "lock" /\ kind[h] \in {"forward", "reverse"} /\ of[h] \in connections
      /\ Sets(pc, pc', h, "setup")
      /\ inbox' = Sent(of[h], <<Msg("register", h)>>)
      /\ UNCHANGED <<kind, of, connections, channels, tunnels, readers, writer, tasks,
                     registered, found, failed, late>>
  BY DEF OpenTunnel, Goto, maps, lock, actors, history, ManagerInv, TypeInv
<1>2. Known' = Known /\ Known \subseteq Handlers
  BY <1>1 DEF Known, About
<1>3. \A u \in Handlers : kind[u] \in About => of[u] \in Known /\ of[u] \in Handlers
  BY DEF ManagerInv, StageInv, Stage, Known
<1>4. \A d, p : KillAhead(d, p) => KillAhead(d, p)'
  BY <1>1 DEF KillAhead, About
<1>5. StageInv'
  BY <1>1, <1>2 DEF ManagerInv, StageInv, Stage, Killing, About, None
<1>6. MapsInv'
  BY <1>1, <1>2 DEF ManagerInv, MapsInv, TypeInv
<1>7. LockInv'
  BY <1>1 DEF ManagerInv, LockInv, Killing
<1>8. ConnectionInv'
  <2>1. \A d \in Known' :
          d \in connections' \/ KillAhead(d, Killing)' \/ tasks'[d] # "running"
    BY <1>1, <1>2, <1>4 DEF ManagerInv, ConnectionInv
  <2> QED
    BY <1>1, <2>1 DEF ManagerInv, ConnectionInv
<1>9. FoundInv'
  BY <1>1 DEF ManagerInv, FoundInv
<1>10. NoChannelOutlivesItsConnection'
  BY <1>1, <1>4 DEF ManagerInv, NoChannelOutlivesItsConnection
<1>11. NoTunnelOutlivesItsConnectionUnlessLate'
  BY <1>1, <1>4 DEF ManagerInv, NoTunnelOutlivesItsConnectionUnlessLate
<1>12. Messaging'
  BY <1>1, RegisterKeeps
<1> QED
  BY <1>5, <1>6, <1>7, <1>8, <1>9, <1>10, <1>11, <1>12 DEF Handling, Mapping

(* ChannelRequest: the channel is registered or about to be, before it. *)
LEMMA ChannelRequestStep ==
  ASSUME ManagerInv, TypeInv', NEW h \in channels, ChannelRequest(h)
  PROVE  Handling' /\ Mapping' /\ Messaging'
<1> USE DEF Sets
<1>1. /\ h \in Handlers /\ kind[h] = "open" /\ pc[h] = "done" /\ h \in channels
      /\ inbox' = Sent(of[h], <<Msg("write", h)>>)
      /\ UNCHANGED pc
      /\ UNCHANGED <<kind, of, connections, channels, tunnels, readers, writer, tasks,
                     registered, found, failed, late>>
  BY DEF ChannelRequest, Goto, maps, lock, actors, history, ManagerInv, TypeInv, MapsInv
<1>2. Known' = Known /\ Known \subseteq Handlers
  BY <1>1 DEF Known, About
<1>3. \A u \in Handlers : kind[u] \in About => of[u] \in Known /\ of[u] \in Handlers
  BY DEF ManagerInv, StageInv, Stage, Known
<1>4. \A d, p : KillAhead(d, p) => KillAhead(d, p)'
  BY <1>1 DEF KillAhead, About
<1>5. StageInv'
  BY <1>1, <1>2 DEF ManagerInv, StageInv, Stage, Killing, About, None
<1>6. MapsInv'
  BY <1>1, <1>2 DEF ManagerInv, MapsInv, TypeInv
<1>7. LockInv'
  BY <1>1 DEF ManagerInv, LockInv, Killing
<1>8. ConnectionInv'
  <2>1. \A d \in Known' :
          d \in connections' \/ KillAhead(d, Killing)' \/ tasks'[d] # "running"
    BY <1>1, <1>2, <1>4 DEF ManagerInv, ConnectionInv
  <2> QED
    BY <1>1, <2>1 DEF ManagerInv, ConnectionInv
<1>9. FoundInv'
  BY <1>1 DEF ManagerInv, FoundInv
<1>10. NoChannelOutlivesItsConnection'
  BY <1>1, <1>4 DEF ManagerInv, NoChannelOutlivesItsConnection
<1>11. NoTunnelOutlivesItsConnectionUnlessLate'
  BY <1>1, <1>4 DEF ManagerInv, NoTunnelOutlivesItsConnectionUnlessLate
<1>12. Messaging'
  <2>1. Onward /\ GetsWait
    BY <1>1 DEF Onward, GetsWait
  <2>2. \A u \in Handlers :
          /\ u \in channels' \/ (kind'[u] = "open" /\ pc'[u] = "insert")
          /\ Alive(of[u])'
          => /\ u \in channels \/ (kind[u] = "open" /\ pc[u] = "insert")
             /\ Alive(of[u]) /\ of'[u] = of[u] /\ of[u] \in Handlers
    BY <1>1, <1>3 DEF Alive, ManagerInv, MapsInv, About
  <2>3. \A id \in Handlers : InHand(id) \/ id \in failed =>
          InHand(id)' \/ id \in failed'
    BY <1>1 DEF InHand
  <2>4. PICK c \in Handlers : c = of[h]
    BY <1>1, <1>3 DEF About
  <2>5. CASE ~Alive(c)
    <3>1. inbox' = inbox
      BY <1>1, <2>4, <2>5 DEF Sent
    <3> QED
      BY <1>1, <2>1, <2>2, <2>3, <3>1, QuietKeeps
  <2>6. CASE Alive(c)
    <3>1. PICK S : S = {h}
      OBVIOUS
    <3>2. inbox' \in [Handlers -> Seq(Messages)] /\ GrownBy(c, "write", S)
      BY <1>1, <2>4, <3>1, SendingOne DEF ManagerInv
    <3>3. MessageInv'
      <4>1. \A m \in Messages : m.type = "write" /\ m.id \in S => Legit(c, m)'
        BY <1>1, <2>4, <3>1 DEF Legit
      <4> QED
        BY <2>1, <3>2, <4>1, MessagesGrown
    <3>4. OrderInv'
      BY <3>2, OrderGrown
    <3>5. RegisteredInv'
      BY <1>1, <2>1, <2>2, <3>2, RegisteredGrown
    <3>6. OwnedInv'
      BY <1>1, <2>3, <3>2, OwnedGrown
    <3>7. RequestsFindTheirChannel'
      BY <1>1, <2>4, <2>6, <3>1, <3>2, RequestsGrown
    <3> QED
      BY <3>3, <3>4, <3>5, <3>6, <3>7 DEF Messaging
  <2> QED
    BY <2>5, <2>6
<1> QED
  BY <1>5, <1>6, <1>7, <1>8, <1>9, <1>10, <1>11, <1>12 DEF Handling, Mapping

(* CloseChannel: the registration is left to the message. *)
LEMMA CloseChannelStep ==
  ASSUME ManagerInv, TypeInv', NEW h \in channels, CloseChannel(h)
  PROVE  Handling' /\ Mapping' /\ Messaging'
<1> USE DEF Sets
<1>1. /\ h \in Handlers /\ kind[h] = "open" /\ pc[h] = "done"
      /\ channels' = channels \ {h} /\ inbox' = Sent(of[h], <<Msg("unregister", h)>>)
      /\ UNCHANGED pc
      /\ UNCHANGED <<kind, of, connections, tunnels, readers, writer, tasks, registered,
                     found, failed, late>>
  BY DEF CloseChannel, CloseRemovesEntry, Goto, maps, lock, actors, history, ManagerInv,
     TypeInv, MapsInv
<1>2. Known' = Known /\ Known \subseteq Handlers
  BY <1>1 DEF Known, About
<1>3. \A u \in Handlers : kind[u] \in About => of[u] \in Known /\ of[u] \in Handlers
  BY DEF ManagerInv, StageInv, Stage, Known
<1>4. \A d, p : KillAhead(d, p) => KillAhead(d, p)'
  BY <1>1 DEF KillAhead, About
<1>5. StageInv'
  BY <1>1, <1>2 DEF ManagerInv, StageInv, Stage, Killing, About, None
<1>6. MapsInv'
  BY <1>1, <1>2 DEF ManagerInv, MapsInv, TypeInv
<1>7. LockInv'
  BY <1>1 DEF ManagerInv, LockInv, Killing
<1>8. ConnectionInv'
  <2>1. \A d \in Known' :
          d \in connections' \/ KillAhead(d, Killing)' \/ tasks'[d] # "running"
    BY <1>1, <1>2, <1>4 DEF ManagerInv, ConnectionInv
  <2> QED
    BY <1>1, <2>1 DEF ManagerInv, ConnectionInv
<1>9. FoundInv'
  BY <1>1 DEF ManagerInv, FoundInv
<1>10. NoChannelOutlivesItsConnection'
  BY <1>1, <1>4 DEF ManagerInv, NoChannelOutlivesItsConnection
<1>11. NoTunnelOutlivesItsConnectionUnlessLate'
  BY <1>1, <1>4 DEF ManagerInv, NoTunnelOutlivesItsConnectionUnlessLate
<1>12. Messaging'
  <2>1. Onward /\ GetsWait
    BY <1>1 DEF Onward, GetsWait
  <2>2. PICK c \in Handlers : c = of[h]
    BY <1>1, <1>3 DEF About
  <2>3. PICK S \in SUBSET Handlers : S = {h}
    BY <1>1
  <2>4. /\ GrownBy(c, "unregister", S)
        /\ Alive(c) =>
             \E i \in 1 .. Len(inbox'[c]) : inbox'[c][i] = Msg("unregister", h)
    BY <1>1, <2>2, <2>3, SendingOne DEF ManagerInv
  <2>5. \A id \in S : of[id] = c /\ Opened(id) /\ pc[id] = "done"
                      /\ id \notin channels' \union tunnels'
    BY <1>1, <2>2, <2>3 DEF Opened, ManagerInv, MapsInv
  <2>6. c \in connections => Unregistering(of[h], h)'
    <3>1. c \in connections => Alive(c)
      BY DEF ManagerInv, MapsInv, Alive
    <3>2. Unregistering(of[h], h)' <=>
            \E i \in 1 .. Len(inbox'[c]) : inbox'[c][i] = Msg("unregister", h)
      BY <1>1, <2>2 DEF Unregistering, Msg
    <3> QED
      BY <2>4, <3>1, <3>2
  <2>7. \A id \in Handlers : (InHand(id) \/ id \in failed) /\ of[id] \in connections =>
          InHand(id)' \/ id \in failed' \/ Unregistering(of[id], id)'
    <3>1. \A id \in Handlers : id # h /\ (InHand(id) \/ id \in failed) =>
            InHand(id)' \/ id \in failed'
      BY <1>1 DEF InHand
    <3> QED
      BY <2>2, <2>6, <3>1
  <2>8. \A u \in Handlers : Alive(u)' => Alive(u)
    BY <1>1 DEF Alive
  <2> QED
    BY <1>1, <2>1, <2>4, <2>5, <2>7, <2>8, UnregisterKeeps
<1> QED
  BY <1>5, <1>6, <1>7, <1>8, <1>9, <1>10, <1>11, <1>12 DEF Handling, Mapping

(* CloseManagedTunnel: likewise. *)
LEMMA CloseManagedTunnelStep ==
  ASSUME ManagerInv, TypeInv', NEW h \in tunnels, CloseManagedTunnel(h)
  PROVE  Handling' /\ Mapping' /\ Messaging'
<1> USE DEF Sets
<1>1. /\ h \in Handlers /\ kind[h] \in {"forward", "reverse"} /\ pc[h] = "done"
      /\ tunnels' = tunnels \ {h} /\ inbox' = Sent(of[h], <<Msg("unregister", h)>>)
      /\ UNCHANGED pc
      /\ UNCHANGED <<kind, of, connections, channels, readers, writer, tasks,
                     registered, found, failed, late>>
  BY DEF CloseManagedTunnel, AbortMessages, Goto, maps, lock, actors, history,
     ManagerInv, TypeInv, MapsInv
<1>2. Known' = Known /\ Known \subseteq Handlers
  BY <1>1 DEF Known, About
<1>3. \A u \in Handlers : kind[u] \in About => of[u] \in Known /\ of[u] \in Handlers
  BY DEF ManagerInv, StageInv, Stage, Known
<1>4. \A d, p : KillAhead(d, p) => KillAhead(d, p)'
  BY <1>1 DEF KillAhead, About
<1>5. StageInv'
  BY <1>1, <1>2 DEF ManagerInv, StageInv, Stage, Killing, About, None
<1>6. MapsInv'
  BY <1>1, <1>2 DEF ManagerInv, MapsInv, TypeInv
<1>7. LockInv'
  BY <1>1 DEF ManagerInv, LockInv, Killing
<1>8. ConnectionInv'
  <2>1. \A d \in Known' :
          d \in connections' \/ KillAhead(d, Killing)' \/ tasks'[d] # "running"
    BY <1>1, <1>2, <1>4 DEF ManagerInv, ConnectionInv
  <2> QED
    BY <1>1, <2>1 DEF ManagerInv, ConnectionInv
<1>9. FoundInv'
  BY <1>1 DEF ManagerInv, FoundInv
<1>10. NoChannelOutlivesItsConnection'
  BY <1>1, <1>4 DEF ManagerInv, NoChannelOutlivesItsConnection
<1>11. NoTunnelOutlivesItsConnectionUnlessLate'
  BY <1>1, <1>4 DEF ManagerInv, NoTunnelOutlivesItsConnectionUnlessLate
<1>12. Messaging'
  <2>1. Onward /\ GetsWait
    BY <1>1 DEF Onward, GetsWait
  <2>2. PICK c \in Handlers : c = of[h]
    BY <1>1, <1>3 DEF About
  <2>3. PICK S \in SUBSET Handlers : S = {h}
    BY <1>1
  <2>4. /\ GrownBy(c, "unregister", S)
        /\ Alive(c) =>
             \E i \in 1 .. Len(inbox'[c]) : inbox'[c][i] = Msg("unregister", h)
    BY <1>1, <2>2, <2>3, SendingOne DEF ManagerInv
  <2>5. \A id \in S : of[id] = c /\ Opened(id) /\ pc[id] = "done"
                      /\ id \notin channels' \union tunnels'
    BY <1>1, <2>2, <2>3 DEF Opened, ManagerInv, MapsInv
  <2>6. c \in connections => Unregistering(of[h], h)'
    <3>1. c \in connections => Alive(c)
      BY DEF ManagerInv, MapsInv, Alive
    <3>2. Unregistering(of[h], h)' <=>
            \E i \in 1 .. Len(inbox'[c]) : inbox'[c][i] = Msg("unregister", h)
      BY <1>1, <2>2 DEF Unregistering, Msg
    <3> QED
      BY <2>4, <3>1, <3>2
  <2>7. \A id \in Handlers : (InHand(id) \/ id \in failed) /\ of[id] \in connections =>
          InHand(id)' \/ id \in failed' \/ Unregistering(of[id], id)'
    <3>1. \A id \in Handlers : id # h /\ (InHand(id) \/ id \in failed) =>
            InHand(id)' \/ id \in failed'
      BY <1>1 DEF InHand
    <3> QED
      BY <2>2, <2>6, <3>1
  <2>8. \A u \in Handlers : Alive(u)' => Alive(u)
    BY <1>1 DEF Alive
  <2> QED
    BY <1>1, <2>1, <2>4, <2>5, <2>7, <2>8, UnregisterKeeps
<1> QED
  BY <1>5, <1>6, <1>7, <1>8, <1>9, <1>10, <1>11, <1>12 DEF Handling, Mapping

(* Kill, where the connection is there: no registration can follow the question. *)
LEMMA KillsStep ==
  ASSUME ManagerInv, TypeInv', NEW h \in Handlers, of[h] \in connections, Kill(h)
  PROVE  Handling' /\ Mapping' /\ Messaging'
<1> USE DEF Sets
<1>1. /\ pc[h] = "lock" /\ kind[h] = "kill" /\ writer = None /\ readers = {}
      /\ of[h] \in connections /\ tasks[of[h]] = "running"
      /\ Sets(pc, pc', h, "ids") /\ connections' = connections \ {of[h]} /\ writer' = h
      /\ inbox' = Sent(of[h], <<Msg("get", h)>>)
      /\ UNCHANGED <<kind, of, channels, tunnels, readers, tasks, registered, found,
                     failed, late>>
  BY DEF Kill, Goto, maps, lock, actors, history, ManagerInv, TypeInv, MapsInv
<1>2. Known' = Known /\ Known \subseteq Handlers
  BY <1>1 DEF Known, About
<1>3. \A u \in Handlers : kind[u] \in About => of[u] \in Known /\ of[u] \in Handlers
  BY DEF ManagerInv, StageInv, Stage, Known
<1>4. /\ \A d : KillAhead(d, {"ids", "channels"}) => KillAhead(d, {"ids", "channels"})'
      /\ \A d : KillAhead(d, Killing) => KillAhead(d, Killing)'
      /\ KillAhead(of[h], {"ids", "channels"})' /\ KillAhead(of[h], Killing)'
  <2>1. /\ \A d : KillAhead(d, {"ids", "channels"}) =>
             KillAhead(d, {"ids", "channels"})'
        /\ \A d : KillAhead(d, Killing) => KillAhead(d, Killing)'
    BY <1>1 DEF KillAhead, Killing
  <2>2. of'[h] = of[h] /\ kind'[h] = "kill" /\ pc'[h] = "ids"
    BY <1>1
  <2>3. KillAhead(of[h], {"ids", "channels"})' /\ KillAhead(of[h], Killing)'
    BY <2>2 DEF KillAhead, Killing
  <2> QED
    BY <2>1, <2>3
<1>5. StageInv'
  BY <1>1, <1>2 DEF ManagerInv, StageInv, Stage, Killing, About, None
<1>6. MapsInv'
  BY <1>1, <1>2 DEF ManagerInv, MapsInv, TypeInv
<1>7. LockInv'
  <2>1. \A u \in Handlers : pc[u] \notin Killing
    BY <1>1, NoneIsNoHandler DEF ManagerInv, LockInv
  <2>2. \A u \in Handlers : ~(kind[u] = "open" /\ pc[u] = "insert")
    BY <1>1 DEF ManagerInv, LockInv
  <2> QED
    BY <1>1, <2>1, <2>2 DEF LockInv
<1>8. ConnectionInv'
  <2>1. \A d \in Known' :
          d \in connections' \/ KillAhead(d, Killing)' \/ tasks'[d] # "running"
    BY <1>1, <1>2, <1>4 DEF ManagerInv, ConnectionInv
  <2> QED
    BY <1>1, <2>1 DEF ManagerInv, ConnectionInv
<1>9. FoundInv'
  BY <1>1 DEF ManagerInv, FoundInv
<1>10. NoChannelOutlivesItsConnection'
  BY <1>1, <1>4 DEF ManagerInv, NoChannelOutlivesItsConnection
<1>11. NoTunnelOutlivesItsConnectionUnlessLate'
  BY <1>1, <1>4 DEF ManagerInv, NoTunnelOutlivesItsConnectionUnlessLate, Killing
<1>12. Messaging'
  <2>1. Onward /\ GetsWait
    BY <1>1 DEF Onward, GetsWait
  <2>2. PICK c \in Handlers : c = of[h]
    BY <1>1, <1>3 DEF About
  <2>3. PICK S : S = {h}
    OBVIOUS
  <2>4. /\ inbox' \in [Handlers -> Seq(Messages)] /\ GrownBy(c, "get", S)
        /\ Len(inbox'[c]) <= Len(inbox[c]) + 1
    BY <1>1, <2>2, <2>3, SendingOne DEF ManagerInv
  <2>5. MessageInv'
    <3>1. \A m \in Messages : m.type = "get" /\ m.id \in S => Legit(c, m)'
      BY <1>1, <2>2, <2>3 DEF Legit
    <3> QED
      BY <2>1, <2>4, <3>1, MessagesGrown
  <2>6. OrderInv'
    <3>1. \A i \in 1 .. Len(inbox[c]) : inbox[c][i].type # "get"
      BY <1>1, <2>2, NotAsked
    <3> QED
      BY <2>4, <3>1, OrderGrown
  <2>7. RegisteredInv'
    <3>1. \A u \in Handlers :
            /\ u \in channels' \/ (kind'[u] = "open" /\ pc'[u] = "insert")
            /\ Alive(of[u])'
            => /\ u \in channels \/ (kind[u] = "open" /\ pc[u] = "insert")
               /\ Alive(of[u]) /\ of'[u] = of[u] /\ of[u] \in Handlers
      BY <1>1, <1>3 DEF Alive, ManagerInv, MapsInv, About
    <3> QED
      BY <1>1, <2>1, <2>4, <3>1, RegisteredGrown
  <2>8. OwnedInv'
    <3>1. \A id \in Handlers : InHand(id) \/ id \in failed =>
            InHand(id)' \/ id \in failed'
      BY <1>1 DEF InHand
    <3>2. connections' \subseteq connections
      BY <1>1
    <3> QED
      BY <1>1, <2>4, <3>1, <3>2, OwnedGrown
  <2>9. RequestsFindTheirChannel'
    BY <1>1, <2>4, RequestsGrown
  <2> QED
    BY <2>5, <2>6, <2>7, <2>8, <2>9 DEF Messaging
<1> QED
  BY <1>5, <1>6, <1>7, <1>8, <1>9, <1>10, <1>11, <1>12 DEF Handling, Mapping

(* KillChannels: all channels of the connection go, and no other. *)
LEMMA KillChannelsStep ==
  ASSUME ManagerInv, TypeInv', NEW h \in Handlers, KillChannels(h)
  PROVE  Handling' /\ Mapping' /\ Messaging'
<1> USE DEF Sets
<1>1. /\ pc[h] = "channels" /\ kind[h] = "kill" /\ of[h] \notin connections
      /\ \A u \in Handlers : u # h => pc[u] \notin Killing
      /\ \A ch \in channels : of[ch] = of[h] <=> ch \in found[h]
      /\ Sets(pc, pc', h, "tunnels") /\ channels' = channels \ found[h]
      /\ inbox' = Sent(of[h], Unregistrations(channels \intersect found[h]))
      /\ UNCHANGED <<kind, of, connections, tunnels, readers, writer, tasks, registered,
                     failed, late>>
  <2>1. kind[h] = "kill"
    BY DEF KillChannels, ManagerInv, TypeInv, StageInv, Stage, About, None
  <2>2. pc[h] = "channels" /\ Sets(pc, pc', h, "tunnels")
    BY DEF KillChannels, Goto, ManagerInv, TypeInv
  <2>3. of[h] \notin connections /\ \A u \in Handlers : u # h => pc[u] \notin Killing
    BY <2>2 DEF ManagerInv, LockInv, Killing
  <2> QED
    BY <2>1, <2>2, <2>3 DEF KillChannels, Goto, maps, lock, actors, history, ManagerInv,
       FoundInv
<1>2. Known' = Known /\ Known \subseteq Handlers
  BY <1>1 DEF Known, About
<1>3. \A u \in Handlers : kind[u] \in About => of[u] \in Known /\ of[u] \in Handlers
  BY DEF ManagerInv, StageInv, Stage, Known
<1>4. /\ \A d : KillAhead(d, Killing) => KillAhead(d, Killing)'
      /\ \A d : d # of[h] /\ KillAhead(d, {"ids", "channels"}) =>
           KillAhead(d, {"ids", "channels"})'
  BY <1>1 DEF KillAhead, Killing
<1>5. StageInv'
  BY <1>1, <1>2 DEF ManagerInv, StageInv, Stage, Killing, About, None
<1>6. MapsInv'
  BY <1>1, <1>2 DEF ManagerInv, MapsInv, TypeInv
<1>7. LockInv'
  BY <1>1 DEF ManagerInv, LockInv, Killing
<1>8. ConnectionInv'
  <2>1. \A d \in Known' :
          d \in connections' \/ KillAhead(d, Killing)' \/ tasks'[d] # "running"
    BY <1>1, <1>2, <1>4 DEF ManagerInv, ConnectionInv
  <2> QED
    BY <1>1, <2>1 DEF ManagerInv, ConnectionInv
<1>9. FoundInv'
  BY <1>1 DEF FoundInv, Killing
<1>10. NoChannelOutlivesItsConnection'
  BY <1>1, <1>4 DEF ManagerInv, NoChannelOutlivesItsConnection
<1>11. NoTunnelOutlivesItsConnectionUnlessLate'
  BY <1>1, <1>4 DEF ManagerInv, NoTunnelOutlivesItsConnectionUnlessLate, Killing
<1>12. Messaging'
  <2>1. Onward /\ GetsWait
    BY <1>1 DEF Onward, GetsWait
  <2>2. PICK c \in Handlers : c = of[h]
    BY <1>1, <1>3 DEF About
  <2>3. PICK S \in SUBSET Handlers : S = channels \intersect found[h]
    BY DEF ManagerInv, TypeInv
  <2>4. GrownBy(c, "unregister", S)
    <3>1. IsFiniteSet(S)
      BY <2>3, FS_Subset DEF ManagerInv, TypeInv
    <3>2. PICK msgs : msgs = Unregistrations(S)
      OBVIOUS
    <3>3. msgs \in Seq({Msg("unregister", id) : id \in S})
      BY <3>1, <3>2, UnregistrationsType
    <3>4. inbox' = Sent(c, msgs)
      BY <1>1, <2>2, <2>3, <3>2
    <3> QED
      BY <3>3, <3>4, Sending DEF ManagerInv
  <2>5. \A id \in S : of[id] = c /\ Opened(id) /\ pc[id] = "done"
                      /\ id \notin channels' \union tunnels'
    BY <1>1, <2>2, <2>3 DEF Opened, ManagerInv, MapsInv
  <2>6. \A id \in Handlers : (InHand(id) \/ id \in failed) /\ of[id] \in connections =>
          InHand(id)' \/ id \in failed' \/ Unregistering(of[id], id)'
    <3>1. \A id \in Handlers : id \notin S /\ InHand(id) => InHand(id)'
      BY <1>1, <2>3 DEF InHand
    <3>2. \A id \in S : of[id] \notin connections
      BY <1>1, <2>2, <2>5
    <3> QED
      BY <1>1, <3>1, <3>2
  <2>7. \A u \in Handlers : Alive(u)' => Alive(u)
    BY <1>1 DEF Alive
  <2> QED
    BY <1>1, <2>1, <2>4, <2>5, <2>6, <2>7, UnregisterKeeps
<1> QED
  BY <1>5, <1>6, <1>7, <1>8, <1>9, <1>10, <1>11, <1>12 DEF Handling, Mapping

(* KillTunnels: all tunnels of the connection go, then its tasks. *)
LEMMA KillTunnelsStep ==
  ASSUME ManagerInv, TypeInv', NEW h \in Handlers, KillTunnels(h)
  PROVE  Handling' /\ Mapping' /\ Messaging'
<1> USE DEF Sets
<1>1. /\ pc[h] = "tunnels" /\ kind[h] = "kill" /\ of[h] \notin connections
      /\ \A u \in Handlers : u # h => pc[u] \notin Killing
      /\ of[h] \in Handlers /\ tasks[of[h]] = "running"
      /\ Sets(pc, pc', h, "done") /\ tunnels' = tunnels \ TunnelsOf(of[h])
      /\ inbox' = Sent(of[h], Unregistrations(TunnelsOf(of[h]))) /\ writer' = None
           /\ readers = {}
      /\ Sets(tasks, tasks', of[h], "aborted")
      /\ UNCHANGED <<kind, of, connections, channels, readers, registered, found,
                     failed, late>>
  <2>1. kind[h] = "kill"
    BY DEF KillTunnels, ManagerInv, TypeInv, StageInv, Stage, About, None
  <2>2. pc[h] = "tunnels" /\ Sets(pc, pc', h, "done")
    BY DEF KillTunnels, Goto, ManagerInv, TypeInv
  <2>3. /\ of[h] \notin connections /\ \A u \in Handlers : u # h => pc[u] \notin Killing
        /\ tasks[of[h]] = "running" /\ readers = {}
    BY <2>2, NoneIsNoHandler DEF ManagerInv, LockInv, Killing
  <2>4. of[h] \in Handlers
    BY <2>1 DEF ManagerInv, StageInv, Stage, About, Known
  <2>5. Sets(tasks, tasks', of[h], "aborted")
    BY <2>4 DEF KillTunnels, ManagerInv, TypeInv
  <2> QED
    BY <2>1, <2>2, <2>3, <2>4, <2>5 DEF KillTunnels, Goto, maps, lock, actors, history
<1>2. Known' = Known /\ Known \subseteq Handlers
  BY <1>1 DEF Known, About
<1>3. \A u \in Handlers : kind[u] \in About => of[u] \in Known /\ of[u] \in Handlers
  BY DEF ManagerInv, StageInv, Stage, Known
<1>4. /\ \A d : d # of[h] /\ KillAhead(d, Killing) => KillAhead(d, Killing)'
      /\ \A d : KillAhead(d, {"ids", "channels"}) => KillAhead(d, {"ids", "channels"})'
  BY <1>1 DEF KillAhead, Killing
<1>5. StageInv'
  BY <1>1, <1>2 DEF ManagerInv, StageInv, Stage, Killing, About, None
<1>6. MapsInv'
  <2>1. tunnels' \subseteq tunnels
    BY <1>1
  <2> QED
    BY <1>1, <1>2, <2>1 DEF ManagerInv, MapsInv, TypeInv
<1>7. LockInv'
  BY <1>1 DEF ManagerInv, LockInv, Killing, None
<1>8. ConnectionInv'
  <2>1. \A d \in Known' :
          d \in connections' \/ KillAhead(d, Killing)' \/ tasks'[d] # "running"
    BY <1>1, <1>2, <1>4 DEF ManagerInv, ConnectionInv
  <2> QED
    BY <1>1, <1>3, <2>1 DEF ManagerInv, ConnectionInv, Known, About
<1>9. FoundInv'
  BY <1>1 DEF ManagerInv, FoundInv
<1>10. NoChannelOutlivesItsConnection'
  BY <1>1, <1>4 DEF ManagerInv, NoChannelOutlivesItsConnection
<1>11. NoTunnelOutlivesItsConnectionUnlessLate'
  <2>1. \A t \in tunnels' : t \in tunnels /\ of'[t] = of[t] /\ of[t] # of[h]
    BY <1>1 DEF TunnelsOf
  <2> QED
    BY <1>1, <1>4, <2>1 DEF ManagerInv, NoTunnelOutlivesItsConnectionUnlessLate, Killing
<1>12. Messaging'
  <2>1. Onward /\ GetsWait
    BY <1>1 DEF Onward, GetsWait
  <2>2. PICK c \in Handlers : c = of[h]
    BY <1>1, <1>3 DEF About
  <2>3. PICK S \in SUBSET Handlers : S = TunnelsOf(of[h])
    BY DEF ManagerInv, TypeInv, TunnelsOf
  <2>4. GrownBy(c, "unregister", S)
    <3>1. IsFiniteSet(S)
      BY <2>3, FS_Subset DEF ManagerInv, TypeInv, TunnelsOf
    <3>2. PICK msgs : msgs = Unregistrations(S)
      OBVIOUS
    <3>3. msgs \in Seq({Msg("unregister", id) : id \in S})
      BY <3>1, <3>2, UnregistrationsType
    <3>4. inbox' = Sent(c, msgs)
      BY <1>1, <2>2, <2>3, <3>2
    <3> QED
      BY <3>3, <3>4, Sending DEF ManagerInv
  <2>5. \A id \in S : of[id] = c /\ Opened(id) /\ pc[id] = "done"
                      /\ id \notin channels' \union tunnels'
    BY <1>1, <2>2, <2>3 DEF Opened, ManagerInv, MapsInv, TunnelsOf
  <2>6. \A id \in Handlers : (InHand(id) \/ id \in failed) /\ of[id] \in connections =>
          InHand(id)' \/ id \in failed' \/ Unregistering(of[id], id)'
    <3>1. \A id \in Handlers : id \notin S /\ InHand(id) => InHand(id)'
      BY <1>1, <2>3 DEF InHand
    <3>2. \A id \in S : of[id] \notin connections
      BY <1>1, <2>2, <2>5
    <3> QED
      BY <1>1, <3>1, <3>2
  <2>7. \A u \in Handlers : Alive(u)' => Alive(u)
    BY <1>1 DEF Alive
  <2> QED
    BY <1>1, <2>1, <2>4, <2>5, <2>6, <2>7, UnregisterKeeps
<1> QED
  BY <1>5, <1>6, <1>7, <1>8, <1>9, <1>10, <1>11, <1>12 DEF Handling, Mapping

(* Stop: an aborted task belongs to a connection that is out of the map. *)
LEMMA StopStep ==
  ASSUME ManagerInv, TypeInv', NEW h \in Handlers, Stop(h)
  PROVE  Handling' /\ Mapping' /\ Messaging'
<1> USE DEF Sets
<1>1. /\ tasks[h] = "aborted" /\ h \notin connections
      /\ \A u \in Handlers : pc[u] \in Killing => of[u] # h
      /\ Sets(tasks, tasks', h, "gone")
      /\ Sets(inbox, inbox', h, <<>>) /\ Sets(registered, registered', h, {})
      /\ UNCHANGED pc
      /\ UNCHANGED <<kind, of, connections, channels, tunnels, readers, writer, found,
                     failed, late>>
  BY DEF Stop, Goto, maps, lock, actors, history, ManagerInv, TypeInv, MapsInv, LockInv
<1>2. Known' = Known /\ Known \subseteq Handlers
  BY <1>1 DEF Known, About
<1>3. \A u \in Handlers : kind[u] \in About => of[u] \in Known /\ of[u] \in Handlers
  BY DEF ManagerInv, StageInv, Stage, Known
<1>4. \A d, p : KillAhead(d, p) => KillAhead(d, p)'
  BY <1>1 DEF KillAhead, About
<1>5. StageInv'
  BY <1>1, <1>2 DEF ManagerInv, StageInv, Stage, Killing, About, None
<1>6. MapsInv'
  BY <1>1, <1>2 DEF ManagerInv, MapsInv, TypeInv
<1>7. LockInv'
  <2>1. \A u \in Handlers : pc[u] \in Killing => of[u] \in Handlers
    BY <1>3 DEF ManagerInv, TypeInv, StageInv, Stage, Killing, About, None
  <2> QED
    BY <1>1, <2>1 DEF ManagerInv, LockInv, Killing
<1>8. ConnectionInv'
  BY <1>1, <1>2, <1>4 DEF ManagerInv, ConnectionInv
<1>9. FoundInv'
  BY <1>1 DEF ManagerInv, FoundInv
<1>10. NoChannelOutlivesItsConnection'
  BY <1>1, <1>4 DEF ManagerInv, NoChannelOutlivesItsConnection
<1>11. NoTunnelOutlivesItsConnectionUnlessLate'
  BY <1>1, <1>4 DEF ManagerInv, NoTunnelOutlivesItsConnectionUnlessLate
<1>12. Messaging'
  <2>1. \A i : i \notin 1 .. Len(inbox'[h])
    BY <1>1
  <2>2. \A d \in Handlers : d # h =>
          inbox'[d] = inbox[d] /\ registered'[d] = registered[d]
    BY <1>1
  <2>3. MessageInv'
    <3> SUFFICES ASSUME NEW d \in Handlers, NEW i \in 1 .. Len(inbox'[d]), NEW m,
                        m = inbox'[d][i]
                 PROVE  Legit(d, m)'
      BY DEF MessageInv, Legit, Opened
    <3>1. d # h /\ Legit(d, m)
      BY <2>1, <2>2 DEF ManagerInv, MessageInv
    <3> QED
      BY <1>1, <3>1 DEF Legit, Opened
  <2>4. OrderInv'
    BY <2>1, <2>2 DEF ManagerInv, OrderInv, InOrder
  <2>5. RegisteredInv'
    <3>1. \A d \in Handlers : \A id \in registered'[d] : of'[id] = d /\ Opened(id)'
      BY <1>1 DEF ManagerInv, RegisteredInv, Opened
    <3>2. ASSUME NEW u \in Handlers,
                 u \in channels' \/ (kind'[u] = "open" /\ pc'[u] = "insert"),
                   Alive(of[u])'
          PROVE  u \in registered'[of'[u]] \/ Registering(of[u], u)'
      <4>1. of'[u] = of[u] /\ of[u] \in Handlers
        BY <1>1, <1>3, <3>2 DEF ManagerInv, MapsInv, About
      <4>2. of[u] # h /\ Alive(of[u])
        BY <1>1, <3>2, <4>1 DEF Alive
      <4>3. u \in registered[of[u]] \/ Registering(of[u], u)
        BY <1>1, <3>2, <4>2 DEF ManagerInv, RegisteredInv
      <4> QED
        BY <2>2, <4>1, <4>2, <4>3 DEF Registering, Msg
    <3> QED
      BY <3>1, <3>2 DEF RegisteredInv
  <2>6. OwnedInv'
    <3>1. \A d \in connections' : d # h /\ d \in connections /\ d \in Handlers
      BY <1>1 DEF ManagerInv, TypeInv
    <3> SUFFICES ASSUME NEW d \in connections', NEW id \in Handlers,
                        id \in registered'[d] \/ Registering(d, id)'
                 PROVE  Owned(d, id)' \/ id \in failed'
      BY DEF OwnedInv
    <3>2. inbox'[d] = inbox[d] /\ registered'[d] = registered[d]
      BY <2>2, <3>1
    <3>3. Owned(d, id) \/ id \in failed
      BY <3>1, <3>2 DEF ManagerInv, OwnedInv, Registering, Msg
    <3> QED
      BY <1>1, <3>2, <3>3 DEF Owned, Msg
  <2>7. RequestsFindTheirChannel'
    <3> SUFFICES ASSUME NEW d \in Handlers, NEW i \in DOMAIN inbox'[d],
                        inbox'[d][i].type = "write",
                        NEW ch, ch = inbox'[d][i].id
                 PROVE  /\ ch \in registered'[d] \/ Before(d, i, "register", ch)'
                        /\ ~Before(d, i, "unregister", ch)'
      BY DEF RequestsFindTheirChannel, Before, Msg
    <3>1. d # h
      BY <1>1
    <3> QED
      BY <2>2, <3>1 DEF ManagerInv, RequestsFindTheirChannel, Before, Msg
  <2> QED
    BY <2>3, <2>4, <2>5, <2>6, <2>7 DEF Messaging
<1> QED
  BY <1>5, <1>6, <1>7, <1>8, <1>9, <1>10, <1>11, <1>12 DEF Handling, Mapping

(* Act: the task works on the first message. *)
LEMMA ActStep ==
  ASSUME ManagerInv, TypeInv', NEW h \in Handlers, NEW m, m = Head(inbox[h]), Act(h)
  PROVE  Handling' /\ Mapping' /\ Messaging'
<1> USE DEF Sets
<1>1. /\ Alive(h) /\ m \in Messages /\ Legit(h, m) /\ m = inbox[h][1]
      /\ 1 \in 1 .. Len(inbox[h]) /\ Len(inbox[h]) \in Nat
      /\ Len(inbox'[h]) = Len(inbox[h]) - 1
      /\ \A i \in 1 .. Len(inbox'[h]) : i + 1 \in 1 .. Len(inbox[h])
           /\ inbox'[h][i] = inbox[h][i + 1]
      /\ \A d \in Handlers : d # h =>
           inbox'[d] = inbox[d] /\ registered'[d] = registered[d]
      /\ m.type = "register" => registered'[h] = registered[h] \union {m.id}
      /\ m.type = "unregister" => registered'[h] = registered[h] \ {m.id}
      /\ m.type \notin {"register", "unregister"} => registered'[h] = registered[h]
      /\ m.id \in Handlers /\ of[m.id] = h
      /\ \A u \in Handlers : ~(u = m.id /\ m.type = "get") =>
           pc'[u] = pc[u] /\ found'[u] = found[u]
      /\ m.type = "get" => /\ pc[m.id] = "ids" /\ kind[m.id] = "kill"
                           /\ pc'[m.id] = "channels" /\ found'[m.id] = registered[h]
      /\ UNCHANGED <<kind, of, connections, channels, tunnels, readers, writer, tasks,
                     failed, late>>
  <2>1. Alive(h) /\ inbox[h] # <<>> /\ inbox[h] \in Seq(Messages)
    BY DEF Act, ManagerInv, TypeInv
  <2>2. Len(inbox[h]) \in Nat /\ 1 \in 1 .. Len(inbox[h]) /\ m = inbox[h][1]
    BY <2>1, LenProperties, EmptySeq
  <2>3. m \in Messages /\ Legit(h, m)
    BY <2>1, <2>2, ElementOfSeq DEF ManagerInv, MessageInv
  <2>4. m.id \in Handlers /\ of[m.id] = h
          /\ (m.type = "get" => kind[m.id] = "kill" /\ pc[m.id] = "ids")
    BY <2>3 DEF Messages, Legit
  <2>5. inbox'[h] = Tail(inbox[h]) /\ \A d \in Handlers : d # h => inbox'[d] = inbox[d]
    BY DEF Act, ManagerInv, TypeInv
  <2>6. /\ Len(Tail(inbox[h])) = Len(inbox[h]) - 1
        /\ \A i \in 1 .. Len(Tail(inbox[h])) : Tail(inbox[h])[i] = inbox[h][i + 1]
    BY <2>1, HeadTailProperties
  <2>7. /\ Len(inbox'[h]) = Len(inbox[h]) - 1
        /\ \A i \in 1 .. Len(inbox'[h]) : inbox'[h][i] = inbox[h][i + 1]
    BY <2>5, <2>6
  <2>8. \A i \in 1 .. Len(inbox'[h]) : i + 1 \in 1 .. Len(inbox[h])
    BY <2>2, <2>7
  <2>9. registered' = [registered EXCEPT ![h] =
          CASE m.type = "register"   -> registered[h] \union {m.id}
            [] m.type = "unregister" -> registered[h] \ {m.id}
            [] OTHER                 -> registered[h]]
    BY DEF Act
  <2>10. /\ \A d \in Handlers : d # h => registered'[d] = registered[d]
         /\ registered'[h] = (CASE m.type = "register"   -> registered[h] \union {m.id}
                                [] m.type = "unregister" -> registered[h] \ {m.id}
                                [] OTHER                 -> registered[h])
    BY <2>9 DEF ManagerInv, TypeInv
  <2>11. m.type # "get" => pc' = pc /\ found' = found
    BY DEF Act
  <2>12. m.type = "get" => /\ pc' = [pc EXCEPT ![m.id] = "channels"]
                           /\ found' = [found EXCEPT ![m.id] = registered[h]]
    BY DEF Act, Goto
  <2>13. /\ \A u \in Handlers : ~(u = m.id /\ m.type = "get") =>
              pc'[u] = pc[u] /\ found'[u] = found[u]
         /\ m.type = "get" => pc'[m.id] = "channels" /\ found'[m.id] = registered[h]
    <3>1. CASE m.type = "get"
      BY <2>4, <2>12, <3>1 DEF ManagerInv, TypeInv
    <3>2. CASE m.type # "get"
      BY <2>11, <3>2
    <3> QED
      BY <3>1, <3>2
  <2>14. UNCHANGED <<kind, of, connections, channels, tunnels, readers, writer, tasks,
                     failed, late>>
    BY DEF Act, maps, lock, history
  <2> QED
    BY <2>1, <2>2, <2>3, <2>4, <2>5, <2>7, <2>8, <2>10, <2>13, <2>14
<1>2. Known' = Known /\ Known \subseteq Handlers
  BY <1>1 DEF Known, About
<1>3. \A u \in Handlers : kind[u] \in About => of[u] \in Known /\ of[u] \in Handlers
  BY DEF ManagerInv, StageInv, Stage, Known
<1>4. /\ \A d : KillAhead(d, Killing) => KillAhead(d, Killing)'
      /\ \A d : KillAhead(d, {"ids", "channels"}) => KillAhead(d, {"ids", "channels"})'
  <2>1. \A d : KillAhead(d, Killing) => KillAhead(d, Killing)'
    BY <1>1 DEF KillAhead, Killing
  <2> QED
    BY <1>1, <2>1 DEF KillAhead
<1>5. StageInv'
  BY <1>1, <1>2 DEF ManagerInv, StageInv, Stage, Killing, About, None
<1>6. MapsInv'
  BY <1>1, <1>2 DEF ManagerInv, MapsInv, TypeInv
<1>7. LockInv'
  BY <1>1 DEF ManagerInv, LockInv, Killing
<1>8. ConnectionInv'
  <2>1. \A d \in Known' :
          d \in connections' \/ KillAhead(d, Killing)' \/ tasks'[d] # "running"
    BY <1>1, <1>2, <1>4 DEF ManagerInv, ConnectionInv
  <2> QED
    BY <1>1, <2>1 DEF ManagerInv, ConnectionInv
<1>9. FoundInv'
  <2> SUFFICES ASSUME NEW u \in Handlers, pc'[u] = "channels", NEW ch \in channels
               PROVE  of[ch] = of[u] <=> ch \in found'[u]
    BY <1>1 DEF FoundInv
  <2>1. CASE ~(u = m.id /\ m.type = "get")
    BY <1>1, <2>1 DEF ManagerInv, FoundInv
  <2>2. CASE u = m.id /\ m.type = "get"
    <3>1. of[ch] = h => ch \in registered[h] \/ Registering(h, ch)
      BY <1>1 DEF ManagerInv, RegisteredInv, TypeInv
    <3>2. ~Registering(h, ch)
      <4> SUFFICES ASSUME NEW j \in 1 .. Len(inbox[h]),
                          inbox[h][j] = Msg("register", ch)
                   PROVE  FALSE
        BY DEF Registering
      <4>1. inbox[h][j].type = "register"
        BY DEF Msg
      <4>2. 1 < j
        BY <1>1, <2>2, <4>1
      <4>3. InOrder(inbox[h][j], inbox[h][1])
        BY <1>1, <4>2 DEF ManagerInv, OrderInv
      <4> QED
        BY <1>1, <2>2, <4>1, <4>3 DEF InOrder
    <3>3. ch \in registered[h] => of[ch] = h
      BY DEF ManagerInv, RegisteredInv
    <3> QED
      BY <1>1, <2>2, <3>1, <3>2, <3>3
  <2> QED
    BY <2>1, <2>2
<1>10. NoChannelOutlivesItsConnection'
  BY <1>1, <1>4 DEF ManagerInv, NoChannelOutlivesItsConnection
<1>11. NoTunnelOutlivesItsConnectionUnlessLate'
  BY <1>1, <1>4 DEF ManagerInv, NoTunnelOutlivesItsConnectionUnlessLate, Killing
<1>12. Messaging'
  <2>1. \A j \in 1 .. Len(inbox[h]) :
          j = 1 \/ (j - 1 \in 1 .. Len(inbox'[h]) /\ inbox'[h][j - 1] = inbox[h][j])
    <3> SUFFICES ASSUME NEW j \in 1 .. Len(inbox[h]), j # 1
                 PROVE  j - 1 \in 1 .. Len(inbox'[h]) /\ inbox'[h][j - 1] = inbox[h][j]
      OBVIOUS
    <3>1. j - 1 \in 1 .. Len(inbox'[h]) /\ (j - 1) + 1 = j
      BY <1>1
    <3>2. inbox'[h][j - 1] = inbox[h][(j - 1) + 1]
      BY <1>1, <3>1
    <3> QED
      BY <3>1, <3>2
  <2>2. \A u \in Handlers : Opened(u) => Opened(u)' /\ pc'[u] = pc[u]
    BY <1>1 DEF Opened
  <2>3. MessageInv'
    <3> SUFFICES ASSUME NEW d \in Handlers, NEW i \in 1 .. Len(inbox'[d]), NEW n,
                        n = inbox'[d][i]
                 PROVE  Legit(d, n)'
      BY DEF MessageInv, Legit, Opened
    <3>1. n \in Messages /\ n.id \in Handlers
      <4>1. inbox'[d] \in Seq(Messages)
        BY DEF TypeInv
      <4>2. n \in Messages
        BY <4>1, ElementOfSeq
      <4> QED
        BY <4>2 DEF Messages
    <3>2. Legit(d, n)
      <4>1. CASE d # h
        BY <1>1, <4>1 DEF ManagerInv, MessageInv
      <4>2. CASE d = h
        BY <1>1, <4>2 DEF ManagerInv, MessageInv
      <4> QED
        BY <4>1, <4>2
    <3>3. n.type = "get" => ~(n.id = m.id /\ m.type = "get")
      <4> SUFFICES ASSUME n.type = "get", n.id = m.id, m.type = "get"
                   PROVE  FALSE
        OBVIOUS
      <4>1. d = h
        BY <1>1, <3>2 DEF Legit
      <4>2. i + 1 \in 1 .. Len(inbox[h]) /\ 1 < i + 1 /\ n = inbox[h][i + 1]
        BY <1>1, <4>1
      <4> QED
        BY <1>1, <4>2 DEF ManagerInv, OrderInv
    <3> QED
      BY <1>1, <2>2, <3>1, <3>2, <3>3 DEF Legit, Opened
  <2>4. OrderInv'
    <3> SUFFICES ASSUME NEW d \in Handlers, NEW i \in 1 .. Len(inbox'[d]),
                        NEW j \in 1 .. Len(inbox'[d]), j < i
                 PROVE  /\ InOrder(inbox'[d][i], inbox'[d][j])
                        /\ ~(inbox'[d][i].type = "get" /\ inbox'[d][j].type = "get")
      BY DEF OrderInv, InOrder
    <3>1. CASE d # h
      BY <1>1, <3>1 DEF ManagerInv, OrderInv
    <3>2. CASE d = h
      <4>1. i + 1 \in 1 .. Len(inbox[h]) /\ j + 1 \in 1 .. Len(inbox[h])
              /\ j + 1 < i + 1
        BY <1>1, <3>2
      <4>2. /\ InOrder(inbox[h][i + 1], inbox[h][j + 1])
            /\ ~(inbox[h][i + 1].type = "get" /\ inbox[h][j + 1].type = "get")
        BY <4>1 DEF ManagerInv, OrderInv
      <4> QED
        BY <1>1, <3>2, <4>2
    <3> QED
      BY <3>1, <3>2
  <2>5. \A id \in Handlers : Registering(h, id) =>
          id \in registered'[h] \/ Registering(h, id)'
    <3> SUFFICES ASSUME NEW id \in Handlers, NEW j \in 1 .. Len(inbox[h]),
                        inbox[h][j] = Msg("register", id)
                 PROVE  id \in registered'[h] \/ Registering(h, id)'
      BY DEF Registering
    <3>1. CASE j = 1
      <4>1. m.type = "register" /\ m.id = id
        BY <1>1, <3>1 DEF Msg
      <4> QED
        BY <1>1, <4>1
    <3>2. CASE j # 1
      BY <2>1, <3>2 DEF Registering, Msg
    <3> QED
      BY <3>1, <3>2
  <2>6. RegisteredInv'
    <3>1. \A d \in Handlers : \A id \in registered'[d] : of'[id] = d /\ Opened(id)'
      <4> SUFFICES ASSUME NEW d \in Handlers, NEW id \in registered'[d]
                   PROVE  of[id] = d /\ Opened(id) /\ id \in Handlers
        BY <1>1, <2>2
      <4>1. id \in Handlers
        BY DEF TypeInv
      <4>2. CASE id \in registered[d]
        BY <4>1, <4>2 DEF ManagerInv, RegisteredInv
      <4>3. CASE id \notin registered[d]
        <5>1. d = h /\ m.type = "register" /\ id = m.id
          BY <1>1, <4>3
        <5> QED
          BY <1>1, <4>1, <5>1 DEF Legit
      <4> QED
        BY <4>2, <4>3
    <3>2. ASSUME NEW u \in Handlers,
                 u \in channels' \/ (kind'[u] = "open" /\ pc'[u] = "insert"),
                   Alive(of[u])'
          PROVE  u \in registered'[of'[u]] \/ Registering(of[u], u)'
      <4>1. /\ of'[u] = of[u] /\ of[u] \in Handlers /\ Alive(of[u])
            /\ u \in channels \/ (kind[u] = "open" /\ pc[u] = "insert")
        <5>1. kind[u] = "open" /\ of[u] \in Handlers
          BY <1>1, <1>3, <3>2 DEF ManagerInv, MapsInv, About
        <5> QED
          BY <1>1, <3>2, <5>1 DEF Alive
      <4>2. u \in registered[of[u]] \/ Registering(of[u], u)
        BY <4>1 DEF ManagerInv, RegisteredInv
      <4>3. CASE of[u] # h
        BY <1>1, <4>1, <4>2, <4>3 DEF Registering, Msg
      <4>4. CASE of[u] = h
        <5>1. u \in registered[h] => u \in registered'[h]
          <6>1. ~(m.type = "unregister" /\ m.id = u)
            BY <1>1, <4>1 DEF Legit
          <6> QED
            BY <1>1, <6>1
        <5>2. Registering(of[u], u)' <=> Registering(h, u)'
          BY <4>1, <4>4 DEF Registering
        <5> QED
          BY <2>5, <4>1, <4>2, <4>4, <5>1, <5>2
      <4> QED
        BY <4>3, <4>4
    <3> QED
      BY <3>1, <3>2 DEF RegisteredInv
  <2>7. OwnedInv'
    <3> SUFFICES ASSUME NEW d \in connections', NEW id \in Handlers,
                        id \in registered'[d] \/ Registering(d, id)'
                 PROVE  Owned(d, id)' \/ id \in failed'
      BY DEF OwnedInv
    <3>1. d \in connections /\ d \in Handlers
      BY <1>1 DEF ManagerInv, TypeInv
    <3>2. CASE d # h
      <4>1. inbox'[d] = inbox[d] /\ registered'[d] = registered[d]
        BY <1>1, <3>1, <3>2
      <4>2. Owned(d, id) \/ id \in failed
        BY <3>1, <4>1 DEF ManagerInv, OwnedInv, Registering, Msg
      <4>3. Owned(d, id) => Owned(d, id)'
        BY <1>1, <4>1 DEF Owned, Msg
      <4> QED
        BY <1>1, <4>2, <4>3
    <3>3. CASE d = h
      <4>1. Registering(h, id)' => Registering(h, id)
        <5> SUFFICES ASSUME NEW i \in 1 .. Len(inbox'[h]),
                            inbox'[h][i] = Msg("register", id)
                     PROVE  Registering(h, id)
          BY DEF Registering, Msg
        <5> QED
          BY <1>1 DEF Registering
      <4>2. m.type = "register" => Registering(h, m.id)
        BY <1>1 DEF Registering, Msg, Messages
      <4>3. id \in registered[h] \/ Registering(h, id)
        BY <1>1, <3>3, <4>1, <4>2
      <4>4. InHand(id) \/ id \in failed \/ Unregistering(h, id)
        BY <3>1, <3>3, <4>3, OwnedIs DEF ManagerInv, OwnedInv
      <4>5. InHand(id) => InHand(id)'
        BY <1>1 DEF InHand
      <4>6. Unregistering(h, id) => Unregistering(h, id)'
        <5> SUFFICES ASSUME NEW j \in 1 .. Len(inbox[h]),
                            inbox[h][j] = Msg("unregister", id)
                     PROVE  Unregistering(h, id)'
          BY DEF Unregistering
        <5>1. j # 1
          <6> SUFFICES ASSUME j = 1 PROVE FALSE
            OBVIOUS
          <6>1. m.type = "unregister" /\ m.id = id
            BY <1>1 DEF Msg
          <6>2. id \notin registered'[h]
            BY <1>1, <6>1
          <6>3. PICK i \in 1 .. Len(inbox'[h]) : inbox'[h][i] = Msg("register", id)
            BY <3>3, <6>2 DEF Registering, Msg
          <6>4. i + 1 \in 1 .. Len(inbox[h]) /\ 1 < i + 1
                  /\ inbox[h][i + 1] = Msg("register", id)
            BY <1>1, <6>3
          <6>5. InOrder(inbox[h][i + 1], inbox[h][1])
            BY <1>1, <6>4 DEF ManagerInv, OrderInv
          <6>6. inbox[h][i + 1].type = "register" /\ inbox[h][i + 1].id = id
            BY <6>4 DEF Msg
          <6> QED
            BY <1>1, <6>1, <6>5, <6>6 DEF InOrder
        <5> QED
          BY <2>1, <5>1 DEF Unregistering, Msg
      <4>7. Unregistering(h, id)' => Owned(h, id)'
        <5>1. DOMAIN inbox'[h] = 1 .. Len(inbox'[h])
          BY LenProperties DEF TypeInv
        <5> QED
          BY <5>1 DEF Unregistering, Owned, Msg
      <4>8. InHand(id)' => Owned(h, id)'
        BY DEF InHand, Owned
      <4>9. id \in failed => id \in failed'
        BY <1>1
      <4> QED
        BY <3>3, <4>4, <4>5, <4>6, <4>7, <4>8, <4>9
    <3> QED
      BY <3>2, <3>3
  <2>8. RequestsFindTheirChannel'
    <3> SUFFICES ASSUME NEW d \in Handlers, NEW i \in 1 .. Len(inbox'[d]),
                        inbox'[d][i].type = "write", NEW ch, ch = inbox'[d][i].id
                 PROVE  /\ ch \in registered'[d]
                             \/ \E j \in 1 .. i - 1 : inbox'[d][j] = Msg("register", ch)
                        /\ ~ \E j \in 1 .. i - 1 : inbox'[d][j] = Msg("unregister", ch)
      <4>1. \A d \in Handlers : DOMAIN inbox'[d] = 1 .. Len(inbox'[d])
        BY LenProperties DEF TypeInv
      <4> QED
        BY <4>1 DEF RequestsFindTheirChannel, Before, Msg
    <3>1. \A e \in Handlers : DOMAIN inbox[e] = 1 .. Len(inbox[e])
      BY LenProperties DEF ManagerInv, TypeInv
    <3>2. CASE d # h
      <4>1. inbox'[d] = inbox[d] /\ registered'[d] = registered[d]
        BY <1>1, <3>2
      <4>2. /\ ch \in registered[d] \/ Before(d, i, "register", ch)
            /\ ~Before(d, i, "unregister", ch)
        BY <3>1, <4>1 DEF ManagerInv, RequestsFindTheirChannel
      <4> QED
        BY <4>1, <4>2 DEF Before
    <3>3. CASE d = h
      <4>1. /\ i + 1 \in 1 .. Len(inbox[h]) /\ inbox[h][i + 1].type = "write"
            /\ ch = inbox[h][i + 1].id /\ (i + 1) - 1 = i /\ i \in Nat
        BY <1>1, <3>3
      <4>2. /\ ch \in registered[h] \/ \E j \in 1 .. i :
                 inbox[h][j] = Msg("register", ch)
            /\ ~ \E j \in 1 .. i : inbox[h][j] = Msg("unregister", ch)
        BY <3>1, <4>1 DEF ManagerInv, RequestsFindTheirChannel, Before
      <4>3. ~(m.type = "unregister" /\ m.id = ch)
        <5> SUFFICES ASSUME m.type = "unregister", m.id = ch PROVE FALSE
          OBVIOUS
        <5>1. inbox[h][1] = Msg("unregister", ch) /\ 1 \in 1 .. i
          BY <1>1, <4>1 DEF Msg, Messages
        <5> QED
          BY <4>2, <5>1
      <4>4. ch \in registered[h] => ch \in registered'[h]
        BY <1>1, <4>3
      <4>5. ASSUME NEW j \in 1 .. i, inbox[h][j] = Msg("register", ch)
            PROVE  ch \in registered'[h] \/ \E k \in 1 .. i - 1 :
                     inbox'[h][k] = Msg("register", ch)
        <5>1. CASE j = 1
          <6>1. m.type = "register" /\ m.id = ch
            BY <1>1, <4>5, <5>1 DEF Msg
          <6> QED
            BY <1>1, <6>1
        <5>2. CASE j # 1
          <6>1. j \in 1 .. Len(inbox[h]) /\ j - 1 \in 1 .. i - 1
            <7>1. Len(inbox[h]) \in Nat /\ i + 1 <= Len(inbox[h]) /\ j \in Nat /\ j <= i
                    /\ j > 1
              BY <1>1, <4>1, <5>2
            <7>2. j \in 1 .. Len(inbox[h])
              BY <4>1, <7>1
            <7>3. j - 1 \in 1 .. i - 1
              BY <4>1, <7>1
            <7> QED
              BY <7>2, <7>3
          <6>2. inbox'[h][j - 1] = Msg("register", ch)
            BY <2>1, <4>5, <5>2, <6>1
          <6> QED
            BY <6>1, <6>2
        <5> QED
          BY <5>1, <5>2
      <4>6. ASSUME NEW k \in 1 .. i - 1, inbox'[h][k] = Msg("unregister", ch)
            PROVE  FALSE
        <5>1. k \in 1 .. Len(inbox'[h]) /\ k + 1 \in 1 .. i
          BY <1>1, <4>1
        <5>2. inbox[h][k + 1] = Msg("unregister", ch)
          BY <1>1, <4>6, <5>1
        <5> QED
          BY <4>2, <5>1, <5>2
      <4> QED
        BY <3>3, <4>2, <4>4, <4>5, <4>6
    <3> QED
      BY <3>2, <3>3
  <2> QED
    BY <2>3, <2>4, <2>6, <2>7, <2>8 DEF Messaging
<1> QED
  BY <1>5, <1>6, <1>7, <1>8, <1>9, <1>10, <1>11, <1>12 DEF Handling, Mapping

(* The id that is drawn is free. *)
LEMMA FreeIdIsFree ==
  ASSUME FreeIds # {}
  PROVE  (CHOOSE id \in FreeIds : TRUE) \in FreeIds
OBVIOUS

(* Who asks or waits for an answer has a callback in the registry. *)
LEMMA AskingHasAsked ==
  ASSUME ManagerInv, NEW h \in Handlers, pc[h] \in {"ask", "wait"}
  PROVE  question[h] \in registry /\ question[h] \in Callbacks
BY DEF ManagerInv, TypeInv, QuestionInv, CallbacksMatchQuestions

(* Every step keeps the types, and the maps finite. *)
LEMMA TypeStep == ManagerInv /\ [Next]_vars => TypeInv'
<1> SUFFICES ASSUME ManagerInv, [Next]_vars PROVE TypeInv'
  OBVIOUS
<1> USE DEF questions
<1>1. ASSUME NEW h \in Handlers, Start(h) PROVE TypeInv'
  BY <1>1 DEF Start, StartConnect, Goto, maps, lock, actors, history, ManagerInv,
     TypeInv, Killing, About, None
<1>2. ASSUME NEW h \in Handlers, PluginAsks(h) PROVE TypeInv'
  <2>1. PICK q \in Callbacks : Ask(q) /\ question' = [question EXCEPT ![h] = q]
    BY <1>2, FreeIdIsFree DEF PluginAsks, FreeIds
  <2> QED
    BY <1>2, <2>1 DEF PluginAsks, Ask, Goto, maps, lock, actors, history, ManagerInv,
       TypeInv, Killing
<1>3. ASSUME NEW h \in Handlers, SendQuestion(h) \/ ConnectTimeout(h) PROVE TypeInv'
  <2>1. question[h] \in Callbacks
    BY <1>3, AskingHasAsked DEF SendQuestion, ConnectTimeout
  <2>2. UNCHANGED <<kind, of, maps, lock, actors, found>>
    BY <1>3 DEF SendQuestion, ConnectTimeout
  <2>3. CASE /\ asked' = asked \union {question[h]} /\ Goto(h, "wait")
             /\ UNCHANGED <<question, history>>
    BY <2>1, <2>2, <2>3 DEF Goto, maps, lock, actors, history, ManagerInv, TypeInv,
       Killing
  <2>4. CASE Abandon(h)
    BY <2>1, <2>2, <2>4 DEF Abandon, Goto, maps, lock, actors, ManagerInv, TypeInv,
       Killing
  <2> QED
    BY <1>3, <2>3, <2>4 DEF SendQuestion, ConnectTimeout
<1>4. ASSUME NEW q \in Callbacks, Authenticate(q) PROVE TypeInv'
  BY <1>4 DEF Authenticate, maps, lock, actors, ManagerInv, TypeInv, Killing
<1>5. ASSUME NEW h \in Handlers, PluginFails(h) PROVE TypeInv'
  BY <1>5 DEF PluginFails, Goto, maps, lock, actors, history, ManagerInv, TypeInv,
     Killing
<1>6. ASSUME NEW h \in Handlers, PluginSucceeds(h) PROVE TypeInv'
  <2>1. \E l \in {"done", "insert"} : Goto(h, l)
    BY <1>6 DEF PluginSucceeds
  <2>2. tasks' = tasks \/ tasks' = [tasks EXCEPT ![h] = "running"]
    BY <1>6 DEF PluginSucceeds
  <2> QED
    BY <1>6, <2>1, <2>2 DEF PluginSucceeds, Goto, maps, lock, history, ManagerInv,
       TypeInv, Killing
<1>7. ASSUME NEW h \in Handlers, InsertConnection(h) PROVE TypeInv'
  BY <1>7 DEF InsertConnection, Goto, maps, lock, actors, history, ManagerInv, TypeInv,
     Killing
<1>8. ASSUME NEW h \in Handlers, OpenChannel(h) PROVE TypeInv'
  <2>1. inbox' \in [Handlers -> Seq(Messages)]
    <3>1. CASE of[h] \in connections
      <4>1. of[h] \in Handlers /\ inbox' = Sent(of[h], <<Msg("register", h)>>)
        BY <1>8, <3>1 DEF OpenChannel, HoldReadLock, Goto, maps, lock, actors, history,
           ManagerInv, TypeInv
      <4> QED
        BY <4>1, SendingOne DEF ManagerInv
    <3>2. CASE of[h] \notin connections
      BY <1>8, <3>2 DEF OpenChannel, HoldReadLock, Goto, maps, lock, actors, history,
         ManagerInv, TypeInv
    <3> QED
      BY <3>1, <3>2
  <2>2. readers' \subseteq Handlers
    BY <1>8 DEF OpenChannel, HoldReadLock, Goto, maps, lock, actors, history,
       ManagerInv, TypeInv
  <2>3. \E l \in {"insert", "done"} : Goto(h, l)
    BY <1>8 DEF OpenChannel
  <2> QED
    BY <1>8, <2>1, <2>2, <2>3 DEF OpenChannel, Goto, maps, history, ManagerInv, TypeInv,
       Killing
<1>9. ASSUME NEW h \in Handlers, InsertChannel(h) PROVE TypeInv'
  BY <1>9, FS_AddElement DEF InsertChannel, Goto, maps, lock, actors, history,
     ManagerInv, TypeInv, Killing
<1>10. ASSUME NEW h \in Handlers, OpenTunnel(h) PROVE TypeInv'
  <2>1. inbox' \in [Handlers -> Seq(Messages)]
    <3>1. CASE of[h] \in connections
      <4>1. of[h] \in Handlers /\ inbox' = Sent(of[h], <<Msg("register", h)>>)
        BY <1>10, <3>1 DEF OpenTunnel, Goto, maps, lock, actors, history, ManagerInv,
           TypeInv
      <4> QED
        BY <4>1, SendingOne DEF ManagerInv
    <3>2. CASE of[h] \notin connections
      BY <1>10, <3>2 DEF OpenTunnel, Goto, maps, lock, actors, history, ManagerInv,
         TypeInv
    <3> QED
      BY <3>1, <3>2
  <2> QED
    BY <1>10, <2>1 DEF OpenTunnel, Goto, maps, lock, actors, history, ManagerInv,
       TypeInv, Killing
<1>11. ASSUME NEW h \in Handlers, SetUpTunnel(h) PROVE TypeInv'
  BY <1>11 DEF SetUpTunnel, Goto, maps, lock, actors, history, ManagerInv, TypeInv,
     Killing
<1>12. ASSUME NEW h \in Handlers, SetUpFails(h) PROVE TypeInv'
  BY <1>12 DEF SetUpFails, Goto, maps, lock, actors, history, ManagerInv, TypeInv,
     Killing
<1>13. ASSUME NEW h \in Handlers, StoreTunnel(h) PROVE TypeInv'
  BY <1>13, FS_AddElement DEF StoreTunnel, Goto, maps, lock, actors, history,
     ManagerInv, TypeInv, Killing
<1>14. ASSUME NEW h \in Handlers, Kill(h) PROVE TypeInv'
  <2>1. inbox' \in [Handlers -> Seq(Messages)]
    <3>1. CASE of[h] \in connections
      <4>1. of[h] \in Handlers /\ inbox' = Sent(of[h], <<Msg("get", h)>>)
        BY <1>14, <3>1 DEF Kill, Goto, maps, lock, actors, history, ManagerInv, TypeInv
      <4> QED
        BY <4>1, SendingOne DEF ManagerInv
    <3>2. CASE of[h] \notin connections
      BY <1>14, <3>2 DEF Kill, Goto, maps, lock, actors, history, ManagerInv, TypeInv
    <3> QED
      BY <3>1, <3>2
  <2> QED
    BY <1>14, <2>1 DEF Kill, Goto, maps, lock, actors, history, ManagerInv, TypeInv,
       Killing
<1>15. ASSUME NEW h \in Handlers, KillChannels(h) PROVE TypeInv'
  <2>1. inbox' \in [Handlers -> Seq(Messages)]
    <3>1. kind[h] \in About
      BY <1>15 DEF KillChannels, Goto, maps, lock, actors, history, ManagerInv, TypeInv,
         StageInv, Stage, About, Killing, None
    <3>2. of[h] \in Handlers
      BY <3>1 DEF ManagerInv, StageInv, Stage, Known
    <3>3. PICK S \in SUBSET Handlers : S = channels \intersect found[h]
      BY DEF ManagerInv, TypeInv, TunnelsOf
    <3>4. IsFiniteSet(S)
      BY <3>3, FS_Subset DEF ManagerInv, TypeInv, TunnelsOf
    <3>5. PICK msgs : msgs = Unregistrations(S)
      OBVIOUS
    <3>6. msgs \in Seq({Msg("unregister", id) : id \in S})
      BY <3>4, <3>5, UnregistrationsType
    <3>7. inbox' = Sent(of[h], msgs)
      BY <1>15, <3>3, <3>5 DEF KillChannels, Goto, maps, lock, actors, history
    <3> QED
      BY <3>2, <3>6, <3>7, Sending DEF ManagerInv
  <2>2. channels' \subseteq channels
    BY <1>15 DEF KillChannels, Goto, maps, lock, actors, history
  <2> QED
    BY <1>15, <2>1, <2>2, FS_Subset DEF KillChannels, Goto, maps, lock, actors, history,
       ManagerInv, TypeInv, Killing
<1>16. ASSUME NEW h \in Handlers, KillTunnels(h) PROVE TypeInv'
  <2>1. inbox' \in [Handlers -> Seq(Messages)]
    <3>1. kind[h] \in About
      BY <1>16 DEF KillTunnels, Goto, maps, lock, actors, history, ManagerInv, TypeInv,
         StageInv, Stage, About, Killing, None
    <3>2. of[h] \in Handlers
      BY <3>1 DEF ManagerInv, StageInv, Stage, Known
    <3>3. PICK S \in SUBSET Handlers : S = TunnelsOf(of[h])
      BY DEF ManagerInv, TypeInv, TunnelsOf
    <3>4. IsFiniteSet(S)
      BY <3>3, FS_Subset DEF ManagerInv, TypeInv, TunnelsOf
    <3>5. PICK msgs : msgs = Unregistrations(S)
      OBVIOUS
    <3>6. msgs \in Seq({Msg("unregister", id) : id \in S})
      BY <3>4, <3>5, UnregistrationsType
    <3>7. inbox' = Sent(of[h], msgs)
      BY <1>16, <3>3, <3>5 DEF KillTunnels, Goto, maps, lock, actors, history
    <3> QED
      BY <3>2, <3>6, <3>7, Sending DEF ManagerInv
  <2>2. tunnels' \subseteq tunnels
    BY <1>16 DEF KillTunnels, Goto, maps, lock, actors, history
  <2> QED
    BY <1>16, <2>1, <2>2, FS_Subset DEF KillTunnels, Goto, maps, lock, actors, history,
       ManagerInv, TypeInv, Killing
<1>17. ASSUME NEW h \in Handlers, Act(h) PROVE TypeInv'
  <2>1. inbox[h] # <<>> /\ inbox[h] \in Seq(Messages)
    BY <1>17 DEF Act, ManagerInv, TypeInv
  <2>2. Head(inbox[h]) \in Messages /\ Tail(inbox[h]) \in Seq(Messages)
    BY <2>1, HeadTailProperties
  <2>3. inbox' \in [Handlers -> Seq(Messages)]
    BY <1>17, <2>2 DEF Act, ManagerInv, TypeInv
  <2>4. Head(inbox[h]).id \in Handlers
    BY <2>2 DEF Messages
  <2>5. registered' \in [Handlers -> SUBSET Handlers]
    <3>1. registered[h] \in SUBSET Handlers
      BY DEF ManagerInv, TypeInv
    <3>2. PICK S \in SUBSET Handlers : registered' = [registered EXCEPT ![h] = S]
      BY <1>17, <2>4, <3>1 DEF Act
    <3> QED
      BY <3>2 DEF ManagerInv, TypeInv
  <2>6. /\ found' \in [Handlers -> SUBSET Handlers]
        /\ pc' \in [Handlers ->
             {"idle", "plugin", "ask", "wait", "insert", "lock", "setup",
                                 "store", "done"} \union Killing]
    <3>1. CASE Head(inbox[h]).type = "get"
      <4>1. /\ found' = [found EXCEPT ![Head(inbox[h]).id] = registered[h]]
            /\ pc' = [pc EXCEPT ![Head(inbox[h]).id] = "channels"]
        BY <1>17, <3>1 DEF Act, Goto
      <4> QED
        BY <2>4, <4>1 DEF ManagerInv, TypeInv, Killing
    <3>2. CASE Head(inbox[h]).type # "get"
      BY <1>17, <3>2 DEF Act, ManagerInv, TypeInv
    <3> QED
      BY <3>1, <3>2
  <2> QED
    BY <1>17, <2>3, <2>5, <2>6 DEF Act, maps, lock, history, ManagerInv, TypeInv
<1>18. ASSUME NEW h \in Handlers, Stop(h) PROVE TypeInv'
  <2>1. <<>> \in Seq(Messages)
    BY EmptySeq
  <2> QED
    BY <1>18, <2>1 DEF Stop, Goto, maps, lock, actors, history, ManagerInv, TypeInv
<1>19. ASSUME NEW h \in Handlers, NEW c \in Known, NEW k \in About, StartAbout(h, k, c)
       PROVE  TypeInv'
  BY <1>19 DEF StartAbout, Goto, maps, lock, actors, history, ManagerInv, TypeInv, Known
<1>20. ASSUME NEW h \in channels, ChannelRequest(h) PROVE TypeInv'
  <2>1. inbox' \in [Handlers -> Seq(Messages)]
    <3>1. h \in Handlers /\ kind[h] \in About
      BY <1>20 DEF ManagerInv, TypeInv, MapsInv, About
    <3>2. of[h] \in Handlers /\ inbox' = Sent(of[h], <<Msg("write", h)>>)
      BY <1>20, <3>1 DEF ChannelRequest, Goto, maps, lock, actors, history, ManagerInv,
         StageInv, Stage, Known
    <3> QED
      BY <3>1, <3>2, SendingOne DEF ManagerInv
  <2> QED
    BY <1>20, <2>1, FS_RemoveElement DEF ChannelRequest, Goto, maps, lock, actors,
       history, ManagerInv, TypeInv
<1>21. ASSUME NEW h \in channels, CloseChannel(h) PROVE TypeInv'
  <2>1. inbox' \in [Handlers -> Seq(Messages)]
    <3>1. h \in Handlers /\ kind[h] \in About
      BY <1>21 DEF ManagerInv, TypeInv, MapsInv, About
    <3>2. of[h] \in Handlers /\ inbox' = Sent(of[h], <<Msg("unregister", h)>>)
      BY <1>21, <3>1 DEF CloseChannel, CloseRemovesEntry, Goto, maps, lock, actors,
         history, ManagerInv, StageInv, Stage, Known
    <3> QED
      BY <3>1, <3>2, SendingOne DEF ManagerInv
  <2> QED
    BY <1>21, <2>1, FS_RemoveElement DEF CloseChannel, CloseRemovesEntry, Goto, maps,
       lock, actors, history, ManagerInv, TypeInv
<1>22. ASSUME NEW h \in tunnels, CloseManagedTunnel(h) PROVE TypeInv'
  <2>1. inbox' \in [Handlers -> Seq(Messages)]
    <3>1. h \in Handlers /\ kind[h] \in About
      BY <1>22 DEF ManagerInv, TypeInv, MapsInv, About
    <3>2. of[h] \in Handlers /\ inbox' = Sent(of[h], <<Msg("unregister", h)>>)
      BY <1>22, <3>1 DEF CloseManagedTunnel, AbortMessages, Goto, maps, lock, actors,
         history, ManagerInv, StageInv, Stage, Known
    <3> QED
      BY <3>1, <3>2, SendingOne DEF ManagerInv
  <2> QED
    BY <1>22, <2>1, FS_RemoveElement DEF CloseManagedTunnel, AbortMessages, Goto, maps,
       lock, actors, history, ManagerInv, TypeInv
<1>23. ASSUME UNCHANGED vars PROVE TypeInv'
  BY <1>23 DEF vars, maps, lock, actors, history, ManagerInv, TypeInv
<1> HIDE DEF ManagerInv
<1> QED
  BY <1>1, <1>2, <1>3, <1>4, <1>5, <1>6, <1>7, <1>8, <1>9, <1>10, <1>11, <1>12, <1>13,
     <1>14, <1>15, <1>16, <1>17, <1>18, <1>19, <1>20, <1>21, <1>22, <1>23
     DEF Next, About


\* What a step does that is of no concern for questions.
Unasking ==
  /\ UNCHANGED <<registry, question, asked, abandoned>>
  /\ \A u \in Handlers : pc'[u] = pc[u]
       \/ {pc[u], pc'[u]} \intersect {"ask", "wait"} = {}

(* Such a step leaves callbacks and questions matched. *)
LEMMA UnaskingKeeps ==
  ASSUME ManagerInv, Unasking
  PROVE  CallbacksMatchQuestions' /\ QuestionInv'
<1>1. \A h \in Handlers : (Asking(h)' <=> Asking(h)) /\ (Asking(h) => pc'[h] = pc[h])
  BY DEF Unasking, Asking
<1>2. \A h \in Handlers : pc'[h] \in {"ask", "wait"} <=> pc[h] \in {"ask", "wait"}
  BY <1>1 DEF Asking
<1>3. CallbacksMatchQuestions'
  BY <1>1, <1>2 DEF Unasking, Asking, ManagerInv, CallbacksMatchQuestions
<1>4. QuestionInv'
  BY <1>1 DEF Unasking, Asking, ManagerInv, QuestionInv
<1> QED
  BY <1>3, <1>4

(* Every step leaves callbacks and questions matched. *)
LEMMA CallbackStep == ManagerInv /\ [Next]_vars =>
  CallbacksMatchQuestions' /\ QuestionInv'
<1> SUFFICES ASSUME ManagerInv, [Next]_vars
             PROVE  CallbacksMatchQuestions' /\ QuestionInv'
  OBVIOUS
<1> USE DEF questions
<1>1. ASSUME NEW h \in Handlers, Start(h) PROVE CallbacksMatchQuestions' /\ QuestionInv'
  <2>1. Unasking
    BY <1>1 DEF Start, StartConnect, Goto, maps, lock, actors, history, Unasking,
       ManagerInv, TypeInv
  <2> QED
    BY <2>1, UnaskingKeeps
<1>2. ASSUME NEW h \in Handlers, PluginAsks(h)
      PROVE  CallbacksMatchQuestions' /\ QuestionInv'
  <2>1. PICK q \in FreeIds : Ask(q) /\ question' = [question EXCEPT ![h] = q]
    BY <1>2, FreeIdIsFree DEF PluginAsks
  <2>2. /\ pc[h] = "plugin" /\ Sets(pc, pc', h, "ask") /\ Sets(question, question', h, q)
        /\ q \notin registry /\ q \notin asked
        /\ registry' = registry \union {q} /\ UNCHANGED <<asked, abandoned>>
    BY <1>2, <2>1 DEF PluginAsks, Ask, FreeIds, Goto, history, Sets, ManagerInv, TypeInv
  <2>3. \A u \in Handlers : Asking(u) => question[u] \in registry /\ u # h
    BY <2>2, AskingHasAsked DEF Asking
  <2>4. \A u \in Handlers : u # h =>
          pc'[u] = pc[u] /\ question'[u] = question[u] /\ (Asking(u)' <=> Asking(u))
    BY <2>2 DEF Sets, Asking
  <2>5. pc'[h] = "ask" /\ question'[h] = q
    BY <2>2 DEF Sets
  <2>6. CallbacksMatchQuestions'
    BY <2>2, <2>3, <2>4, <2>5 DEF Asking, ManagerInv, CallbacksMatchQuestions
  <2>7. QuestionInv'
    BY <2>2, <2>3, <2>4, <2>5 DEF ManagerInv, QuestionInv
  <2> QED
    BY <2>6, <2>7
<1>3. ASSUME NEW h \in Handlers, SendQuestion(h) \/ ConnectTimeout(h)
      PROVE  CallbacksMatchQuestions' /\ QuestionInv'
  <2>1. Asking(h) /\ question[h] \in registry /\ UNCHANGED registry
    BY <1>3, AskingHasAsked DEF SendQuestion, ConnectTimeout, Asking, maps
  <2>2. \A u \in Handlers : u # h /\ Asking(u) => question[u] # question[h]
    BY <2>1 DEF ManagerInv, QuestionInv
  <2>3. CASE /\ asked' = asked \union {question[h]} /\ Goto(h, "wait")
             /\ UNCHANGED <<question, history>>
    <3>1. Sets(pc, pc', h, "wait") /\ UNCHANGED abandoned
      BY <2>3 DEF Goto, history, Sets, ManagerInv, TypeInv
    <3>2. \A u \in Handlers : Asking(u)' <=> Asking(u)
      BY <2>1, <3>1 DEF Sets, Asking
    <3>3. CallbacksMatchQuestions'
      BY <2>1, <2>3, <3>1, <3>2 DEF Sets, Asking, ManagerInv, CallbacksMatchQuestions
    <3>4. QuestionInv'
      BY <2>1, <2>2, <2>3, <3>1, <3>2 DEF Sets, Asking, ManagerInv, QuestionInv
    <3> QED
      BY <3>3, <3>4
  <2>4. CASE Abandon(h)
    <3>1. /\ Sets(pc, pc', h, "plugin") /\ Sets(question, question', h, None)
          /\ abandoned' = abandoned \union {question[h]} /\ UNCHANGED asked
      BY <2>4 DEF Abandon, Goto, Sets, ManagerInv, TypeInv
    <3>2. ~Asking(h)' /\ \A u \in Handlers : u # h =>
            pc'[u] = pc[u] /\ question'[u] = question[u] /\ (Asking(u)' <=> Asking(u))
      BY <3>1 DEF Sets, Asking
    <3>3. CallbacksMatchQuestions'
      BY <2>1, <3>1, <3>2 DEF Asking, ManagerInv, CallbacksMatchQuestions
    <3>4. QuestionInv'
      BY <2>1, <3>1, <3>2 DEF Asking, ManagerInv, QuestionInv
    <3> QED
      BY <3>3, <3>4
  <2> QED
    BY <1>3, <2>3, <2>4 DEF SendQuestion, ConnectTimeout
<1>4. ASSUME NEW q \in Callbacks, Authenticate(q)
      PROVE  CallbacksMatchQuestions' /\ QuestionInv'
  <2>1. /\ q \in asked /\ asked' = asked \ {q} /\ registry' = registry \ {q}
        /\ abandoned' = abandoned \ {q} /\ q \in registry
    BY <1>4 DEF Authenticate, ManagerInv, CallbacksMatchQuestions
  <2>2. \A u \in Handlers :
          /\ pc[u] = "wait" /\ question[u] = q => pc'[u] = "plugin"
          /\ ~(pc[u] = "wait" /\ question[u] = q) =>
               pc'[u] = pc[u] /\ question'[u] = question[u]
    BY <1>4, <2>1 DEF Authenticate
  <2>3. \A u \in Handlers : Asking(u)' => /\ Asking(u) /\ question[u] # q
                                         /\ pc'[u] = pc[u] /\ question'[u] = question[u]
    BY <2>1, <2>2 DEF Asking, ManagerInv, QuestionInv
  <2>4. \A u \in Handlers : Asking(u) /\ question[u] # q => Asking(u)'
    BY <2>2 DEF Asking
  <2>5. CallbacksMatchQuestions'
    BY <2>1, <2>3, <2>4 DEF Asking, ManagerInv, CallbacksMatchQuestions
  <2>6. QuestionInv'
    BY <2>1, <2>3 DEF Asking, ManagerInv, QuestionInv
  <2> QED
    BY <2>5, <2>6
<1>5. ASSUME NEW h \in Handlers, PluginFails(h)
      PROVE  CallbacksMatchQuestions' /\ QuestionInv'
  <2>1. Unasking
    BY <1>5 DEF PluginFails, Goto, maps, lock, actors, history, Unasking, ManagerInv,
       TypeInv
  <2> QED
    BY <2>1, UnaskingKeeps
<1>6. ASSUME NEW h \in Handlers, PluginSucceeds(h)
      PROVE  CallbacksMatchQuestions' /\ QuestionInv'
  <2>1. Unasking
    <3>1. \E l \in {"done", "insert"} : Goto(h, l)
      BY <1>6 DEF PluginSucceeds
    <3> QED
      BY <1>6, <3>1 DEF PluginSucceeds, Goto, maps, lock, actors, history, Unasking,
         ManagerInv, TypeInv
  <2> QED
    BY <2>1, UnaskingKeeps
<1>7. ASSUME NEW h \in Handlers, InsertConnection(h)
      PROVE  CallbacksMatchQuestions' /\ QuestionInv'
  <2>1. Unasking
    BY <1>7 DEF InsertConnection, Goto, maps, lock, actors, history, Unasking,
       ManagerInv, TypeInv
  <2> QED
    BY <2>1, UnaskingKeeps
<1>8. ASSUME NEW h \in Handlers, OpenChannel(h)
      PROVE  CallbacksMatchQuestions' /\ QuestionInv'
  <2>1. Unasking
    <3>1. \E l \in {"done", "insert"} : Goto(h, l)
      BY <1>8 DEF OpenChannel
    <3> QED
      BY <1>8, <3>1 DEF OpenChannel, HoldReadLock, Goto, maps, lock, actors, history,
         Unasking, ManagerInv, TypeInv
  <2> QED
    BY <2>1, UnaskingKeeps
<1>9. ASSUME NEW h \in Handlers, InsertChannel(h)
      PROVE  CallbacksMatchQuestions' /\ QuestionInv'
  <2>1. Unasking
    BY <1>9 DEF InsertChannel, Goto, maps, lock, actors, history, Unasking, ManagerInv,
       TypeInv
  <2> QED
    BY <2>1, UnaskingKeeps
<1>10. ASSUME NEW h \in Handlers, OpenTunnel(h)
       PROVE  CallbacksMatchQuestions' /\ QuestionInv'
  <2>1. Unasking
    <3>1. \E l \in {"done", "setup"} : Goto(h, l)
      BY <1>10 DEF OpenTunnel
    <3> QED
      BY <1>10, <3>1 DEF OpenTunnel, Goto, maps, lock, actors, history, Unasking,
         ManagerInv, TypeInv
  <2> QED
    BY <2>1, UnaskingKeeps
<1>11. ASSUME NEW h \in Handlers, SetUpTunnel(h)
       PROVE  CallbacksMatchQuestions' /\ QuestionInv'
  <2>1. Unasking
    BY <1>11 DEF SetUpTunnel, Goto, maps, lock, actors, history, Unasking, ManagerInv,
       TypeInv
  <2> QED
    BY <2>1, UnaskingKeeps
<1>12. ASSUME NEW h \in Handlers, SetUpFails(h)
       PROVE  CallbacksMatchQuestions' /\ QuestionInv'
  <2>1. Unasking
    BY <1>12 DEF SetUpFails, Goto, maps, lock, actors, history, Unasking, ManagerInv,
       TypeInv
  <2> QED
    BY <2>1, UnaskingKeeps
<1>13. ASSUME NEW h \in Handlers, StoreTunnel(h)
       PROVE  CallbacksMatchQuestions' /\ QuestionInv'
  <2>1. Unasking
    BY <1>13 DEF StoreTunnel, Goto, maps, lock, actors, history, Unasking, ManagerInv,
       TypeInv
  <2> QED
    BY <2>1, UnaskingKeeps
<1>14. ASSUME NEW h \in Handlers, Kill(h) PROVE CallbacksMatchQuestions' /\ QuestionInv'
  <2>1. Unasking
    <3>1. \E l \in {"done", "ids"} : Goto(h, l)
      BY <1>14 DEF Kill
    <3> QED
      BY <1>14, <3>1 DEF Kill, Goto, maps, lock, actors, history, Unasking, ManagerInv,
         TypeInv
  <2> QED
    BY <2>1, UnaskingKeeps
<1>15. ASSUME NEW h \in Handlers, KillChannels(h)
       PROVE  CallbacksMatchQuestions' /\ QuestionInv'
  <2>1. Unasking
    BY <1>15 DEF KillChannels, Goto, maps, lock, actors, history, Unasking, ManagerInv,
       TypeInv
  <2> QED
    BY <2>1, UnaskingKeeps
<1>16. ASSUME NEW h \in Handlers, KillTunnels(h)
       PROVE  CallbacksMatchQuestions' /\ QuestionInv'
  <2>1. Unasking
    BY <1>16 DEF KillTunnels, Goto, maps, lock, actors, history, Unasking, ManagerInv,
       TypeInv
  <2> QED
    BY <2>1, UnaskingKeeps
<1>17. ASSUME NEW h \in Handlers, Act(h) PROVE CallbacksMatchQuestions' /\ QuestionInv'
  <2>1. Unasking
    <3>1. UNCHANGED <<registry, question, asked, abandoned>>
      BY <1>17 DEF Act, maps, history
    <3>2. CASE pc' = pc
      BY <3>1, <3>2 DEF Unasking
    <3>3. CASE pc' # pc
      <4>1. inbox[h] # <<>> /\ inbox[h] \in Seq(Messages) /\ Head(inbox[h]).type = "get"
        BY <1>17, <3>3 DEF Act, ManagerInv, TypeInv
      <4>2. 1 \in 1 .. Len(inbox[h]) /\ Head(inbox[h]) = inbox[h][1]
        BY <4>1, LenProperties, EmptySeq
      <4>3. inbox[h][1] \in Messages /\ Legit(h, inbox[h][1])
        BY <4>1, <4>2, ElementOfSeq DEF ManagerInv, MessageInv
      <4>4. Head(inbox[h]).id \in Handlers /\ pc[Head(inbox[h]).id] = "ids"
        BY <4>1, <4>2, <4>3 DEF Legit, Messages
      <4>5. Sets(pc, pc', Head(inbox[h]).id, "channels")
        BY <1>17, <4>1, <4>4 DEF Act, Goto, Sets, ManagerInv, TypeInv
      <4> QED
        BY <3>1, <4>4, <4>5 DEF Unasking, Sets
    <3> QED
      BY <3>2, <3>3
  <2> QED
    BY <2>1, UnaskingKeeps
<1>18. ASSUME NEW h \in Handlers, Stop(h) PROVE CallbacksMatchQuestions' /\ QuestionInv'
  <2>1. Unasking
    BY <1>18 DEF Stop, Goto, maps, lock, actors, history, Unasking, ManagerInv, TypeInv
  <2> QED
    BY <2>1, UnaskingKeeps
<1>19. ASSUME NEW h \in Handlers, NEW c \in Known, NEW k \in About, StartAbout(h, k, c)
       PROVE  CallbacksMatchQuestions' /\ QuestionInv'
  <2>1. Unasking
    BY <1>19 DEF StartAbout, Goto, maps, lock, actors, history, Unasking, ManagerInv,
       TypeInv
  <2> QED
    BY <2>1, UnaskingKeeps
<1>20. ASSUME NEW h \in channels, ChannelRequest(h)
       PROVE  CallbacksMatchQuestions' /\ QuestionInv'
  <2>1. Unasking
    BY <1>20 DEF ChannelRequest, Goto, maps, lock, actors, history, Unasking,
       ManagerInv, TypeInv
  <2> QED
    BY <2>1, UnaskingKeeps
<1>21. ASSUME NEW h \in channels, CloseChannel(h)
       PROVE  CallbacksMatchQuestions' /\ QuestionInv'
  <2>1. Unasking
    BY <1>21 DEF CloseChannel, CloseRemovesEntry, Goto, maps, lock, actors, history,
       Unasking, ManagerInv, TypeInv
  <2> QED
    BY <2>1, UnaskingKeeps
<1>22. ASSUME NEW h \in tunnels, CloseManagedTunnel(h)
       PROVE  CallbacksMatchQuestions' /\ QuestionInv'
  <2>1. Unasking
    BY <1>22 DEF CloseManagedTunnel, AbortMessages, Goto, maps, lock, actors, history,
       Unasking, ManagerInv, TypeInv
  <2> QED
    BY <2>1, UnaskingKeeps
<1>23. ASSUME UNCHANGED vars PROVE CallbacksMatchQuestions' /\ QuestionInv'
  <2>1. Unasking
    BY <1>23 DEF vars, maps, lock, actors, history, Unasking
  <2> QED
    BY <2>1, UnaskingKeeps
<1> HIDE DEF ManagerInv
<1> QED
  BY <1>1, <1>2, <1>3, <1>4, <1>5, <1>6, <1>7, <1>8, <1>9, <1>10, <1>11, <1>12, <1>13,
     <1>14, <1>15, <1>16, <1>17, <1>18, <1>19, <1>20, <1>21, <1>22, <1>23
     DEF Next, About

(* Every step keeps what is known of handlers, maps and messages. *)
LEMMA RestStep ==
  ManagerInv /\ [Next]_vars => Handling' /\ Mapping' /\ Messaging'
<1> SUFFICES ASSUME ManagerInv, [Next]_vars PROVE Handling' /\ Mapping' /\ Messaging'
  OBVIOUS
<1>0. TypeInv'
  BY TypeStep
<1>1. ASSUME NEW h \in Handlers, Start(h) PROVE Handling' /\ Mapping' /\ Messaging'
  <2>1. Aside(h)
    BY <1>1 DEF Start, StartConnect, Goto, maps, lock, actors, history, ManagerInv,
       TypeInv, StageInv, Stage, About, Aside, Killing, None
  <2> QED
    BY <1>0, <2>1, AsideKeeps
<1>2. ASSUME NEW h \in Handlers, PluginAsks(h) PROVE Handling' /\ Mapping' /\ Messaging'
  <2>1. Aside(h)
    BY <1>2 DEF PluginAsks, Ask, Goto, maps, lock, actors, history, ManagerInv, TypeInv,
       StageInv, Stage, About, Aside, Killing, None
  <2> QED
    BY <1>0, <2>1, AsideKeeps
<1>3. ASSUME NEW h \in Handlers, SendQuestion(h) \/ ConnectTimeout(h)
      PROVE  Handling' /\ Mapping' /\ Messaging'
  <2>1. \E l \in {"wait", "plugin"} : Goto(h, l)
    BY <1>3 DEF SendQuestion, ConnectTimeout, Abandon
  <2>2. /\ pc[h] \in {"ask", "wait"}
        /\ UNCHANGED <<kind, of, maps, lock, actors, found, failed, late>>
    BY <1>3 DEF SendQuestion, ConnectTimeout, Abandon, history
  <2>3. kind[h] \in {"launch", "connect"}
    BY <2>2 DEF ManagerInv, TypeInv, StageInv, Stage, About, Killing, None
  <2>4. Aside(h)
    BY <2>1, <2>2, <2>3 DEF Goto, maps, lock, actors, ManagerInv, TypeInv, About, Aside
  <2> QED
    BY <1>0, <2>4, AsideKeeps
<1>4. ASSUME NEW q \in Callbacks, Authenticate(q)
      PROVE  Handling' /\ Mapping' /\ Messaging'
  <2>1. /\ q \in registry
        /\ UNCHANGED <<kind, of, connections, channels, tunnels, readers, writer, tasks,
                       inbox, registered, found, failed, late>>
    BY <1>4 DEF Authenticate, lock, actors, ManagerInv, CallbacksMatchQuestions
  <2>2. CASE \E h \in Handlers : pc[h] = "wait" /\ question[h] = q
    <3>1. PICK h \in Handlers : pc[h] = "wait" /\ question[h] = q
      BY <2>2
    <3>2. pc'[h] = "plugin" /\ \A u \in Handlers : u # h => pc'[u] = pc[u]
      BY <1>4, <2>1, <3>1 DEF Authenticate, ManagerInv, QuestionInv, Asking
    <3>3. kind[h] \in {"launch", "connect"}
      BY <3>1 DEF ManagerInv, TypeInv, StageInv, Stage, About, Killing, None
    <3>4. Aside(h)
      BY <2>1, <3>1, <3>2, <3>3 DEF Aside, About
    <3> QED
      BY <1>0, <3>4, AsideKeeps
  <2>3. CASE ~\E h \in Handlers : pc[h] = "wait" /\ question[h] = q
    <3>1. pc' = pc
      BY <1>4, <2>3 DEF Authenticate, ManagerInv, TypeInv
    <3>2. CASE Handlers = {}
      BY <1>0, <3>2 DEF TypeInv, Handling, Mapping, Messaging, StageInv, MapsInv, LockInv,
         ConnectionInv, FoundInv, NoChannelOutlivesItsConnection,
         NoTunnelOutlivesItsConnectionUnlessLate, MessageInv, OrderInv, RegisteredInv,
         OwnedInv, RequestsFindTheirChannel, Known
    <3>3. CASE Handlers # {}
      <4>1. PICK h \in Handlers : TRUE
        BY <3>3
      <4>2. Aside(h)
        BY <2>1, <3>1 DEF Aside
      <4> QED
        BY <1>0, <4>1, <4>2, AsideKeeps
    <3> QED
      BY <3>2, <3>3
  <2> QED
    BY <2>2, <2>3
<1>5. ASSUME NEW h \in Handlers, PluginFails(h)
      PROVE  Handling' /\ Mapping' /\ Messaging'
  <2>1. kind[h] \in {"launch", "connect"}
    BY <1>5 DEF PluginFails, ManagerInv, TypeInv, StageInv, Stage, About, Killing, None
  <2>2. Aside(h)
    BY <1>5, <2>1 DEF PluginFails, Goto, maps, lock, actors, history, ManagerInv,
       TypeInv, About, Aside
  <2> QED
    BY <1>0, <2>2, AsideKeeps
<1>6. ASSUME NEW h \in Handlers, PluginSucceeds(h)
      PROVE  Handling' /\ Mapping' /\ Messaging'
  <2>1. CASE kind[h] = "connect"
    BY <1>6, <1>0, <2>1, PluginConnectsStep
  <2>2. CASE kind[h] # "connect"
    <3>1. Aside(h)
      BY <1>6, <2>2 DEF PluginSucceeds, Goto, maps, lock, actors, history, ManagerInv,
         TypeInv, StageInv, Stage, About, Aside, Killing, None
    <3> QED
      BY <1>0, <3>1, AsideKeeps
  <2> QED
    BY <2>1, <2>2
<1>7. ASSUME NEW h \in Handlers, InsertConnection(h)
      PROVE  Handling' /\ Mapping' /\ Messaging'
  BY <1>7, <1>0, InsertConnectionStep
<1>8. ASSUME NEW h \in Handlers, OpenChannel(h)
      PROVE  Handling' /\ Mapping' /\ Messaging'
  <2>1. CASE of[h] \in connections
    BY <1>8, <1>0, <2>1, OpensStep
  <2>2. CASE of[h] \notin connections
    <3>1. /\ pc[h] = "lock" /\ kind[h] \in About /\ Goto(h, "done")
          /\ UNCHANGED <<kind, of, connections, channels, tunnels, readers, writer,
                         tasks,
                         inbox, registered, found, failed, late>>
      BY <1>8, <2>2 DEF OpenChannel, About, maps, lock, history
    <3> QED
      BY <1>0, <3>1, RefusedKeeps
  <2> QED
    BY <2>1, <2>2
<1>9. ASSUME NEW h \in Handlers, InsertChannel(h)
      PROVE  Handling' /\ Mapping' /\ Messaging'
  BY <1>9, <1>0, InsertChannelStep
<1>10. ASSUME NEW h \in Handlers, OpenTunnel(h)
       PROVE  Handling' /\ Mapping' /\ Messaging'
  <2>1. CASE of[h] \in connections
    BY <1>10, <1>0, <2>1, OpensTunnelStep
  <2>2. CASE of[h] \notin connections
    <3>1. /\ pc[h] = "lock" /\ kind[h] \in About /\ Goto(h, "done")
          /\ UNCHANGED <<kind, of, connections, channels, tunnels, readers, writer,
                         tasks,
                         inbox, registered, found, failed, late>>
      BY <1>10, <2>2 DEF OpenTunnel, About, maps, lock, history
    <3> QED
      BY <1>0, <3>1, RefusedKeeps
  <2> QED
    BY <2>1, <2>2
<1>11. ASSUME NEW h \in Handlers, SetUpTunnel(h)
       PROVE  Handling' /\ Mapping' /\ Messaging'
  BY <1>11, <1>0, SetUpTunnelStep
<1>12. ASSUME NEW h \in Handlers, SetUpFails(h)
       PROVE  Handling' /\ Mapping' /\ Messaging'
  BY <1>12, <1>0, SetUpFailsStep
<1>13. ASSUME NEW h \in Handlers, StoreTunnel(h)
       PROVE  Handling' /\ Mapping' /\ Messaging'
  BY <1>13, <1>0, StoreTunnelStep
<1>14. ASSUME NEW h \in Handlers, Kill(h) PROVE Handling' /\ Mapping' /\ Messaging'
  <2>1. CASE of[h] \in connections
    BY <1>14, <1>0, <2>1, KillsStep
  <2>2. CASE of[h] \notin connections
    <3>1. /\ pc[h] = "lock" /\ kind[h] \in About /\ Goto(h, "done")
          /\ UNCHANGED <<kind, of, connections, channels, tunnels, readers, writer,
                         tasks,
                         inbox, registered, found, failed, late>>
      BY <1>14, <2>2 DEF Kill, About, maps, lock, history
    <3> QED
      BY <1>0, <3>1, RefusedKeeps
  <2> QED
    BY <2>1, <2>2
<1>15. ASSUME NEW h \in Handlers, KillChannels(h)
       PROVE  Handling' /\ Mapping' /\ Messaging'
  BY <1>15, <1>0, KillChannelsStep
<1>16. ASSUME NEW h \in Handlers, KillTunnels(h)
       PROVE  Handling' /\ Mapping' /\ Messaging'
  BY <1>16, <1>0, KillTunnelsStep
<1>17. ASSUME NEW h \in Handlers, Act(h) PROVE Handling' /\ Mapping' /\ Messaging'
  BY <1>17, <1>0, ActStep
<1>18. ASSUME NEW h \in Handlers, Stop(h) PROVE Handling' /\ Mapping' /\ Messaging'
  BY <1>18, <1>0, StopStep
<1>19. ASSUME NEW h \in Handlers, NEW c \in Known, NEW k \in About, StartAbout(h, k, c)
       PROVE  Handling' /\ Mapping' /\ Messaging'
  BY <1>19, <1>0, StartAboutStep
<1>20. ASSUME NEW h \in channels, ChannelRequest(h)
       PROVE  Handling' /\ Mapping' /\ Messaging'
  BY <1>20, <1>0, ChannelRequestStep
<1>21. ASSUME NEW h \in channels, CloseChannel(h)
       PROVE  Handling' /\ Mapping' /\ Messaging'
  BY <1>21, <1>0, CloseChannelStep
<1>22. ASSUME NEW h \in tunnels, CloseManagedTunnel(h)
       PROVE  Handling' /\ Mapping' /\ Messaging'
  BY <1>22, <1>0, CloseManagedTunnelStep
<1>23. ASSUME UNCHANGED vars PROVE Handling' /\ Mapping' /\ Messaging'
  <2>1. CASE Handlers = {}
    BY <1>23, <2>1, <1>0 DEF vars, maps, lock, actors, history, ManagerInv, Handling,
       Mapping, Messaging, TypeInv, StageInv, MapsInv, LockInv,
       ConnectionInv, FoundInv, MessageInv, OrderInv, RegisteredInv, OwnedInv, Known,
       NoChannelOutlivesItsConnection, NoTunnelOutlivesItsConnectionUnlessLate,
         RequestsFindTheirChannel
  <2>2. ASSUME NEW h \in Handlers PROVE Handling' /\ Mapping' /\ Messaging'
    <3>1. Aside(h)
      BY <1>23 DEF vars, maps, lock, actors, history, Aside
    <3> QED
      BY <1>0, <3>1, AsideKeeps
  <2> QED
    BY <2>1, <2>2
<1> HIDE DEF ManagerInv
<1> QED
  BY <1>1, <1>2, <1>3, <1>4, <1>5, <1>6, <1>7, <1>8, <1>9, <1>10, <1>11, <1>12, <1>13,
     <1>14, <1>15, <1>16, <1>17, <1>18, <1>19, <1>20, <1>21, <1>22, <1>23
     DEF Next, About


(* The invariant holds when the manager starts. *)
LEMMA InvInit ==
  Init => ManagerInv
<1> SUFFICES ASSUME Init PROVE ManagerInv
  OBVIOUS
<1> USE ConnectedByHandlers, NoneIsNoHandler
<1>1. \A h \in Handlers : inbox[h] = <<>> /\ registered[h] = {} /\ of[h] = None
        /\ Len(inbox[h]) = 0
  BY DEF Init
<1>2. \A h \in Handlers : /\ pc[h] = IF h \in Connected THEN "done" ELSE "idle"
                          /\ kind[h] = IF h \in Connected THEN "connect" ELSE None
                          /\ tasks[h] = IF h \in Connected THEN "running" ELSE "none"
  BY DEF Init
<1>3. TypeInv
  <2>1. inbox \in [Handlers -> Seq(Messages)]
    BY DEF Init
  <2>2. IsFiniteSet({})
    BY FS_EmptySet
  <2> QED
    BY <2>1, <2>2 DEF Init, TypeInv, Killing, About
<1>4. StageInv
  BY <1>2 DEF StageInv, Stage, About, None
<1>5. MapsInv /\ ConnectionInv
  BY <1>2 DEF Init, MapsInv, ConnectionInv, Known
<1>6. LockInv /\ FoundInv
  BY <1>2 DEF Init, LockInv, FoundInv, Killing, None
<1>7. MessageInv /\ OrderInv
  BY <1>1 DEF MessageInv, OrderInv
<1>8. RegisteredInv /\ OwnedInv
  BY <1>1, <1>2 DEF Init, RegisteredInv, OwnedInv, Registering, None
<1>9. RequestsFindTheirChannel
  <2>1. \A h \in Handlers : DOMAIN inbox[h] = {}
    BY <1>1
  <2> QED
    BY <2>1 DEF RequestsFindTheirChannel
<1>10. /\ NoChannelOutlivesItsConnection /\ NoTunnelOutlivesItsConnectionUnlessLate
       /\ CallbacksMatchQuestions /\ QuestionInv
  BY <1>2 DEF Init, NoChannelOutlivesItsConnection,
     NoTunnelOutlivesItsConnectionUnlessLate,
     CallbacksMatchQuestions, QuestionInv, Asking
<1> QED
  BY <1>3, <1>4, <1>5, <1>6, <1>7, <1>8, <1>9, <1>10 DEF ManagerInv

(* ManagerInv is inductive. *)
LEMMA InvHolds ==
  Spec => []ManagerInv
<1>1. ManagerInv /\ [Next]_vars => ManagerInv'
  BY TypeStep, CallbackStep, RestStep DEF ManagerInv, Handling, Mapping, Messaging
<1> QED
  BY <1>1, InvInit, PTL DEF Spec

-----------------------------------------------------------------------------
(* Theorems *)

(* kill() leaves no channel of its connection in the map: OpenChannel holds the
   lock from the registration until the channel is stored, and the action task
   has had every registration before it is asked for its channels. *)
THEOREM NoChannelIsLeft ==
  Spec => []NoChannelOutlivesItsConnection
<1>1. ManagerInv => NoChannelOutlivesItsConnection
  BY DEF ManagerInv
<1> QED
  BY <1>1, InvHolds, PTL

(* kill() leaves no managed tunnel of its connection in the map, but one whose
   set-up, which holds no lock, ended after the tasks had been aborted. *)
THEOREM NoTunnelIsLeftUnlessLate ==
  Spec => []NoTunnelOutlivesItsConnectionUnlessLate
<1>1. ManagerInv => NoTunnelOutlivesItsConnectionUnlessLate
  BY DEF ManagerInv
<1> QED
  BY <1>1, InvHolds, PTL

(* The action task gets a client's request while the channel is registered:
   after its registration and before its closing. *)
THEOREM RequestsComeInTime ==
  Spec => []RequestsFindTheirChannel
<1>1. ManagerInv => RequestsFindTheirChannel
  BY DEF ManagerInv
<1> QED
  BY <1>1, InvHolds, PTL

(* A connection in the map knows no channel that nobody will unregister, but
   those of tunnels whose set-up failed. *)
THEOREM NoRegistrationIsOrphaned ==
  Spec => []RegistrationsAreOwned
<1>1. ManagerInv => RegistrationsAreOwned
  BY DEF ManagerInv, TypeInv, OwnedInv, RegistrationsAreOwned
<1> QED
  BY <1>1, InvHolds, PTL

(* Whoever waits for the client's answer has its callback in the registry, and
   no question reaches the client without one; the registry has no other, but
   those whose question could not be sent or was given up by a connect that
   timed out. *)
THEOREM AnswersFindTheirCallback ==
  Spec => []CallbacksMatchQuestions
<1>1. ManagerInv => CallbacksMatchQuestions
  BY DEF ManagerInv
<1> QED
  BY <1>1, InvHolds, PTL
=============================================================================
