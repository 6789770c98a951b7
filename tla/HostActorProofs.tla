---------------------------- MODULE HostActorProofs ----------------------------
(***************************************************************************)
(* Proofs about two of the host's actors.  HostProcess, for any processes, *)
(* streams and plans: what a process wrote is accounted for when its end   *)
(* is reported, and nothing is reported after that.  HostWatcher, for any  *)
(* connections and any paths with links among them: what is registered is  *)
(* watched, and what is not is not.                                        *)
(***************************************************************************)
EXTENDS HostProcess, HostWatcher, FiniteSetTheorems, SequenceTheorems, TLAPS

-----------------------------------------------------------------------------
(* The processes *)

Plan == [spawn : 0 .. 1, stdin : Nat, kill : Nat, output : Nat]
Message == [type : {"spawn", "stdin", "kill", "remove"}, id : Procs]

TypeOK ==
  /\ inbox \in Seq(Message)
  /\ todo \in [Procs -> Plan]
  /\ processes \subseteq Procs
  /\ os \in [Procs -> {"none", "running", "exited"}]
  /\ kill_tx \subseteq Procs /\ status \subseteq Procs
  /\ waiter \in [Procs -> {"none", "wait", "drain", "done", "left"}]
  /\ reader \in [Procs -> [Streams -> {"none", "running", "aborted", "gone"}]]
  /\ pipe \in [Procs -> [Streams -> Nat]]
  /\ channel \in [Procs -> [Streams -> {0, 1}]]
  /\ produced \in [Procs -> [Streams -> Nat]]
  /\ reported \in [Procs -> [Streams -> Nat]]
  /\ lost \in [Procs -> [Streams -> Nat]]

\* A process is spawned at most once: as long as it may still be, its request is
\* with the client or in the queue, in one copy.
SpawnedOnce ==
  /\ \A p \in Procs : todo[p].spawn = 1 => os[p] = "none"
  /\ \A i \in 1 .. Len(inbox) : inbox[i].type = "spawn" =>
       /\ os[inbox[i].id] = "none"
       /\ todo[inbox[i].id].spawn = 0
       /\ \A j \in 1 .. Len(inbox) :
            inbox[j].type = "spawn" /\ inbox[j].id = inbox[i].id => i = j

\* Only a process that has exited has a status, only its waiter gets past
\* wait(), and only its readers end.
EndsInOrder ==
  \A p \in Procs :
    /\ p \in processes \union kill_tx => os[p] # "none"
    /\ p \in status => os[p] = "exited"
    /\ waiter[p] \in {"drain", "done", "left"} => p \in status
    /\ \A s \in Streams : reader[p][s] \in {"aborted", "gone"} => os[p] = "exited"

\* Every chunk is in the pipe, in the channel, reported or lost, and none is in
\* a pipe that nobody reads any more.
Conserved ==
  \A p \in Procs, s \in Streams :
    /\ produced[p][s] = pipe[p][s] + channel[p][s] + reported[p][s] + lost[p][s]
    /\ reader[p][s] = "gone" => pipe[p][s] = 0

OutputInv == TypeOK /\ SpawnedOnce /\ EndsInOrder /\ Conserved /\ DoneIsLast

-----------------------------------------------------------------------------
(* What is in the actor's channel is about a process. *)
LEMMA InboxMessage ==
  ASSUME TypeOK, NEW i \in 1 .. Len(inbox)
  PROVE  inbox[i] \in Message /\ inbox[i].id \in Procs
<1>1. inbox[i] \in Message
  BY DEF TypeOK
<1> QED
  BY <1>1 DEF Message

(* Chunks are counted by natural numbers. *)
LEMMA ChunksAreCounted ==
  ASSUME TypeOK, NEW p \in Procs, NEW s \in Streams
  PROVE  /\ produced[p][s] \in Nat /\ pipe[p][s] \in Nat /\ channel[p][s] \in {0, 1}
         /\ reported[p][s] \in Nat /\ lost[p][s] \in Nat
<1>1. produced[p][s] \in Nat /\ pipe[p][s] \in Nat
  BY DEF TypeOK
<1>2. reported[p][s] \in Nat /\ lost[p][s] \in Nat
  BY DEF TypeOK
<1>3. channel[p][s] \in {0, 1}
  BY DEF TypeOK
<1> QED
  BY <1>1, <1>2, <1>3

(* A message is taken, and it was the only one that could spawn what runs now. *)
LEMMA TakeKeepsSpawnedOnce ==
  ASSUME TypeOK, SpawnedOnce, inbox # <<>>, inbox' = Tail(inbox), todo' = todo,
         \A q \in Procs : todo[q].spawn = 1 => os'[q] = "none",
         \A i \in 2 .. Len(inbox) : inbox[i].type = "spawn" => os'[inbox[i].id] = "none"
  PROVE  SpawnedOnce'
<1>1. Len(inbox') = Len(inbox) - 1 /\ \A i \in 1 .. Len(inbox') : inbox'[i] = inbox[i + 1]
  BY DEF TypeOK
<1>2. Len(inbox) \in Nat
  BY DEF TypeOK
<1>3. ASSUME NEW i \in 1 .. Len(inbox'), inbox'[i].type = "spawn"
      PROVE  /\ os'[inbox'[i].id] = "none"
             /\ todo'[inbox'[i].id].spawn = 0
             /\ \A j \in 1 .. Len(inbox') :
                  inbox'[j].type = "spawn" /\ inbox'[j].id = inbox'[i].id => i = j
  <2>1. i + 1 \in 2 .. Len(inbox) /\ inbox'[i] = inbox[i + 1]
    BY <1>1, <1>2
  <2>2. ASSUME NEW j \in 1 .. Len(inbox'), inbox'[j].type = "spawn",
               inbox'[j].id = inbox'[i].id
        PROVE  i = j
    <3>1. j + 1 \in 1 .. Len(inbox) /\ inbox'[j] = inbox[j + 1]
      BY <1>1, <1>2
    <3> QED
      BY <1>2, <1>3, <2>1, <2>2, <3>1 DEF SpawnedOnce
  <2> QED
    BY <1>2, <1>3, <2>1, <2>2 DEF SpawnedOnce
<1> QED
  BY <1>3 DEF SpawnedOnce

(* A message of another kind is added. *)
LEMMA OtherMessageKeepsSpawnedOnce ==
  ASSUME TypeOK, SpawnedOnce, NEW m \in Message, m.type # "spawn",
         inbox' = Append(inbox, m), os' = os,
         \A q \in Procs : todo'[q].spawn = todo[q].spawn
  PROVE  SpawnedOnce'
<1>1. Len(inbox') = Len(inbox) + 1 /\ Len(inbox) \in Nat /\ inbox'[Len(inbox) + 1] = m
  BY DEF TypeOK
<1>2. \A i \in 1 .. Len(inbox) : inbox'[i] = inbox[i]
  BY DEF TypeOK
<1>3. \A i \in 1 .. Len(inbox') : inbox'[i].type = "spawn" => i \in 1 .. Len(inbox)
  BY <1>1
<1> QED
  BY <1>2, <1>3, InboxMessage DEF SpawnedOnce

(* A process that was spawned exits, or nothing happens to it. *)
LEMMA ExitKeepsSpawnedOnce ==
  ASSUME TypeOK, SpawnedOnce, inbox' = inbox, todo' = todo,
         \A q \in Procs : os[q] = "none" => os'[q] = "none"
  PROVE  SpawnedOnce'
BY InboxMessage DEF SpawnedOnce

(* At first there is no process and no output. *)
LEMMA OutputInit == Init => OutputInv
BY PlansAreBounds DEF Init, OutputInv, TypeOK, SpawnedOnce, EndsInOrder, Conserved,
   DoneIsLast,
   PerStream, Plan, Message

(* One step per action.  Those that move a chunk keep the sum of Conserved. *)
LEMMA OutputStep == OutputInv /\ [Next]_vars => OutputInv'
<1> SUFFICES ASSUME OutputInv, [Next]_vars PROVE OutputInv'
  OBVIOUS
<1> USE DEF OutputInv, actor, process, input, ending, output
<1>1. CASE Spawn
  <2> DEFINE m == Head(inbox)
             spawned == m.id
  <2>1. /\ inbox # <<>> /\ inbox' = Tail(inbox)
        /\ inbox[1] = m /\ m \in Message /\ spawned \in Procs /\ m.type = "spawn"
        /\ 1 \in 1 .. Len(inbox) /\ Len(inbox) \in Nat
    BY <1>1, InboxMessage DEF Spawn, Arrived, TypeOK
  <2>2. os[spawned] = "none" /\ todo[spawned].spawn = 0
    BY <2>1 DEF SpawnedOnce
  <2>3. \A i \in 2 .. Len(inbox) : inbox[i].type = "spawn" => inbox[i].id # spawned
    BY <2>1 DEF SpawnedOnce
  <2>4. /\ \A q \in Procs : q # spawned =>
             os'[q] = os[q] /\ waiter'[q] = waiter[q] /\ reader'[q] = reader[q]
        /\ todo' = todo
    BY <1>1 DEF Spawn, TypeOK
  <2>5. SpawnedOnce'
    BY <2>1, <2>2, <2>3, <2>4, InboxMessage, TakeKeepsSpawnedOnce DEF SpawnedOnce
  <2>6. TypeOK'
    <3>1. inbox' \in Seq(Message)
      BY <2>1 DEF TypeOK
    <3>2. /\ processes' \subseteq Procs
          /\ os' \in [Procs -> {"none", "running", "exited"}]
          /\ waiter' \in [Procs -> {"none", "wait", "drain", "done", "left"}]
      BY <1>1, <2>1 DEF Spawn, TypeOK
    <3>3. reader' \in [Procs -> [Streams -> {"none", "running", "aborted", "gone"}]]
      <4> DEFINE States == {"none", "running", "aborted", "gone"}
      <4>1. [s \in Streams |-> "running"] \in [Streams -> States]
        OBVIOUS
      <4>2. reader \in [Procs -> [Streams -> States]]
        BY DEF TypeOK
      <4>3. reader' = reader \/ reader' = [reader EXCEPT ![spawned] = [s \in Streams |-> "running"]]
        BY <1>1 DEF Spawn
      <4> HIDE DEF States
      <4>4. reader' \in [Procs -> [Streams -> States]]
        BY <2>1, <4>1, <4>2, <4>3
      <4> QED
        BY <4>4 DEF States
    <3> QED
      BY <1>1, <3>1, <3>2, <3>3 DEF Spawn, TypeOK
  <2>7. spawned \notin status /\ waiter[spawned] \notin {"drain", "done", "left"}
    BY <2>1, <2>2 DEF EndsInOrder
  <2>8. CASE UNCHANGED <<processes, os, stdin, reader, waiter>>
    BY <1>1, <2>5, <2>6, <2>8 DEF Spawn, EndsInOrder, Conserved, DoneIsLast
  <2>9. CASE /\ processes' = processes \union {spawned}
             /\ os' = [os EXCEPT ![spawned] = "running"]
             /\ reader' = [reader EXCEPT ![spawned] = [s \in Streams |-> "running"]]
             /\ waiter' = [waiter EXCEPT ![spawned] = "wait"]
    <3>1. /\ os'[spawned] = "running" /\ waiter'[spawned] = "wait"
          /\ \A s \in Streams : reader'[spawned][s] = "running"
      BY <2>1, <2>9 DEF TypeOK
    <3>2. EndsInOrder'
      BY <1>1, <2>4, <2>7, <2>9, <3>1 DEF Spawn, EndsInOrder
    <3>3. Conserved'
      BY <1>1, <2>4, <3>1 DEF Spawn, Conserved
    <3>4. DoneIsLast'
      BY <1>1, <2>4, <3>1 DEF Spawn, DoneIsLast
    <3> QED
      BY <2>5, <2>6, <3>2, <3>3, <3>4
  <2> QED
    BY <1>1, <2>8, <2>9 DEF Spawn
<1>2. CASE Stdin
  <2>1. inbox # <<>> /\ inbox' = Tail(inbox)
    BY <1>2 DEF Stdin, Arrived
  <2>2. SpawnedOnce'
    BY <1>2, <2>1, TakeKeepsSpawnedOnce DEF Stdin, SpawnedOnce, process
  <2>3. TypeOK'
    BY <1>2, <2>1 DEF Stdin, TypeOK
  <2> QED
    BY <1>2, <2>2, <2>3 DEF Stdin, EndsInOrder, Conserved, DoneIsLast
<1>3. CASE StdinSent
  BY <1>3 DEF StdinSent, TypeOK, SpawnedOnce, EndsInOrder, Conserved, DoneIsLast
<1>4. CASE Kill
  <2>1. inbox # <<>> /\ inbox' = Tail(inbox) /\ Head(inbox).id \in Procs
    BY <1>4, InboxMessage DEF Kill, Arrived, TypeOK
  <2>2. SpawnedOnce'
    BY <1>4, <2>1, TakeKeepsSpawnedOnce DEF Kill, SpawnedOnce
  <2>3. kill_tx' \subseteq kill_tx \union processes
    BY <1>4 DEF Kill, KillRequested
  <2>4. TypeOK'
    BY <1>4, <2>1, <2>3 DEF Kill, TypeOK
  <2> QED
    BY <1>4, <2>2, <2>3, <2>4 DEF Kill, EndsInOrder, Conserved, DoneIsLast
<1>5. CASE InternalRemove
  <2>1. inbox # <<>> /\ inbox' = Tail(inbox)
    BY <1>5 DEF InternalRemove, Arrived
  <2>2. SpawnedOnce'
    BY <1>5, <2>1, TakeKeepsSpawnedOnce DEF InternalRemove, SpawnedOnce
  <2>3. TypeOK'
    BY <1>5, <2>1 DEF InternalRemove, TypeOK
  <2> QED
    BY <1>5, <2>2, <2>3 DEF InternalRemove, EndsInOrder, Conserved, DoneIsLast
<1>6. ASSUME NEW p \in Procs, NEW t \in {"spawn", "stdin", "kill"}, Request(t, p)
      PROVE  OutputInv'
  <2>1. Msg(t, p) \in Message /\ Msg(t, p).type = t /\ Msg(t, p).id = p
    BY DEF Msg, Message
  <2>2. todo' \in [Procs -> Plan] /\ \A q \in Procs : q # p => todo'[q] = todo[q]
    <3>1. todo[p] \in Plan
      BY DEF TypeOK
    <3>2. CASE t = "spawn"
      <4>1. [todo[p] EXCEPT !.spawn = @ - 1] \in Plan
        BY <1>6, <3>1, <3>2 DEF Request, Plan
      <4> QED
        BY <1>6, <3>2, <4>1 DEF Request, TypeOK
    <3>3. CASE t = "stdin"
      <4>1. [todo[p] EXCEPT !.stdin = @ - 1] \in Plan
        BY <1>6, <3>1, <3>3 DEF Request, Plan
      <4> QED
        BY <1>6, <3>3, <4>1 DEF Request, TypeOK
    <3>4. CASE t = "kill"
      <4>1. [todo[p] EXCEPT !.kill = @ - 1] \in Plan
        BY <1>6, <3>1, <3>4 DEF Request, Plan
      <4> QED
        BY <1>6, <3>4, <4>1 DEF Request, TypeOK
    <3> QED
      BY <3>2, <3>3, <3>4
  <2>3. TypeOK'
    BY <1>6, <2>1, <2>2 DEF Request, TypeOK
  <2>4. SpawnedOnce'
    <3>1. CASE t = "spawn"
      <4>1. todo[p] \in Plan /\ todo[p].spawn = 1 /\ todo'[p].spawn = 0
        BY <1>6, <3>1 DEF Request, TypeOK, Plan
      <4>2. os' = os /\ os[p] = "none"
        BY <1>6, <4>1 DEF Request, SpawnedOnce
      <4>3. \A i \in 1 .. Len(inbox) :
              inbox[i].id \in Procs /\ (inbox[i].type = "spawn" => inbox[i].id # p)
        BY <4>1, InboxMessage DEF SpawnedOnce
      <4>4. /\ Len(inbox') = Len(inbox) + 1 /\ Len(inbox) \in Nat
            /\ inbox'[Len(inbox) + 1] = Msg(t, p)
            /\ \A i \in 1 .. Len(inbox) : inbox'[i] = inbox[i]
        BY <1>6, <2>1 DEF Request, TypeOK
      <4>5. \A q \in Procs : todo'[q].spawn = 1 => os'[q] = "none"
        BY <2>2, <4>1, <4>2 DEF SpawnedOnce
      <4>6. ASSUME NEW i \in 1 .. Len(inbox'), inbox'[i].type = "spawn"
            PROVE  /\ os'[inbox'[i].id] = "none"
                   /\ todo'[inbox'[i].id].spawn = 0
                   /\ \A j \in 1 .. Len(inbox') :
                        inbox'[j].type = "spawn" /\ inbox'[j].id = inbox'[i].id => i = j
        <5>1. CASE i = Len(inbox) + 1
          BY <2>1, <4>1, <4>2, <4>3, <4>4, <5>1
        <5>2. CASE i \in 1 .. Len(inbox)
          BY <2>1, <2>2, <4>2, <4>3, <4>4, <4>6, <5>2 DEF SpawnedOnce
        <5> QED
          BY <4>4, <5>1, <5>2
      <4> QED
        BY <4>5, <4>6 DEF SpawnedOnce
    <3>2. CASE t # "spawn"
      <4>1. \A q \in Procs : todo'[q].spawn = todo[q].spawn
        BY <1>6, <2>2, <3>2 DEF Request, TypeOK, Plan
      <4> QED
        BY <1>6, <2>1, <3>2, <4>1, OtherMessageKeepsSpawnedOnce DEF Request
    <3> QED
      BY <3>1, <3>2
  <2> QED
    BY <1>6, <2>3, <2>4 DEF Request, EndsInOrder, Conserved, DoneIsLast
<1>7. ASSUME NEW p \in Procs, Reads(p) PROVE OutputInv'
  BY <1>7 DEF Reads, TypeOK, SpawnedOnce, EndsInOrder, Conserved, DoneIsLast
<1>8. ASSUME NEW p \in Procs, Exit(p) PROVE OutputInv'
  <2>1. TypeOK'
    BY <1>8 DEF Exit, TypeOK
  <2>2. \A q \in Procs : os'[q] = IF q = p THEN "exited" ELSE os[q]
    BY <1>8 DEF Exit, TypeOK
  <2>3. os[p] # "none"
    BY <1>8 DEF Exit, EndsInOrder
  <2>4. SpawnedOnce'
    BY <1>8, <2>2, <2>3, ExitKeepsSpawnedOnce DEF Exit
  <2> QED
    BY <1>8, <2>1, <2>2, <2>4 DEF Exit, EndsInOrder, Conserved, DoneIsLast
<1>9. ASSUME NEW p \in Procs, TakeStdin(p) PROVE OutputInv'
  BY <1>9 DEF TakeStdin, TypeOK, SpawnedOnce, EndsInOrder, Conserved, DoneIsLast
<1>10. ASSUME NEW p \in Procs, WriteStdin(p) PROVE OutputInv'
  BY <1>10 DEF WriteStdin, TypeOK, SpawnedOnce, EndsInOrder, Conserved, DoneIsLast
<1>11. ASSUME NEW p \in Procs, WriteFails(p) PROVE OutputInv'
  BY <1>11 DEF WriteFails, TypeOK, SpawnedOnce, EndsInOrder, Conserved, DoneIsLast
<1>12. ASSUME NEW p \in Procs, KillChild(p) PROVE OutputInv'
  <2>1. TypeOK'
    BY <1>12 DEF KillChild, TypeOK
  <2>2. \A q \in Procs : os'[q] = IF q = p THEN "exited" ELSE os[q]
    BY <1>12 DEF KillChild, TypeOK
  <2>3. os[p] # "none"
    BY <1>12 DEF KillChild, EndsInOrder
  <2>4. SpawnedOnce'
    BY <1>12, <2>2, <2>3, ExitKeepsSpawnedOnce DEF KillChild
  <2> QED
    BY <1>12, <2>1, <2>2, <2>4 DEF KillChild, EndsInOrder, Conserved, DoneIsLast
<1>13. ASSUME NEW p \in Procs, ChildExits(p) PROVE OutputInv'
  BY <1>13 DEF ChildExits, TypeOK, SpawnedOnce, EndsInOrder, Conserved, DoneIsLast
<1>14. ASSUME NEW p \in Procs, WaitReturns(p) PROVE OutputInv'
  BY <1>14 DEF WaitReturns, TypeOK, SpawnedOnce, EndsInOrder, Conserved, DoneIsLast
<1>15. ASSUME NEW p \in Procs, Done(p) PROVE OutputInv'
  <2>1. TypeOK' /\ SpawnedOnce' /\ EndsInOrder' /\ Conserved'
    BY <1>15 DEF Done, TypeOK, SpawnedOnce, EndsInOrder, Conserved
  <2>2. DoneIsLast'
    BY <1>15 DEF Done, TypeOK, DoneIsLast, Drained, ChannelAtEnd
  <2> QED
    BY <2>1, <2>2
<1>16. ASSUME NEW p \in Procs, DrainTimesOut(p) PROVE OutputInv'
  BY <1>16 DEF DrainTimesOut, TypeOK, SpawnedOnce, EndsInOrder, Conserved, DoneIsLast
<1>17. ASSUME NEW p \in Procs, OnDone(p) PROVE OutputInv'
  <2>1. Msg("remove", p) \in Message /\ Msg("remove", p).type # "spawn"
    BY DEF Msg, Message
  <2>2. inbox' = Append(inbox, Msg("remove", p))
    BY <1>17 DEF OnDone, RemoveLater
  <2>3. TypeOK'
    BY <1>17, <2>1, <2>2 DEF OnDone, TypeOK
  <2>4. SpawnedOnce'
    BY <1>17, <2>1, <2>2, OtherMessageKeepsSpawnedOnce DEF OnDone
  <2> QED
    BY <1>17, <2>3, <2>4 DEF OnDone, TypeOK, EndsInOrder, Conserved, DoneIsLast
<1>18. ASSUME NEW p \in Procs, NEW s \in Streams, Produce(p, s) PROVE OutputInv'
  <2>1. TypeOK'
    BY <1>18 DEF Produce, TypeOK
  <2>2. \A q \in Procs, r \in Streams : <<q, r>> # <<p, s>> =>
          produced'[q][r] = produced[q][r] /\ pipe'[q][r] = pipe[q][r]
    BY <1>18 DEF Produce, TypeOK
  <2>3. produced'[p][s] = produced[p][s] + 1 /\ pipe'[p][s] = pipe[p][s] + 1
    BY <1>18 DEF Produce, TypeOK
  <2>4. Conserved'
    <3> SUFFICES ASSUME NEW q \in Procs, NEW r \in Streams
                 PROVE  /\ produced'[q][r] = pipe'[q][r] + channel'[q][r]
                                              + reported'[q][r] + lost'[q][r]
                        /\ reader'[q][r] = "gone" => pipe'[q][r] = 0
      BY DEF Conserved
    <3>1. CASE <<q, r>> = <<p, s>>
      <4>1. q = p /\ r = s
        BY <3>1
      <4>2. /\ produced[p][s] \in Nat /\ pipe[p][s] \in Nat /\ channel[p][s] \in {0, 1}
            /\ reported[p][s] \in Nat /\ lost[p][s] \in Nat
        BY ChunksAreCounted
      <4>3. /\ produced[p][s] = pipe[p][s] + channel[p][s] + reported[p][s] + lost[p][s]
            /\ reader[p][s] = "gone" => pipe[p][s] = 0
            /\ reader[p][s] = "gone" => os[p] = "exited"
        BY DEF Conserved, EndsInOrder
      <4> QED
        BY <1>18, <2>3, <4>1, <4>2, <4>3 DEF Produce
    <3>2. CASE <<q, r>> # <<p, s>>
      BY <1>18, <2>2, <3>2 DEF Produce, Conserved
    <3> QED
      BY <3>1, <3>2
  <2>5. DoneIsLast'
    BY <1>18, <2>2, <2>3 DEF Produce, DoneIsLast
  <2> QED
    BY <1>18, <2>1, <2>2, <2>3, <2>4, <2>5 DEF Produce, SpawnedOnce, EndsInOrder
<1>19. ASSUME NEW p \in Procs, NEW s \in Streams, Read(p, s) PROVE OutputInv'
  <2>1. TypeOK'
    BY <1>19 DEF Read, TypeOK
  <2>2. \A q \in Procs, r \in Streams : <<q, r>> # <<p, s>> =>
          pipe'[q][r] = pipe[q][r] /\ channel'[q][r] = channel[q][r]
    BY <1>19 DEF Read, TypeOK
  <2>3. pipe'[p][s] = pipe[p][s] - 1 /\ channel[p][s] = 0 /\ channel'[p][s] = 1
    BY <1>19 DEF Read, TypeOK
  <2>4. Conserved'
    <3> SUFFICES ASSUME NEW q \in Procs, NEW r \in Streams
                 PROVE  /\ produced'[q][r] = pipe'[q][r] + channel'[q][r]
                                              + reported'[q][r] + lost'[q][r]
                        /\ reader'[q][r] = "gone" => pipe'[q][r] = 0
      BY DEF Conserved
    <3>1. CASE <<q, r>> = <<p, s>>
      BY <1>19, <2>3, <3>1 DEF Read, TypeOK, Conserved, EndsInOrder
    <3>2. CASE <<q, r>> # <<p, s>>
      BY <1>19, <2>2, <3>2 DEF Read, Conserved
    <3> QED
      BY <3>1, <3>2
  <2>5. DoneIsLast'
    BY <1>19, <2>2, <2>3 DEF Read, DoneIsLast
  <2> QED
    BY <1>19, <2>1, <2>2, <2>3, <2>4, <2>5 DEF Read, SpawnedOnce, EndsInOrder
<1>20. ASSUME NEW p \in Procs, NEW s \in Streams, ReaderEnds(p, s) PROVE OutputInv'
  <2>1. TypeOK'
    BY <1>20 DEF ReaderEnds, TypeOK
  <2>2. \A q \in Procs, r \in Streams : <<q, r>> # <<p, s>> =>
          pipe'[q][r] = pipe[q][r] /\ lost'[q][r] = lost[q][r] /\ reader'[q][r] = reader[q][r]
    BY <1>20 DEF ReaderEnds, TypeOK
  <2>3. lost'[p][s] = lost[p][s] + pipe[p][s] /\ pipe'[p][s] = 0 /\ reader'[p][s] = "gone"
    BY <1>20 DEF ReaderEnds, TypeOK
  <2>4. Conserved'
    <3> SUFFICES ASSUME NEW q \in Procs, NEW r \in Streams
                 PROVE  /\ produced'[q][r] = pipe'[q][r] + channel'[q][r]
                                              + reported'[q][r] + lost'[q][r]
                        /\ reader'[q][r] = "gone" => pipe'[q][r] = 0
      BY DEF Conserved
    <3>1. CASE <<q, r>> = <<p, s>>
      <4>1. q = p /\ r = s
        BY <3>1
      <4>2. /\ produced[p][s] \in Nat /\ pipe[p][s] \in Nat /\ channel[p][s] \in {0, 1}
            /\ reported[p][s] \in Nat /\ lost[p][s] \in Nat
        BY ChunksAreCounted
      <4>3. /\ produced[p][s] = pipe[p][s] + channel[p][s] + reported[p][s] + lost[p][s]
            /\ reader[p][s] = "gone" => pipe[p][s] = 0
            /\ reader[p][s] = "gone" => os[p] = "exited"
        BY DEF Conserved, EndsInOrder
      <4> QED
        BY <1>20, <2>3, <4>1, <4>2, <4>3 DEF ReaderEnds
    <3>2. CASE <<q, r>> # <<p, s>>
      BY <1>20, <2>2, <3>2 DEF ReaderEnds, Conserved
    <3> QED
      BY <3>1, <3>2
  <2>5. DoneIsLast'
    BY <1>20, <2>2, <2>3 DEF ReaderEnds, DoneIsLast
  <2> QED
    BY <1>20, <2>1, <2>2, <2>3, <2>4, <2>5 DEF ReaderEnds, SpawnedOnce, EndsInOrder
<1>21. ASSUME NEW p \in Procs, NEW s \in Streams, Forward(p, s) PROVE OutputInv'
  <2>1. TypeOK'
    BY <1>21 DEF Forward, TypeOK
  <2>2. \A q \in Procs, r \in Streams : <<q, r>> # <<p, s>> =>
          channel'[q][r] = channel[q][r] /\ reported'[q][r] = reported[q][r]
    BY <1>21 DEF Forward, TypeOK
  <2>3. channel[p][s] = 1 /\ channel'[p][s] = 0 /\ reported'[p][s] = reported[p][s] + 1
    BY <1>21 DEF Forward, TypeOK
  <2>4. Conserved'
    <3> SUFFICES ASSUME NEW q \in Procs, NEW r \in Streams
                 PROVE  /\ produced'[q][r] = pipe'[q][r] + channel'[q][r]
                                              + reported'[q][r] + lost'[q][r]
                        /\ reader'[q][r] = "gone" => pipe'[q][r] = 0
      BY DEF Conserved
    <3>1. CASE <<q, r>> = <<p, s>>
      <4>1. q = p /\ r = s
        BY <3>1
      <4>2. /\ produced[p][s] \in Nat /\ pipe[p][s] \in Nat /\ channel[p][s] \in {0, 1}
            /\ reported[p][s] \in Nat /\ lost[p][s] \in Nat
        BY ChunksAreCounted
      <4>3. /\ produced[p][s] = pipe[p][s] + channel[p][s] + reported[p][s] + lost[p][s]
            /\ reader[p][s] = "gone" => pipe[p][s] = 0
            /\ reader[p][s] = "gone" => os[p] = "exited"
        BY DEF Conserved, EndsInOrder
      <4> QED
        BY <1>21, <2>3, <4>1, <4>2, <4>3 DEF Forward
    <3>2. CASE <<q, r>> # <<p, s>>
      BY <1>21, <2>2, <3>2 DEF Forward, Conserved
    <3> QED
      BY <3>1, <3>2
  <2>5. DoneIsLast'
    BY <1>21, <2>2, <2>3 DEF Forward, DoneIsLast
  <2> QED
    BY <1>21, <2>1, <2>2, <2>3, <2>4, <2>5 DEF Forward, SpawnedOnce, EndsInOrder
<1>22. CASE UNCHANGED vars
  BY <1>22 DEF vars, TypeOK, SpawnedOnce, EndsInOrder, Conserved, DoneIsLast
<1> HIDE DEF OutputInv
<1> QED
  BY <1>1, <1>2, <1>3, <1>4, <1>5, <1>6, <1>7, <1>8, <1>9, <1>10, <1>11, <1>12, <1>13,
     <1>14, <1>15, <1>16, <1>17, <1>18, <1>19, <1>20, <1>21, <1>22 DEF Next

(* wait_task sends ProcDone when both forwarders have ended, and a forwarder
   ends after its reader: so once ProcDone is out in time nothing is left in a
   channel, and nobody is left to put anything there. *)
THEOREM ProcDoneIsLast == Spec => []DoneIsLast
<1>1. OutputInv => DoneIsLast
  BY DEF OutputInv
<1> QED
  BY OutputInit, OutputStep, <1>1, PTL DEF Spec

(* Every chunk the process wrote was sent before ProcDone, if that was in time,
   or was in the pipe when wait() aborted the reader. *)
THEOREM OutputIsReported == Spec => []OutputReportedUnlessUnread
<1>1. OutputInv => OutputReportedUnlessUnread
  BY DEF OutputInv, TypeOK, Conserved, DoneIsLast, OutputReportedUnlessUnread
<1> QED
  BY OutputInit, OutputStep, <1>1, PTL DEF Spec

-----------------------------------------------------------------------------
(* The watcher *)

Entry == [no : Nat, id : Connections, raw : Paths, path : Paths, recursive : BOOLEAN]

WatcherMessage ==
  [type : {"watch"}, no : Nat, id : Connections, raw : Paths, path : Paths,
   recursive : BOOLEAN]
    \union [type : {"unwatch"}, id : Connections, path : Paths]
    \union [type : {"event"}, path : Paths, deep : BOOLEAN]

WatcherTypeOK ==
  /\ rx \in Seq(WatcherMessage)
  /\ registered_paths \subseteq Entry
  /\ IsFiniteSet(registered_paths)
  /\ path_cnt \in [Paths -> Nat]
  /\ watched \in [Paths -> {"no", "flat", "deep"}]
  /\ requests \in Nat

\* A registration, and a request for one, has the path its raw path stands for.
PathsAreResolved ==
  /\ \A r \in registered_paths : r.path = Links[r.raw]
  /\ \A i \in 1 .. Len(rx) :
       rx[i].type = "watch" => rx[i].path = Links[rx[i].raw]

\* Only canonical paths have a count.
CountedIsCanonical == \A p \in Paths : path_cnt[p] > 0 => Links[p] = p

RegisteredAt(p) == {r \in registered_paths : r.path = p}

\* The count of a path is not lowered, so it is no less than its registrations.
CountsAreNotLow == \A p \in Paths : Cardinality(RegisteredAt(p)) <= path_cnt[p]

WatchInv ==
  /\ WatcherTypeOK
  /\ PathsAreResolved
  /\ CountedIsCanonical
  /\ CountsAreNotLow
  /\ RegisteredIsWatchedUnlessMisjudged
  /\ UnusedIsUnwatchedUnlessShared

-----------------------------------------------------------------------------
(* What is in the queue behind the message the task takes was in it before. *)
LEMMA TakenOff ==
  ASSUME WatcherTypeOK, PathsAreResolved, rx # <<>>
  PROVE  /\ Tail(rx) \in Seq(WatcherMessage)
         /\ Head(rx) \in WatcherMessage
         /\ Head(rx).type = "watch" =>
              Head(rx).path = Links[Head(rx).raw]
         /\ \A i \in 1 .. Len(Tail(rx)) :
              Tail(rx)[i].type = "watch" =>
                Tail(rx)[i].path = Links[Tail(rx)[i].raw]
<1>1. Len(rx) \in Nat /\ Len(rx) > 0
  BY DEF WatcherTypeOK
<1>2. Head(rx) = rx[1] /\ 1 \in 1 .. Len(rx)
  BY <1>1 DEF WatcherTypeOK
<1>3. Tail(rx) \in Seq(WatcherMessage) /\ Head(rx) \in WatcherMessage
  BY DEF WatcherTypeOK
<1>4. \A i \in 1 .. Len(Tail(rx)) :
        Tail(rx)[i] = rx[i + 1] /\ i + 1 \in 1 .. Len(rx)
  BY <1>1 DEF WatcherTypeOK
<1> QED
  BY <1>2, <1>3, <1>4 DEF PathsAreResolved

(* A message is added whose path, if it asks for a watch, is resolved. *)
LEMMA PutIn ==
  ASSUME WatcherTypeOK, PathsAreResolved, NEW m \in WatcherMessage,
         m.type = "watch" => m.path = Links[m.raw]
  PROVE  LET s == Append(rx, m) IN
         /\ s \in Seq(WatcherMessage)
         /\ \A i \in 1 .. Len(s) : s[i].type = "watch" => s[i].path = Links[s[i].raw]
<1> DEFINE s == Append(rx, m)
<1>1. s \in Seq(WatcherMessage) /\ Len(s) = Len(rx) + 1 /\ Len(rx) \in Nat
  BY DEF WatcherTypeOK
<1>2. \A i \in 1 .. Len(s) : s[i] = m \/ (i \in 1 .. Len(rx) /\ s[i] = rx[i])
  BY <1>1 DEF WatcherTypeOK
<1> QED
  BY <1>1, <1>2 DEF PathsAreResolved

(* A new registration adds at most one to those of its path. *)
LEMMA OneMore ==
  ASSUME WatcherTypeOK, CountsAreNotLow, NEW r \in Entry,
         registered_paths' = registered_paths \union {r},
         path_cnt' = [path_cnt EXCEPT ![r.path] = @ + 1]
  PROVE  /\ IsFiniteSet(registered_paths') /\ registered_paths' \subseteq Entry
         /\ path_cnt' \in [Paths -> Nat]
         /\ CountsAreNotLow'
<1>1. IsFiniteSet(registered_paths') /\ registered_paths' \subseteq Entry
  BY FS_AddElement DEF WatcherTypeOK
<1>2. path_cnt' \in [Paths -> Nat]
  BY DEF WatcherTypeOK, Entry
<1>3. ASSUME NEW p \in Paths PROVE Cardinality(RegisteredAt(p)') <= path_cnt'[p]
  <2>1. IsFiniteSet(RegisteredAt(p)) /\ Cardinality(RegisteredAt(p)) \in Nat
    BY FS_Subset, FS_CardinalityType DEF RegisteredAt, WatcherTypeOK
  <2>2. CASE p = r.path
    <3>1. RegisteredAt(p)' = RegisteredAt(p) \union {r}
      BY <2>2 DEF RegisteredAt
    <3>2. Cardinality(RegisteredAt(p) \union {r}) <= Cardinality(RegisteredAt(p)) + 1
      <4> DEFINE S == RegisteredAt(p)
      <4>1. IsFiniteSet(S) /\ Cardinality(S) \in Nat
        BY <2>1
      <4> HIDE DEF S
      <4>2. Cardinality(S \union {r}) = IF r \in S THEN Cardinality(S) ELSE Cardinality(S) + 1
        BY <4>1, FS_AddElement
      <4> QED
        BY <4>1, <4>2 DEF S
    <3>3. path_cnt'[p] = path_cnt[p] + 1 /\ path_cnt[p] \in Nat
      BY <2>2 DEF WatcherTypeOK
    <3>4. Cardinality(RegisteredAt(p)) <= path_cnt[p]
      BY DEF CountsAreNotLow
    <3> QED
      BY <2>1, <3>1, <3>2, <3>3, <3>4, FS_CardinalityType, FS_AddElement
  <2>3. CASE p # r.path
    <3>1. RegisteredAt(p)' = RegisteredAt(p)
      BY <2>3 DEF RegisteredAt
    <3>2. path_cnt'[p] = path_cnt[p]
      BY <2>3 DEF WatcherTypeOK
    <3> QED
      BY <3>1, <3>2 DEF CountsAreNotLow
  <2> QED
    BY <2>2, <2>3
<1> QED
  BY <1>1, <1>2, <1>3 DEF CountsAreNotLow

(* Fewer registrations, and the same counts. *)
LEMMA SomeLess ==
  ASSUME WatcherTypeOK, CountsAreNotLow, registered_paths' \subseteq registered_paths,
         UNCHANGED path_cnt
  PROVE  IsFiniteSet(registered_paths') /\ CountsAreNotLow'
<1>1. IsFiniteSet(registered_paths')
  BY FS_Subset DEF WatcherTypeOK
<1>2. ASSUME NEW p \in Paths PROVE Cardinality(RegisteredAt(p)') <= path_cnt'[p]
  <2>1. RegisteredAt(p)' \subseteq RegisteredAt(p)
    BY DEF RegisteredAt
  <2>2. IsFiniteSet(RegisteredAt(p))
    BY FS_Subset DEF RegisteredAt, WatcherTypeOK
  <2>3. /\ Cardinality(RegisteredAt(p)') <= Cardinality(RegisteredAt(p))
        /\ Cardinality(RegisteredAt(p)') \in Nat /\ Cardinality(RegisteredAt(p)) \in Nat
    BY <2>1, <2>2, FS_Subset, FS_CardinalityType
  <2> QED
    BY <2>3 DEF CountsAreNotLow, WatcherTypeOK
<1> QED
  BY <1>1, <1>2 DEF CountsAreNotLow

(* Without a count there is no registration. *)
LEMMA NoneAtZero ==
  ASSUME WatcherTypeOK, CountsAreNotLow, NEW p \in Paths, path_cnt[p] = 0
  PROVE  RegisteredAt(p) = {}
<1>1. IsFiniteSet(RegisteredAt(p)) /\ Cardinality(RegisteredAt(p)) \in Nat
  BY FS_Subset, FS_CardinalityType DEF RegisteredAt, WatcherTypeOK
<1>2. Cardinality(RegisteredAt(p)) = 0
  BY <1>1 DEF CountsAreNotLow
<1> QED
  BY <1>1, <1>2, FS_EmptySet

(* What an unwatch removes are registrations of its path, since a path that has
   a count is canonical; and if they reach the count they are all of them. *)
LEMMA Removed ==
  ASSUME WatcherTypeOK, PathsAreResolved, CountedIsCanonical,
         CountsAreNotLow, NEW id, NEW p \in Paths, path_cnt[p] # 0
  PROVE  LET kept == Retained(id, p) IN
         /\ kept \subseteq registered_paths
         /\ registered_paths \ kept \subseteq RegisteredAt(p)
         /\ IsFiniteSet(registered_paths \ kept)
         /\ Cardinality(registered_paths \ kept) \in Nat
         /\ path_cnt[p] <= Cardinality(registered_paths \ kept) =>
              registered_paths \ kept = RegisteredAt(p)
<1> DEFINE kept == Retained(id, p)
           gone == registered_paths \ kept
<1>1. kept \subseteq registered_paths
  BY DEF Retained
<1>2. Links[p] = p
  BY DEF CountedIsCanonical, WatcherTypeOK
<1>3. gone \subseteq RegisteredAt(p)
  BY <1>2 DEF Retained, RegisteredAt, PathsAreResolved
<1>4. IsFiniteSet(RegisteredAt(p))
  BY FS_Subset DEF RegisteredAt, WatcherTypeOK
<1>5. /\ IsFiniteSet(gone) /\ Cardinality(gone) \in Nat /\ Cardinality(RegisteredAt(p)) \in Nat
      /\ Cardinality(gone) <= Cardinality(RegisteredAt(p))
      /\ Cardinality(gone) = Cardinality(RegisteredAt(p)) => gone = RegisteredAt(p)
  <2> DEFINE T == RegisteredAt(p)
  <2> HIDE DEF gone, T
  <2> QED
    BY <1>3, <1>4, FS_Subset, FS_CardinalityType DEF T
<1>6. Cardinality(RegisteredAt(p)) <= path_cnt[p] /\ path_cnt[p] \in Nat
  BY DEF CountsAreNotLow, WatcherTypeOK
<1> HIDE DEF kept, gone
<1>7. path_cnt[p] <= Cardinality(gone) => gone = RegisteredAt(p)
  BY <1>5, <1>6
<1> QED
  BY <1>1, <1>3, <1>5, <1>7 DEF kept, gone

-----------------------------------------------------------------------------
(* At first nothing is registered, counted or watched. *)
LEMMA WatchInit == WatcherInit => WatchInv
<1> SUFFICES ASSUME WatcherInit PROVE WatchInv
  OBVIOUS
<1>1. WatcherTypeOK
  BY FS_EmptySet DEF WatcherInit, WatcherTypeOK
<1>2. \A p \in Paths : Cardinality(RegisteredAt(p)) <= path_cnt[p]
  <2>1. \A p \in Paths : RegisteredAt(p) = {}
    BY DEF WatcherInit, RegisteredAt
  <2> QED
    BY <2>1, FS_EmptySet DEF WatcherInit
<1> QED
  BY <1>1, <1>2 DEF WatcherInit, WatchInv, PathsAreResolved, CountedIsCanonical, CountsAreNotLow,
     RegisteredIsWatchedUnlessMisjudged, UnusedIsUnwatchedUnlessShared

(* Steps that leave the registrations, the counts and the watches alone. *)
LEMMA OnlyTheQueue ==
  ASSUME WatchInv,
         UNCHANGED <<registered_paths, path_cnt, watched, blind, deleted, shared>>,
         requests' \in Nat, rx' \in Seq(WatcherMessage),
         \A i \in 1 .. Len(rx') :
           rx'[i].type = "watch" => rx'[i].path = Links[rx'[i].raw]
  PROVE  WatchInv'
BY DEF WatchInv, WatcherTypeOK, PathsAreResolved, CountedIsCanonical, CountsAreNotLow,
   RegisteredAt, RegisteredIsWatchedUnlessMisjudged, UnusedIsUnwatchedUnlessShared, Covers

(* A client asks for a watch: the path is resolved here. *)
LEMMA RequestWatchKeeps ==
  ASSUME WatchInv, NEW id \in Connections, NEW p \in Paths,
         NEW recursive \in BOOLEAN, RequestWatch(id, p, recursive)
  PROVE  WatchInv'
<1> DEFINE m == [type |-> "watch", no |-> requests, id |-> id, raw |-> p,
                 path |-> Links[p], recursive |-> recursive]
<1>1. m \in WatcherMessage /\ m.path = Links[m.raw]
  BY LinksLeadToCanonical DEF WatchInv, WatcherTypeOK, WatcherMessage
<1>2. rx' = Append(rx, m)
  BY DEF RequestWatch
<1> HIDE DEF m
<1>3. /\ rx' \in Seq(WatcherMessage)
      /\ \A i \in 1 .. Len(rx') :
           rx'[i].type = "watch" => rx'[i].path = Links[rx'[i].raw]
  BY <1>1, <1>2, PutIn DEF WatchInv
<1> QED
  BY <1>3, OnlyTheQueue DEF WatchInv, WatcherTypeOK, RequestWatch, history

(* A client asks for an unwatch. *)
LEMMA RequestUnwatchKeeps ==
  ASSUME WatchInv, NEW id \in Connections, NEW p \in Paths,
         RequestUnwatch(id, p)
  PROVE  WatchInv'
<1> DEFINE m == [type |-> "unwatch", id |-> id, path |-> Canonical(p)]
<1>1. Canonical(p) \in Paths
  BY LinksLeadToCanonical DEF Canonical
<1>2. m \in WatcherMessage /\ m.type # "watch"
  BY <1>1 DEF WatcherMessage
<1>3. rx' = Append(rx, m)
  BY DEF RequestUnwatch
<1> HIDE DEF m
<1>4. /\ rx' \in Seq(WatcherMessage)
      /\ \A i \in 1 .. Len(rx') :
           rx'[i].type = "watch" => rx'[i].path = Links[rx'[i].raw]
  BY <1>2, <1>3, PutIn DEF WatchInv
<1> QED
  BY <1>4, OnlyTheQueue DEF WatchInv, WatcherTypeOK, RequestUnwatch, history

(* An event comes, if there is room for it. *)
LEMMA ChangeKeeps ==
  ASSUME WatchInv, NEW p \in Paths, NEW deep \in BOOLEAN, Change(p, deep)
  PROVE  WatchInv'
<1> DEFINE m == [type |-> "event", path |-> p, deep |-> deep]
<1>1. m \in WatcherMessage /\ m.type # "watch"
  BY DEF WatcherMessage
<1>2. rx' = Append(rx, m) \/ rx' = rx
  BY DEF Change
<1> HIDE DEF m
<1>3. /\ rx' \in Seq(WatcherMessage)
      /\ \A i \in 1 .. Len(rx') :
           rx'[i].type = "watch" => rx'[i].path = Links[rx'[i].raw]
  <2>1. CASE rx' = Append(rx, m)
    BY <1>1, <2>1, PutIn DEF WatchInv
  <2>2. CASE rx' = rx
    BY <2>2 DEF WatchInv, WatcherTypeOK, PathsAreResolved
  <2> QED
    BY <1>2, <2>1, <2>2
<1> QED
  BY <1>3, OnlyTheQueue DEF WatchInv, WatcherTypeOK, Change, history

(* A path that goes takes its watch with it; it is remembered if it had one, and
   if it had none its registrations were misjudged before. *)
LEMMA DeleteKeeps ==
  ASSUME WatchInv, NEW p \in Paths, Delete(p)
  PROVE  WatchInv'
<1>1. WatcherTypeOK' /\ PathsAreResolved' /\ CountedIsCanonical' /\ CountsAreNotLow'
  BY DEF WatchInv, Delete, WatcherTypeOK, PathsAreResolved, CountedIsCanonical,
     CountsAreNotLow, RegisteredAt
<1>2. RegisteredIsWatchedUnlessMisjudged'
  BY DEF WatchInv, Delete, WatcherTypeOK, RegisteredIsWatchedUnlessMisjudged, Covers, Entry
<1>3. UnusedIsUnwatchedUnlessShared'
  BY DEF WatchInv, Delete, WatcherTypeOK, UnusedIsUnwatchedUnlessShared
<1> QED
  BY <1>1, <1>2, <1>3 DEF WatchInv

(* Taking a watch message off the queue gives a registration. *)
LEMMA ReceivedWatch ==
  ASSUME WatchInv, Received("watch")
  PROVE  LET r == Registration(Head(rx)) IN
         r \in Entry /\ r.path = Links[r.raw] /\ Links[r.path] = r.path
<1> DEFINE m == Head(rx)
<1>1. m \in WatcherMessage /\ m.type = "watch" /\ m.path = Links[m.raw]
  BY TakenOff DEF WatchInv, Received
<1> HIDE DEF m
<1>2. m \in [type : {"watch"}, no : Nat, id : Connections, raw : Paths, path : Paths,
             recursive : BOOLEAN]
  BY <1>1 DEF WatcherMessage
<1> DEFINE r == Registration(m)
<1>3. r \in Entry /\ r.path = m.path /\ r.raw = m.raw
  BY <1>2 DEF Registration, Entry
<1>4. Links[m.path] = m.path
  BY <1>1, <1>2, LinksLeadToCanonical
<1> QED
  BY <1>1, <1>3, <1>4 DEF m

(* The path has a count: the registration is added, and remembered as
   misjudged if nothing covers it. *)
LEMMA WatchCountedKeeps ==
  ASSUME WatchInv, WatchCounted
  PROVE  WatchInv'
<1> DEFINE r == Registration(Head(rx))
<1>1. r \in Entry /\ r.path = Links[r.raw] /\ Links[r.path] = r.path
  BY ReceivedWatch DEF WatchCounted
<1>2. /\ path_cnt[r.path] > 0
      /\ path_cnt' = [path_cnt EXCEPT ![r.path] = @ + 1]
      /\ registered_paths' = registered_paths \union {r}
      /\ blind' = IF Covers(r) THEN blind ELSE blind \union {r.path}
      /\ UNCHANGED <<watched, deleted, shared, requests>>
  BY DEF WatchCounted, CountUp
<1>3. rx' = Tail(rx) /\ rx # <<>>
  BY DEF WatchCounted, Received
<1> HIDE DEF r
<1>4. WatcherTypeOK' /\ PathsAreResolved' /\ CountsAreNotLow'
  BY <1>1, <1>2, <1>3, OneMore, TakenOff DEF WatchInv, WatcherTypeOK, PathsAreResolved
<1>5. CountedIsCanonical'
  BY <1>1, <1>2 DEF WatchInv, WatcherTypeOK, CountedIsCanonical, Entry
<1>6. RegisteredIsWatchedUnlessMisjudged'
  BY <1>1, <1>2 DEF WatchInv, RegisteredIsWatchedUnlessMisjudged, Covers
<1>7. UnusedIsUnwatchedUnlessShared'
  BY <1>2 DEF WatchInv, UnusedIsUnwatchedUnlessShared
<1> QED
  BY <1>4, <1>5, <1>6, <1>7 DEF WatchInv

(* The first registration of a path meets no others, so that the new mode is
   enough for all. *)
LEMMA WatchFirstKeeps ==
  ASSUME WatchInv, WatchFirst
  PROVE  WatchInv'
<1> DEFINE r == Registration(Head(rx))
<1>1. r \in Entry /\ r.path = Links[r.raw] /\ Links[r.path] = r.path
  BY ReceivedWatch DEF WatchFirst
<1>2. /\ path_cnt[r.path] = 0
      /\ UNCHANGED <<blind, deleted, shared, requests>>
      /\ \/ /\ watched' = [watched EXCEPT ![r.path] = Mode(r.recursive)]
            /\ path_cnt' = [path_cnt EXCEPT ![r.path] = @ + 1]
            /\ registered_paths' = registered_paths \union {r}
         \/ UNCHANGED <<watched, path_cnt, registered_paths>>
  BY DEF WatchFirst, CountUp, history
<1>3. rx' = Tail(rx) /\ rx # <<>>
  BY DEF WatchFirst, Received
<1>4. /\ rx' \in Seq(WatcherMessage)
      /\ \A i \in 1 .. Len(rx') :
           rx'[i].type = "watch" => rx'[i].path = Links[rx'[i].raw]
  BY <1>3, TakenOff DEF WatchInv
<1> HIDE DEF r
<1>5. CASE UNCHANGED <<watched, path_cnt, registered_paths>>
  BY <1>2, <1>4, <1>5, OnlyTheQueue DEF WatchInv, WatcherTypeOK
<1>6. CASE /\ watched' = [watched EXCEPT ![r.path] = Mode(r.recursive)]
           /\ path_cnt' = [path_cnt EXCEPT ![r.path] = @ + 1]
           /\ registered_paths' = registered_paths \union {r}
  <2>0. r.path \in Paths /\ r.recursive \in BOOLEAN
    BY <1>1 DEF Entry
  <2>1. Mode(r.recursive) \in {"flat", "deep"}
    BY DEF Mode
  <2>2. CountsAreNotLow' /\ IsFiniteSet(registered_paths') /\ registered_paths' \subseteq Entry
        /\ path_cnt' \in [Paths -> Nat]
    BY <1>1, <1>6, OneMore DEF WatchInv
  <2>3. WatcherTypeOK' /\ PathsAreResolved'
    BY <1>1, <1>2, <1>4, <1>6, <2>0, <2>1, <2>2 DEF WatchInv, WatcherTypeOK, PathsAreResolved
  <2>4. CountedIsCanonical'
    BY <1>1, <1>6, <2>0 DEF WatchInv, WatcherTypeOK, CountedIsCanonical
  <2>5. \A s \in registered_paths : s.path # r.path
    BY <1>2, <2>0, NoneAtZero DEF WatchInv, RegisteredAt
  <2>6. RegisteredIsWatchedUnlessMisjudged'
    <3> SUFFICES ASSUME NEW s \in registered_paths'
                 PROVE  Covers(s)' \/ s.path \in (blind \union deleted)'
      BY DEF RegisteredIsWatchedUnlessMisjudged
    <3>1. CASE s = r
      BY <1>6, <2>0, <3>1 DEF WatchInv, WatcherTypeOK, Covers, Mode
    <3>2. CASE s \in registered_paths
      <4>1. s.path # r.path /\ s.path \in Paths
        BY <2>5, <3>2 DEF WatchInv, WatcherTypeOK, Entry
      <4>2. watched'[s.path] = watched[s.path]
        BY <1>6, <4>1 DEF WatchInv, WatcherTypeOK
      <4> QED
        BY <1>2, <3>2, <4>2 DEF WatchInv, Covers, RegisteredIsWatchedUnlessMisjudged
    <3> QED
      BY <1>6, <3>1, <3>2
  <2>7. UnusedIsUnwatchedUnlessShared'
    BY <1>2, <1>6, <2>0 DEF WatchInv, WatcherTypeOK, UnusedIsUnwatchedUnlessShared
  <2> QED
    BY <2>2, <2>3, <2>4, <2>6, <2>7 DEF WatchInv
<1> QED
  BY <1>2, <1>5, <1>6

(* The watch ends with the last registration of its path, if the count has been
   reached; otherwise the path is remembered as shared. *)
LEMMA UnwatchKeeps ==
  ASSUME WatchInv, Unwatch
  PROVE  WatchInv'
<1> DEFINE m == Head(rx)
           p == m.path
           kept == Retained(m.id, m.path)
           gone == registered_paths \ kept
<1>1. /\ rx' \in Seq(WatcherMessage)
      /\ \A i \in 1 .. Len(rx') :
           rx'[i].type = "watch" => rx'[i].path = Links[rx'[i].raw]
  BY TakenOff DEF WatchInv, Unwatch, Received
<1>2. p \in Paths
  <2>1. m \in WatcherMessage
    BY TakenOff DEF WatchInv, Unwatch, Received
  <2> HIDE DEF m
  <2> QED
    BY <2>1 DEF WatcherMessage
<1>3. UNCHANGED <<path_cnt, blind, deleted, requests>>
  BY DEF Unwatch
<1>4. CASE path_cnt[p] = 0
  BY <1>1, <1>3, <1>4, OnlyTheQueue DEF WatchInv, WatcherTypeOK, Unwatch
<1>5. CASE path_cnt[p] # 0
  <2>1. /\ registered_paths' = kept
        /\ watched' = IF path_cnt[p] <= Cardinality(gone) THEN [watched EXCEPT ![p] = "no"]
                      ELSE watched
        /\ shared' = IF Cardinality(gone) > 0 /\ ~(path_cnt[p] <= Cardinality(gone))
                       THEN shared \union {p} ELSE shared
    BY <1>5 DEF Unwatch, CountReached, StopWatching
  <2>2. /\ kept \subseteq registered_paths
        /\ gone \subseteq RegisteredAt(p)
        /\ IsFiniteSet(gone) /\ Cardinality(gone) \in Nat
        /\ path_cnt[p] <= Cardinality(gone) => gone = RegisteredAt(p)
    BY <1>2, <1>5, Removed DEF WatchInv
  <2>3. Cardinality(gone) = 0 => gone = {}
    BY <2>2, FS_EmptySet
  <2>4. kept = registered_paths \ gone
    BY <2>2
  <2> HIDE DEF m, p, kept, gone
  <2>5. IsFiniteSet(registered_paths') /\ CountsAreNotLow'
    BY <1>3, <2>1, <2>2, SomeLess DEF WatchInv
  <2>6. WatcherTypeOK' /\ PathsAreResolved' /\ CountedIsCanonical'
    BY <1>1, <1>2, <1>3, <2>1, <2>2, <2>5
       DEF WatchInv, WatcherTypeOK, PathsAreResolved, CountedIsCanonical
  <2>7. CASE path_cnt[p] <= Cardinality(gone)
    <3>1. watched' = [watched EXCEPT ![p] = "no"] /\ UNCHANGED shared
      BY <2>1, <2>7
    <3>2. registered_paths' = registered_paths \ RegisteredAt(p)
      BY <2>1, <2>2, <2>4, <2>7
    <3>3. RegisteredIsWatchedUnlessMisjudged'
      BY <1>3, <3>1, <3>2 DEF WatchInv, WatcherTypeOK, RegisteredAt, Entry, Covers,
         RegisteredIsWatchedUnlessMisjudged
    <3>4. UnusedIsUnwatchedUnlessShared'
      BY <1>2, <3>1, <3>2 DEF WatchInv, WatcherTypeOK, RegisteredAt,
         UnusedIsUnwatchedUnlessShared
    <3> QED
      BY <2>5, <2>6, <3>3, <3>4 DEF WatchInv
  <2>8. CASE ~(path_cnt[p] <= Cardinality(gone))
    <3>1. UNCHANGED watched
      BY <2>1, <2>8
    <3>2. RegisteredIsWatchedUnlessMisjudged'
      BY <1>3, <2>1, <2>2, <3>1 DEF WatchInv, Covers, RegisteredIsWatchedUnlessMisjudged
    <3>3. gone = {} \/ p \in shared'
      BY <2>1, <2>2, <2>3, <2>8
    <3>4. shared \subseteq shared'
      BY <2>1
    <3>5. UnusedIsUnwatchedUnlessShared'
      BY <2>1, <2>2, <2>4, <3>1, <3>3, <3>4
         DEF WatchInv, RegisteredAt, UnusedIsUnwatchedUnlessShared
    <3> QED
      BY <2>5, <2>6, <3>2, <3>5 DEF WatchInv
  <2> QED
    BY <2>7, <2>8
<1> QED
  BY <1>4, <1>5

(* Every step keeps the invariant. *)
LEMMA WatchStep == WatchInv /\ [WatcherNext]_watcherVars => WatchInv'
<1> SUFFICES ASSUME WatchInv, [WatcherNext]_watcherVars PROVE WatchInv'
  OBVIOUS
<1>1. ASSUME NEW id \in Connections, NEW p \in Paths, NEW recursive \in BOOLEAN,
             RequestWatch(id, p, recursive)
      PROVE  WatchInv'
  BY <1>1, RequestWatchKeeps
<1>2. ASSUME NEW id \in Connections, NEW p \in Paths, RequestUnwatch(id, p)
      PROVE  WatchInv'
  BY <1>2, RequestUnwatchKeeps
<1>3. ASSUME NEW p \in Paths, NEW deep \in BOOLEAN, Change(p, deep) PROVE WatchInv'
  BY <1>3, ChangeKeeps
<1>4. ASSUME NEW p \in Paths, Delete(p) PROVE WatchInv'
  BY <1>4, DeleteKeeps
<1>5. ASSUME NEW p \in Paths, Create(p) PROVE WatchInv'
  BY <1>5, OnlyTheQueue DEF Create, history, WatchInv, WatcherTypeOK, PathsAreResolved
<1>6. CASE WatchCounted
  BY <1>6, WatchCountedKeeps
<1>7. CASE WatchFirst
  BY <1>7, WatchFirstKeeps
<1>8. CASE Unwatch
  BY <1>8, UnwatchKeeps
<1>9. CASE Event
  BY <1>9, OnlyTheQueue, TakenOff DEF Event, Received, history, WatchInv, WatcherTypeOK
<1>10. CASE UNCHANGED watcherVars
  BY <1>10, OnlyTheQueue DEF watcherVars, WatchInv, WatcherTypeOK, PathsAreResolved
<1> QED
  BY <1>1, <1>2, <1>3, <1>4, <1>5, <1>6, <1>7, <1>8, <1>9, <1>10 DEF WatcherNext

(* For any connections and any paths with links among them: what is registered
   is covered by a watch, unless the count of its path was taken for a watch
   that was not there, or the path was deleted. *)
THEOREM RegisteredIsWatched == WatcherSpec => []RegisteredIsWatchedUnlessMisjudged
<1>1. WatchInv => RegisteredIsWatchedUnlessMisjudged
  BY DEF WatchInv
<1> QED
  BY WatchInit, WatchStep, <1>1, PTL DEF WatcherSpec

(* A path that is watched has a registration, unless an unwatch left the count of
   its path behind. *)
THEOREM UnusedIsUnwatched == WatcherSpec => []UnusedIsUnwatchedUnlessShared
<1>1. WatchInv => UnusedIsUnwatchedUnlessShared
  BY DEF WatchInv
<1> QED
  BY WatchInit, WatchStep, <1>1, PTL DEF WatcherSpec
================================================================================
