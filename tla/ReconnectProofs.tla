---------------------------- MODULE ReconnectProofs ----------------------------
(***************************************************************************)
(* Proofs about Reconnect, for any number of links, breaks and shutdowns:  *)
(* what is handed from task to task is in one place, is not lost, and is   *)
(* what the session began with.                                            *)
(***************************************************************************)
EXTENDS Reconnect, FiniteSetTheorems, TLAPS

\* Tasks that have taken the entry out of the keychain and are going to put it
\* back or replace it, and tasks that hold the backup of the session.
Reconnecting == {"await", "exchange", "sync"}
Holding == {"exchange", "sync", "established", "handover", "loop", "closing"}

Custodian(t) == held[t] = "session" \/ oneshot[t] = "session"

\* Links are opened one after the other, and only the first without a password.
LinksInv ==
  /\ client.pc = "new" => client.otp = NoOtp /\ stored = NoOtp
  /\ client.pc = "new" <=> client.task = NoTask
  /\ client.otp = NoOtp => client.pc \in {"new", "exchange", "failed"}
  /\ \A t \in Tasks :
       /\ pc[t] # "none" => t <= client.task /\ client.pc # "new"
       /\ pc[t] # "none" /\ offered[t] = NoOtp => t = First
       /\ pc[t] = "new keys" => offered[t] = NoOtp

\* The password in the keychain is the newest that was stored, and so is the one
\* a reconnecting task came with; before the first nothing is there.
PasswordInv ==
  /\ keychain # NoEntry => keychain.otp = stored /\ keychain.rx \in Tasks
  /\ \A t \in Tasks : pc[t] \in Reconnecting => offered[t] = stored /\ stored # NoOtp
  /\ \A t \in Tasks :
       pc[t] \in {"type", "new keys"} /\ offered[t] = NoOtp => stored = NoOtp
  /\ stored = NoOtp => keychain = NoEntry /\ \A t \in Tasks :
       pc[t] \in {"none", "type", "new keys", "done"} /\ ~Custodian(t)

\* Where the backup is while a task runs and after it.
HeldBy(t) ==
  /\ held[t] = IF pc[t] \in Holding THEN "session" ELSE "none"
  /\ oneshot[t] \in {"empty", "session", "closed"}
  /\ oneshot[t] = "session" => pc[t] = "done"
  /\ oneshot[t] = "empty" => pc[t] # "done"
  /\ pc[t] \in {"none", "type", "new keys"} \union Reconnecting => oneshot[t] = "empty"

HeldInv == \A t \in Tasks : HeldBy(t)

\* The entry is in the keychain or with one task.
EntryInv ==
  \A t \in Tasks : pc[t] \in Reconnecting =>
    keychain = NoEntry /\ \A u \in Tasks : pc[u] \in Reconnecting => t = u

\* There is one backup, and who is named by the entry has it and has not yet
\* handed it on.
CustodyInv ==
  /\ \A t \in Tasks :
       pc[t] = "await" => Custodian(from[t]) /\ oneshot[from[t]] # "closed"
  /\ keychain # NoEntry => Custodian(keychain.rx) /\ oneshot[keychain.rx] # "closed"
  /\ \A t, u \in Tasks : Custodian(t) /\ Custodian(u) => t = u

\* Only a shutdown signal makes the entry vanish.
KeptInv ==
  ~wasShutdown =>
    /\ signalled = {}
    /\ stored # NoOtp => keychain # NoEntry \/ \E t \in Tasks : pc[t] \in Reconnecting

\* A task whose channels can be taken over: it has been in its loop, and when it
\* is through it has sent them back.
Source(k) ==
  /\ channels[k] # NoTask
  /\ pc[k] \in {"loop", "closing", "done"}
  /\ pc[k] # "loop" => saved[k] = "channels"

ChannelsInv ==
  /\ connections # NoTask => Source(connections)
  /\ \A t \in Tasks : pc[t] = "handover" => Source(from[t]) /\ connections = NoTask
  /\ \A t \in Tasks : channels[t] # NoTask =>
       connections # NoTask \/ \E u \in Tasks : pc[u] = "handover"
  /\ SameChannels

SessionInv == TypeOK /\ LinksInv /\ PasswordInv /\ HeldInv /\ EntryInv /\ CustodyInv
              /\ KeptInv /\ ChannelsInv

-----------------------------------------------------------------------------
(* The steps *)

\* g is f but for v at t.
Sets(f, g, t, v) == \A u \in Tasks : g[u] = IF u = t THEN v ELSE f[u]

(* What the client does on an open link, and what the network does to it, is
   nothing a server task keeps. *)
LEMMA ClientLeavesServerAlone ==
  ASSUME \/ ClientConnected \/ ClientDown \/ ClientExchange \/ ClientSync \/ ClientFail
         \/ \E t \in Tasks : Break(t)
  PROVE  UNCHANGED <<offered, serverVars>>
BY DEF ClientConnected, ClientDown, ClientExchange, ClientSync, ClientFail, Break

(* Names of tasks are not NoTask, and what names a task does so. *)
LEMMA TaskNames ==
  ASSUME SessionInv
  PROVE  /\ NoTask \notin Tasks /\ First \in Tasks /\ NoOtp \notin Tasks
         /\ \A t \in Tasks : pc[t] \in {"await", "handover"} => from[t] \in Tasks
         /\ connections # NoTask => connections \in Tasks
         /\ keychain # NoEntry => keychain.rx \in Tasks
         /\ client.task \in Nat
<1>1. NoTask \notin Tasks /\ First \in Tasks /\ NoOtp \notin Tasks
  BY ReconnectConstants DEF Tasks, NoTask, First, NoOtp
<1>2. client.task \in Tasks \union {NoTask}
  BY DEF SessionInv, TypeOK
<1>3. client.task \in Nat
  BY <1>2, ReconnectConstants DEF Tasks, NoTask
<1> QED
  BY <1>1, <1>3 DEF SessionInv, TypeOK, PasswordInv

(* The backup stays where the entry says, if nobody becomes a custodian and who
   is named stays one. *)
LEMMA CustodyKept ==
  ASSUME SessionInv, keychain' = keychain,
         \A u \in Tasks : Custodian(u)' => Custodian(u),
         \A u \in Tasks : pc'[u] = "await" => pc[u] = "await" /\ from'[u] = from[u],
         \A u \in Tasks : Custodian(u) /\ oneshot[u] # "closed" =>
           \/ Custodian(u)' /\ oneshot'[u] # "closed"
           \/ keychain = NoEntry /\ \A v \in Tasks : pc'[v] # "await"
  PROVE  CustodyInv'
<1> USE DEF SessionInv, CustodyInv
<1>1. ASSUME NEW u \in Tasks, pc'[u] = "await"
      PROVE  Custodian(from[u])' /\ oneshot'[from'[u]] # "closed"
  <2>1. pc[u] = "await" /\ from'[u] = from[u] /\ from[u] \in Tasks
    BY <1>1, TaskNames
  <2>2. Custodian(from[u]) /\ oneshot[from[u]] # "closed"
    BY <2>1
  <2> QED
    BY <1>1, <2>1, <2>2 DEF Custodian
<1>2. ASSUME keychain' # NoEntry
      PROVE  Custodian(keychain.rx)' /\ oneshot'[keychain'.rx] # "closed"
  <2>1. keychain.rx \in Tasks /\ Custodian(keychain.rx) /\ oneshot[keychain.rx] # "closed"
    BY <1>2, TaskNames DEF NoEntry
  <2> QED
    BY <1>2, <2>1 DEF NoEntry, Custodian
<1>3. \A u, v \in Tasks : Custodian(u)' /\ Custodian(v)' => u = v
  BY DEF CustodyInv
<1> QED
  BY <1>1, <1>2, <1>3

(* The channels stay reachable, if they can still be had where they could and
   nobody begins or ends a handover. *)
LEMMA ChannelsKept ==
  ASSUME SessionInv, UNCHANGED <<channels, connections>>,
         \A k \in Tasks : Source(k) => Source(k)',
         \A u \in Tasks : pc'[u] = "handover" <=> pc[u] = "handover",
         \A u \in Tasks : pc[u] = "handover" => from'[u] = from[u]
  PROVE  ChannelsInv'
<1> USE DEF SessionInv, ChannelsInv
<1>1. connections' # NoTask => Source(connections)'
  BY TaskNames DEF Source
<1>2. ASSUME NEW u \in Tasks, pc'[u] = "handover"
      PROVE  Source(from[u])' /\ connections' = NoTask
  <2>1. pc[u] = "handover" /\ from'[u] = from[u] /\ from[u] \in Tasks
    BY <1>2, TaskNames
  <2> QED
    BY <2>1 DEF Source
<1>3. \A u \in Tasks : channels'[u] # NoTask =>
        connections' # NoTask \/ \E v \in Tasks : pc'[v] = "handover"
  OBVIOUS
<1>4. SameChannels'
  BY DEF SameChannels
<1> QED
  BY <1>1, <1>2, <1>3, <1>4

(* One step per action, and under it what the action does and then one step per
   part of the invariant. *)
LEMMA SessionStep ==
  SessionInv /\ [Next]_vars =>
    /\ LinksInv' /\ PasswordInv' /\ HeldInv' /\ EntryInv'
    /\ CustodyInv' /\ KeptInv' /\ ChannelsInv'
<1> DEFINE Goal == /\ LinksInv' /\ PasswordInv' /\ HeldInv' /\ EntryInv'
                   /\ CustodyInv' /\ KeptInv' /\ ChannelsInv'
<1> SUFFICES ASSUME SessionInv, [Next]_vars PROVE Goal
  OBVIOUS
<1>1. ASSUME NEW t \in Tasks, Verify(t) PROVE Goal
  <2>1. /\ pc[t] = "type" /\ offered[t] = NoOtp
        /\ Sets(pc, pc', t, "new keys")
        /\ UNCHANGED <<client, offered, from, held, oneshot, keychain, connections,
                       channels, saved, signalled, stored, wasShutdown>>
    BY <1>1, TaskNames DEF Verify, Write, Sets, SessionInv, TypeOK
  <2>2. LinksInv'
    BY <2>1 DEF Sets, SessionInv, LinksInv
  <2>3. PasswordInv'
    BY <2>1, TaskNames DEF Sets, SessionInv, PasswordInv, Reconnecting, Custodian
  <2>4. HeldInv'
    BY <2>1 DEF Sets, SessionInv, HeldInv, HeldBy, Reconnecting, Holding
  <2>5. EntryInv'
    BY <2>1, TaskNames DEF Sets, SessionInv, EntryInv, Reconnecting
  <2>6. CustodyInv'
    BY <2>1, TaskNames, CustodyKept DEF Sets, SessionInv, HeldInv, HeldBy, Custodian,
       Holding, Reconnecting
  <2>7. KeptInv'
    BY <2>1, TaskNames DEF Sets, SessionInv, KeptInv, Reconnecting
  <2>8. ChannelsInv'
    BY <2>1, ChannelsKept DEF Sets, Source
  <2> QED
    BY <2>2, <2>3, <2>4, <2>5, <2>6, <2>7, <2>8
<1>2. ASSUME NEW t \in Tasks, Register(t) PROVE Goal
  <2>1. /\ pc[t] = "new keys"
        /\ Sets(pc, pc', t, "established")
        /\ Sets(held, held', t, "session")
        /\ keychain' # NoEntry /\ keychain'.otp = t /\ keychain'.rx = t
        /\ stored' = t
        /\ UNCHANGED <<client, offered, from, oneshot, connections, channels, saved,
                       signalled, wasShutdown>>
    BY <1>2, TaskNames DEF Register, Insert, NoEntry, Sets, SessionInv, TypeOK
  <2>2. /\ offered[t] = NoOtp /\ stored = NoOtp /\ keychain = NoEntry
        /\ \A u \in Tasks :
             pc[u] \in {"none", "type", "new keys", "done"} /\ ~Custodian(u)
    BY <2>1 DEF SessionInv, LinksInv, PasswordInv
  <2>3. \A u \in Tasks : pc[u] # "none" /\ offered[u] = NoOtp => u = t
    BY <2>1, <2>2 DEF SessionInv, LinksInv
  <2>4. LinksInv'
    BY <2>1 DEF Sets, SessionInv, LinksInv
  <2>5. PasswordInv'
    BY <2>1, <2>2, <2>3, TaskNames DEF Sets, PasswordInv, Reconnecting
  <2>6. HeldInv'
    BY <2>1 DEF Sets, SessionInv, HeldInv, HeldBy, Reconnecting, Holding
  <2>7. EntryInv'
    BY <2>1, <2>2 DEF Sets, EntryInv, Reconnecting
  <2>8. CustodyInv'
    <3>1. \A u \in Tasks : Custodian(u)' <=> u = t
      BY <2>1, <2>2 DEF Sets, Custodian
    <3>2. oneshot'[t] # "closed" /\ \A u \in Tasks : pc'[u] # "await"
      BY <2>1, <2>2 DEF SessionInv, HeldInv, HeldBy, Sets
    <3> QED
      BY <3>1, <3>2, <2>1 DEF CustodyInv, Custodian
  <2>9. KeptInv'
    BY <2>1, TaskNames DEF Sets, SessionInv, KeptInv, Reconnecting
  <2>10. ChannelsInv'
    BY <2>1, ChannelsKept DEF Sets, Source
  <2> QED
    BY <2>4, <2>5, <2>6, <2>7, <2>8, <2>9, <2>10
<1>3. ASSUME NEW t \in Tasks, Accept(t) PROVE Goal
  <2>1. /\ pc[t] = "type" /\ offered[t] # NoOtp
        /\ keychain # NoEntry /\ keychain.otp = offered[t]
        /\ Sets(pc, pc', t, "await")
        /\ Sets(from, from', t, keychain.rx)
        /\ keychain' = NoEntry
        /\ UNCHANGED <<client, offered, held, oneshot, connections, channels, saved,
                       signalled, stored, wasShutdown>>
    BY <1>3, TaskNames DEF Accept, RemoveIfHasKey, Sets, SessionInv, TypeOK
  <2>2. LinksInv'
    BY <2>1 DEF Sets, SessionInv, LinksInv
  <2>3. PasswordInv'
    BY <2>1, TaskNames DEF Sets, SessionInv, PasswordInv, Reconnecting, Custodian
  <2>4. HeldInv'
    BY <2>1 DEF Sets, SessionInv, HeldInv, HeldBy, Reconnecting, Holding
  <2>5. EntryInv'
    BY <2>1, TaskNames DEF Sets, SessionInv, EntryInv, Reconnecting
  <2>6. CustodyInv'
    <3>1. /\ keychain.rx \in Tasks
          /\ Custodian(keychain.rx) /\ oneshot[keychain.rx] # "closed"
      BY <2>1, TaskNames DEF SessionInv, CustodyInv
    <3>2. \A u \in Tasks : pc'[u] = "await" => u = t
      BY <2>1 DEF SessionInv, EntryInv, Sets, Reconnecting
    <3>3. \A u, v \in Tasks : Custodian(u) /\ Custodian(v) => u = v
      BY DEF SessionInv, CustodyInv
    <3> QED
      BY <3>1, <3>2, <3>3, <2>1 DEF CustodyInv, Custodian, Sets
  <2>7. KeptInv'
    BY <2>1, TaskNames DEF Sets, SessionInv, KeptInv, Reconnecting
  <2>8. ChannelsInv'
    BY <2>1, ChannelsKept DEF Sets, Source
  <2> QED
    BY <2>2, <2>3, <2>4, <2>5, <2>6, <2>7, <2>8
<1>4. ASSUME NEW t \in Tasks, Reject(t) PROVE Goal
  <2>1. /\ pc[t] \in {"type", "new keys"}
        /\ Sets(pc, pc', t, "done")
        /\ Sets(saved, saved', t, "dropped")
        /\ Sets(oneshot, oneshot', t, "closed")
        /\ signalled' = signalled \ {t}
        /\ UNCHANGED <<client, offered, from, held, keychain, connections, channels,
                       stored, wasShutdown>>
    BY <1>4, TaskNames DEF Reject, Abandon, Sets, SessionInv, TypeOK
  <2>2. LinksInv'
    BY <2>1 DEF Sets, SessionInv, LinksInv
  <2>3. PasswordInv'
    BY <2>1, TaskNames DEF Sets, SessionInv, PasswordInv, Reconnecting, Custodian
  <2>4. HeldInv'
    BY <2>1 DEF Sets, SessionInv, HeldInv, HeldBy, Reconnecting, Holding
  <2>5. EntryInv'
    BY <2>1, TaskNames DEF Sets, SessionInv, EntryInv, Reconnecting
  <2>6. CustodyInv'
    BY <2>1, TaskNames, CustodyKept DEF Sets, SessionInv, HeldInv, HeldBy, Custodian,
       Holding, Reconnecting
  <2>7. KeptInv'
    BY <2>1, TaskNames DEF Sets, SessionInv, KeptInv, Reconnecting
  <2>8. ChannelsInv'
    BY <2>1, ChannelsKept DEF Sets, Source
  <2> QED
    BY <2>2, <2>3, <2>4, <2>5, <2>6, <2>7, <2>8
<1>5. ASSUME NEW t \in Tasks, AcquireBackup(t) PROVE Goal
  <2>1. /\ pc[t] = "await" /\ oneshot[from[t]] # "empty"
        /\ Sets(pc, pc', t, "exchange")
        /\ Sets(held, held', t, IF oneshot[from[t]] = "session"
             THEN "session" ELSE "fresh")
        /\ Sets(oneshot, oneshot', from[t], "closed")
        /\ UNCHANGED <<client, offered, from, keychain, connections, channels, saved,
                       signalled, stored, wasShutdown>>
    BY <1>5, TaskNames DEF AcquireBackup, BackupAvailable, Write, Sets, SessionInv,
       TypeOK
  <2>2. /\ from[t] \in Tasks /\ from[t] # t /\ oneshot[from[t]] = "session"
        /\ pc[from[t]] = "done" /\ keychain = NoEntry
    <3>1. from[t] \in Tasks /\ oneshot[from[t]] # "closed"
      BY <2>1, TaskNames DEF SessionInv, CustodyInv
    <3>2. oneshot[from[t]] = "session" /\ pc[from[t]] = "done"
      BY <3>1, <2>1 DEF SessionInv, HeldInv, HeldBy
    <3> QED
      BY <3>1, <3>2, <2>1 DEF SessionInv, EntryInv, Reconnecting
  <2>3. /\ \A u \in Tasks : Custodian(u) => u = from[t]
        /\ \A u \in Tasks : pc[u] = "await" => u = t
    BY <2>1, <2>2 DEF SessionInv, EntryInv, CustodyInv, Custodian, Reconnecting
  <2>4. /\ Sets(pc, pc', t, "exchange") /\ UNCHANGED <<client,
                                                       offered>> /\ pc[t] # "none"
    BY <2>1
  <2>5. Sets(held, held', t, "session")
    BY <2>1, <2>2
  <2>6. LinksInv'
    BY <2>4 DEF Sets, SessionInv, LinksInv
  <2>7. PasswordInv'
    BY <2>1, TaskNames DEF Sets, SessionInv, PasswordInv, Reconnecting, Custodian
  <2>8. HeldInv'
    <3> USE DEF HeldInv, HeldBy, Reconnecting, Holding
    <3>1. HeldInv
      BY DEF SessionInv
    <3>2. /\ oneshot[t] = "empty" /\ oneshot'[t] = "empty" /\ held'[t] = "session"
          /\ pc'[t] = "exchange"
      BY <3>1, <2>1, <2>2, <2>5 DEF Sets
    <3>3. /\ oneshot'[from[t]] = "closed" /\ held'[from[t]] = "none"
          /\ pc'[from[t]] = "done"
      BY <3>1, <2>1, <2>2, <2>5 DEF Sets
    <3>4. \A u \in Tasks \ {t, from[t]} :
            oneshot'[u] = oneshot[u] /\ held'[u] = held[u] /\ pc'[u] = pc[u]
      BY <2>1, <2>2, <2>5 DEF Sets
    <3>5. HeldBy(t)'
      BY <3>2
    <3>6. ASSUME NEW u \in Tasks, u = from[t] PROVE HeldBy(u)'
      BY <3>3, <3>6
    <3>7. ASSUME NEW u \in Tasks \ {t, from[t]} PROVE HeldBy(u)'
      BY <3>1, <3>4
    <3> HIDE DEF HeldBy
    <3> QED
      BY <3>5, <3>6, <3>7
  <2>9. EntryInv'
    BY <2>1, TaskNames DEF Sets, SessionInv, EntryInv, Reconnecting
  <2>10. CustodyInv'
    <3>1. \A u \in Tasks : Custodian(u)' <=> u = t
      <4>1. Sets(oneshot, oneshot', from[t], "closed")
        BY <2>1
      <4>2. \A u \in Tasks : ~(oneshot'[u] = "session")
        BY <4>1, <2>2, <2>3 DEF Sets, Custodian
      <4>3. \A u \in Tasks : held[u] # "session"
        <5>1. held[from[t]] = "none"
          BY <2>2 DEF SessionInv, HeldInv, HeldBy, Holding
        <5> QED
          BY <5>1, <2>3 DEF Custodian
      <4> QED
        BY <4>2, <4>3, <2>5 DEF Sets, Custodian
    <3>2. keychain' = NoEntry /\ \A u \in Tasks : pc'[u] # "await"
      BY <2>1, <2>2, <2>3 DEF Sets
    <3> QED
      BY <3>1, <3>2 DEF CustodyInv, Custodian
  <2>11. KeptInv'
    BY <2>1, TaskNames DEF Sets, SessionInv, KeptInv, Reconnecting
  <2>12. ChannelsInv'
    BY <2>1, ChannelsKept DEF Sets, Source
  <2> QED
    BY <2>6, <2>7, <2>8, <2>9, <2>10, <2>11, <2>12
<1>6. ASSUME NEW t \in Tasks, ServerExchange(t) PROVE Goal
  <2>1. /\ pc[t] = "exchange"
        /\ Sets(pc, pc', t, "sync")
        /\ UNCHANGED <<client, offered, from, held, oneshot, keychain, connections,
                       channels, saved, signalled, stored, wasShutdown>>
    BY <1>6, TaskNames DEF ServerExchange, Write, Sets, SessionInv, TypeOK
  <2>2. LinksInv'
    BY <2>1 DEF Sets, SessionInv, LinksInv
  <2>3. PasswordInv'
    BY <2>1, TaskNames DEF Sets, SessionInv, PasswordInv, Reconnecting, Custodian
  <2>4. HeldInv'
    BY <2>1 DEF Sets, SessionInv, HeldInv, HeldBy, Reconnecting, Holding
  <2>5. EntryInv'
    BY <2>1, TaskNames DEF Sets, SessionInv, EntryInv, Reconnecting
  <2>6. CustodyInv'
    BY <2>1, TaskNames, CustodyKept DEF Sets, SessionInv, HeldInv, HeldBy, Custodian,
       Holding, Reconnecting
  <2>7. KeptInv'
    BY <2>1, TaskNames DEF Sets, SessionInv, KeptInv, Reconnecting
  <2>8. ChannelsInv'
    BY <2>1, ChannelsKept DEF Sets, Source
  <2> QED
    BY <2>2, <2>3, <2>4, <2>5, <2>6, <2>7, <2>8
<1>7. ASSUME NEW t \in Tasks, RestoreOnFailure(t) PROVE Goal
  <2>1. /\ pc[t] \in {"exchange", "sync"}
        /\ Sets(pc, pc', t, "done")
        /\ Sets(saved, saved', t, "dropped")
        /\ Sets(oneshot, oneshot', t, held[t])
        /\ Sets(held, held', t, "none")
        /\ signalled' = signalled \ {t}
        /\ keychain' # NoEntry /\ keychain'.otp = offered[t] /\ keychain'.rx = t
        /\ UNCHANGED <<client, offered, from, connections, channels, stored,
                       wasShutdown>>
    BY <1>7, TaskNames DEF RestoreOnFailure, Abandon, PutBack, Insert, NoEntry, Sets,
       SessionInv, TypeOK
  <2>2. held[t] = "session" /\ Custodian(t)
    BY <2>1 DEF SessionInv, HeldInv, HeldBy, Holding, Custodian
  <2>3. /\ \A u \in Tasks : Custodian(u) => u = t
        /\ \A u \in Tasks : pc[u] \in Reconnecting => u = t
    BY <2>1, <2>2 DEF SessionInv, EntryInv, CustodyInv, Reconnecting
  <2>4. LinksInv'
    BY <2>1 DEF Sets, SessionInv, LinksInv
  <2>5. PasswordInv'
    BY <2>1, TaskNames DEF Sets, SessionInv, PasswordInv, Reconnecting, Custodian
  <2>6. HeldInv'
    <3> USE DEF HeldInv, HeldBy, Reconnecting, Holding
    <3>1. HeldInv
      BY DEF SessionInv
    <3>2. /\ Sets(oneshot, oneshot', t, "session") /\ Sets(held, held', t, "none")
          /\ Sets(pc, pc', t, "done")
      BY <2>1, <2>2
    <3> QED
      BY <3>1, <3>2 DEF Sets
  <2>7. EntryInv'
    BY <2>1, TaskNames DEF Sets, SessionInv, EntryInv, Reconnecting
  <2>8. CustodyInv'
    <3>1. \A u \in Tasks : Custodian(u)' <=> u = t
      BY <2>1, <2>2, <2>3 DEF Sets, Custodian
    <3>2. oneshot'[t] = "session" /\ \A u \in Tasks : pc'[u] # "await"
      BY <2>1, <2>2, <2>3 DEF Sets, Reconnecting
    <3> QED
      BY <3>1, <3>2, <2>1 DEF CustodyInv, Custodian
  <2>9. KeptInv'
    BY <2>1, TaskNames DEF Sets, SessionInv, KeptInv, Reconnecting
  <2>10. ChannelsInv'
    BY <2>1, ChannelsKept DEF Sets, Source
  <2> QED
    BY <2>4, <2>5, <2>6, <2>7, <2>8, <2>9, <2>10
<1>8. ASSUME NEW t \in Tasks, Establish(t) PROVE Goal
  <2>1. /\ pc[t] = "sync"
        /\ Sets(pc, pc', t, "established")
        /\ keychain' # NoEntry /\ keychain'.otp = t /\ keychain'.rx = t
        /\ stored' = t
        /\ UNCHANGED <<client, offered, from, held, oneshot, connections, channels,
                       saved, signalled, wasShutdown>>
    BY <1>8, TaskNames DEF Establish, StoreNewOtp, Insert, NoEntry, Sets, SessionInv,
       TypeOK
  <2>2. /\ held[t] = "session" /\ Custodian(t) /\ oneshot[t] = "empty"
        /\ stored # NoOtp
    BY <2>1 DEF SessionInv, HeldInv, HeldBy, PasswordInv, Holding, Custodian,
       Reconnecting
  <2>3. /\ \A u \in Tasks : Custodian(u) => u = t
        /\ \A u \in Tasks : pc[u] \in Reconnecting => u = t
    BY <2>1, <2>2 DEF SessionInv, EntryInv, CustodyInv, Reconnecting
  <2>4. LinksInv'
    BY <2>1 DEF Sets, SessionInv, LinksInv
  <2>5. PasswordInv'
    BY <2>1, <2>2, <2>3, TaskNames DEF Sets, SessionInv, PasswordInv, Reconnecting
  <2>6. HeldInv'
    BY <2>1 DEF Sets, SessionInv, HeldInv, HeldBy, Reconnecting, Holding
  <2>7. EntryInv'
    BY <2>1, TaskNames DEF Sets, SessionInv, EntryInv, Reconnecting
  <2>8. CustodyInv'
    <3>1. \A u \in Tasks : Custodian(u)' <=> u = t
      BY <2>1, <2>2, <2>3 DEF Custodian
    <3>2. oneshot'[t] # "closed" /\ \A u \in Tasks : pc'[u] # "await"
      BY <2>1, <2>2, <2>3 DEF Sets, Reconnecting
    <3> QED
      BY <3>1, <3>2, <2>1 DEF CustodyInv, Custodian
  <2>9. KeptInv'
    BY <2>1, TaskNames DEF Sets, SessionInv, KeptInv, Reconnecting
  <2>10. ChannelsInv'
    BY <2>1, ChannelsKept DEF Sets, Source
  <2> QED
    BY <2>4, <2>5, <2>6, <2>7, <2>8, <2>9, <2>10
<1>9. ASSUME NEW t \in Tasks, OnConnectFails(t) PROVE Goal
  <2>1. /\ pc[t] = "established"
        /\ Sets(pc, pc', t, "done")
        /\ Sets(saved, saved', t, "dropped")
        /\ Sets(oneshot, oneshot', t, IF oneshot[t] = "closed"
             THEN "closed" ELSE held[t])
        /\ Sets(held, held', t, "none")
        /\ signalled' = signalled \ {t}
        /\ UNCHANGED <<client, offered, from, keychain, connections, channels, stored,
                       wasShutdown>>
    BY <1>9, TaskNames DEF OnConnectFails, Abandon, DropConnection, Sets, SessionInv,
       TypeOK
  <2>2. LinksInv'
    BY <2>1 DEF Sets, SessionInv, LinksInv
  <2>3. PasswordInv'
    BY <2>1, TaskNames DEF Sets, SessionInv, PasswordInv, Reconnecting, Custodian
  <2>4. HeldInv'
    BY <2>1 DEF Sets, SessionInv, HeldInv, HeldBy, Reconnecting, Holding
  <2>5. EntryInv'
    BY <2>1, TaskNames DEF Sets, SessionInv, EntryInv, Reconnecting
  <2>6. CustodyInv'
    <3>1. held[t] = "session"
      BY <2>1 DEF SessionInv, HeldInv, HeldBy, Holding
    <3>2. \A u \in Tasks : Custodian(u)' => Custodian(u)
      BY <3>1, <2>1 DEF Custodian, Sets
    <3>3. \A u \in Tasks : Custodian(u) /\ oneshot[u] # "closed" =>
            Custodian(u)' /\ oneshot'[u] # "closed"
      BY <3>1, <2>1 DEF Custodian, Sets
    <3>4. \A u \in Tasks : pc'[u] = "await" => pc[u] = "await" /\ from'[u] = from[u]
      BY <2>1 DEF Sets
    <3> QED
      BY <3>2, <3>3, <3>4, <2>1, CustodyKept
  <2>7. KeptInv'
    BY <2>1, TaskNames DEF Sets, SessionInv, KeptInv, Reconnecting
  <2>8. ChannelsInv'
    BY <2>1, ChannelsKept DEF Sets, Source
  <2> QED
    BY <2>2, <2>3, <2>4, <2>5, <2>6, <2>7, <2>8
<1>10. ASSUME NEW t \in Tasks, NewChannels(t) PROVE Goal
  <2>1. /\ pc[t] = "established" /\ connections = NoTask
        /\ \A u \in Tasks : pc[u] # "handover"
        /\ Sets(pc, pc', t, "loop")
        /\ Sets(channels, channels', t, t)
        /\ connections' = t
        /\ UNCHANGED <<client, offered, from, held, oneshot, keychain, saved,
                       signalled, stored, wasShutdown>>
    BY <1>10, TaskNames DEF NewChannels, LockFree, Sets, SessionInv, TypeOK
  <2>2. LinksInv'
    BY <2>1 DEF Sets, SessionInv, LinksInv
  <2>3. PasswordInv'
    BY <2>1, TaskNames DEF Sets, SessionInv, PasswordInv, Reconnecting, Custodian
  <2>4. HeldInv'
    BY <2>1 DEF Sets, SessionInv, HeldInv, HeldBy, Reconnecting, Holding
  <2>5. EntryInv'
    BY <2>1, TaskNames DEF Sets, SessionInv, EntryInv, Reconnecting
  <2>6. CustodyInv'
    BY <2>1, TaskNames, CustodyKept DEF Sets, SessionInv, HeldInv, HeldBy, Custodian,
       Holding, Reconnecting
  <2>7. KeptInv'
    BY <2>1, TaskNames DEF Sets, SessionInv, KeptInv, Reconnecting
  <2>8. ChannelsInv'
    <3>1. \A u \in Tasks : channels[u] = NoTask
      BY <2>1 DEF SessionInv, ChannelsInv
    <3> QED
      BY <3>1, <2>1, TaskNames DEF ChannelsInv, Source, SameChannels, Sets
  <2> QED
    BY <2>2, <2>3, <2>4, <2>5, <2>6, <2>7, <2>8
<1>11. ASSUME NEW t \in Tasks, Handover(t) PROVE Goal
  <2>1. /\ pc[t] = "established" /\ connections # NoTask
        /\ \A u \in Tasks : pc[u] # "handover"
        /\ Sets(pc, pc', t, "handover")
        /\ Sets(from, from', t, connections)
        /\ connections' = NoTask
        /\ UNCHANGED <<client, offered, held, oneshot, keychain, channels, saved,
                       signalled, stored, wasShutdown>>
    BY <1>11, TaskNames DEF Handover, LockFree, Sets, SessionInv, TypeOK
  <2>2. LinksInv'
    BY <2>1 DEF Sets, SessionInv, LinksInv
  <2>3. PasswordInv'
    BY <2>1, TaskNames DEF Sets, SessionInv, PasswordInv, Reconnecting, Custodian
  <2>4. HeldInv'
    BY <2>1 DEF Sets, SessionInv, HeldInv, HeldBy, Reconnecting, Holding
  <2>5. EntryInv'
    BY <2>1, TaskNames DEF Sets, SessionInv, EntryInv, Reconnecting
  <2>6. CustodyInv'
    BY <2>1, TaskNames, CustodyKept DEF Sets, SessionInv, HeldInv, HeldBy, Custodian,
       Holding, Reconnecting
  <2>7. KeptInv'
    BY <2>1, TaskNames DEF Sets, SessionInv, KeptInv, Reconnecting
  <2>8. ChannelsInv'
    <3>1. connections \in Tasks /\ connections # t /\ Source(connections)
      BY <2>1, TaskNames DEF SessionInv, ChannelsInv, Source
    <3>2. from'[t] \in Tasks /\ Source(from[t])'
      BY <3>1, <2>1 DEF Source, Sets
    <3>3. \A u \in Tasks : pc'[u] = "handover" <=> u = t
      BY <2>1 DEF Sets
    <3>4. SameChannels'
      BY <2>1 DEF SessionInv, ChannelsInv, SameChannels
    <3> QED
      BY <3>2, <3>3, <3>4, <2>1 DEF ChannelsInv
  <2> QED
    BY <2>2, <2>3, <2>4, <2>5, <2>6, <2>7, <2>8
<1>12. ASSUME NEW t \in Tasks, TakeChannels(t) PROVE Goal
  <2>1. /\ pc[t] = "handover" /\ saved[from[t]] # "empty"
        /\ Sets(pc, pc', t, "loop")
        /\ Sets(channels, channels', t, IF saved[from[t]] = "dropped"
             THEN t ELSE channels[from[t]])
        /\ connections' = t
        /\ UNCHANGED <<client, offered, from, held, oneshot, keychain, saved,
                       signalled, stored, wasShutdown>>
    BY <1>12, TaskNames DEF TakeChannels, Sets, SessionInv, TypeOK
  <2>2. LinksInv'
    BY <2>1 DEF Sets, SessionInv, LinksInv
  <2>3. PasswordInv'
    BY <2>1, TaskNames DEF Sets, SessionInv, PasswordInv, Reconnecting, Custodian
  <2>4. HeldInv'
    BY <2>1 DEF Sets, SessionInv, HeldInv, HeldBy, Reconnecting, Holding
  <2>5. EntryInv'
    BY <2>1, TaskNames DEF Sets, SessionInv, EntryInv, Reconnecting
  <2>6. CustodyInv'
    BY <2>1, TaskNames, CustodyKept DEF Sets, SessionInv, HeldInv, HeldBy, Custodian,
       Holding, Reconnecting
  <2>7. KeptInv'
    BY <2>1, TaskNames DEF Sets, SessionInv, KeptInv, Reconnecting
  <2>8. ChannelsInv'
    <3>1. from[t] \in Tasks /\ from[t] # t /\ Source(from[t])
      BY <2>1, TaskNames DEF SessionInv, ChannelsInv, Source
    <3>2. \A u \in Tasks : pc[u] \in Holding => u = t
      BY <2>1 DEF SessionInv, HeldInv, HeldBy, CustodyInv, Custodian, Holding
    <3>3. saved[from[t]] = "channels" /\ channels[from[t]] # NoTask
      BY <3>1, <3>2 DEF Source, Holding
    <3>4. Sets(channels, channels', t, channels[from[t]])
      BY <3>3, <2>1 DEF Sets
    <3>5. connections' = t /\ Source(t)' /\ \A u \in Tasks : pc'[u] # "handover"
      BY <3>2, <3>3, <3>4, <2>1 DEF Source, Holding, Sets
    <3>6. SameChannels'
      BY <3>1, <3>3, <3>4 DEF SessionInv, ChannelsInv, SameChannels, Sets
    <3> QED
      BY <3>5, <3>6, TaskNames DEF ChannelsInv, Source
  <2> QED
    BY <2>2, <2>3, <2>4, <2>5, <2>6, <2>7, <2>8
<1>13. ASSUME NEW t \in Tasks, LoopEnds(t) PROVE Goal
  <2>1. /\ pc[t] = "loop"
        /\ Sets(pc, pc', t, "closing")
        /\ Sets(saved, saved', t, "channels")
        /\ signalled' = signalled \ {t}
        /\ UNCHANGED <<client, offered, from, held, oneshot, keychain, connections,
                       channels, stored, wasShutdown>>
    BY <1>13, TaskNames DEF LoopEnds, SendChannelsBack, Sets, SessionInv, TypeOK
  <2>2. LinksInv'
    BY <2>1 DEF Sets, SessionInv, LinksInv
  <2>3. PasswordInv'
    BY <2>1, TaskNames DEF Sets, SessionInv, PasswordInv, Reconnecting, Custodian
  <2>4. HeldInv'
    BY <2>1 DEF Sets, SessionInv, HeldInv, HeldBy, Reconnecting, Holding
  <2>5. EntryInv'
    BY <2>1, TaskNames DEF Sets, SessionInv, EntryInv, Reconnecting
  <2>6. CustodyInv'
    BY <2>1, TaskNames, CustodyKept DEF Sets, SessionInv, HeldInv, HeldBy, Custodian,
       Holding, Reconnecting
  <2>7. KeptInv'
    BY <2>1, TaskNames DEF Sets, SessionInv, KeptInv, Reconnecting
  <2>8. ChannelsInv'
    BY <2>1, ChannelsKept DEF Sets, Source
  <2> QED
    BY <2>2, <2>3, <2>4, <2>5, <2>6, <2>7, <2>8
<1>14. ASSUME NEW t \in Tasks, Close(t) PROVE Goal
  <2>1. /\ pc[t] = "closing"
        /\ Sets(pc, pc', t, "done")
        /\ Sets(oneshot, oneshot', t, IF oneshot[t] = "closed"
             THEN "closed" ELSE held[t])
        /\ Sets(held, held', t, "none")
        /\ UNCHANGED <<client, offered, from, keychain, connections, channels, saved,
                       signalled, stored, wasShutdown>>
    BY <1>14, TaskNames DEF Close, DropConnection, Sets, SessionInv, TypeOK
  <2>2. LinksInv'
    BY <2>1 DEF Sets, SessionInv, LinksInv
  <2>3. PasswordInv'
    BY <2>1, TaskNames DEF Sets, SessionInv, PasswordInv, Reconnecting, Custodian
  <2>4. HeldInv'
    BY <2>1 DEF Sets, SessionInv, HeldInv, HeldBy, Reconnecting, Holding
  <2>5. EntryInv'
    BY <2>1, TaskNames DEF Sets, SessionInv, EntryInv, Reconnecting
  <2>6. CustodyInv'
    <3>1. held[t] = "session"
      BY <2>1 DEF SessionInv, HeldInv, HeldBy, Holding
    <3>2. \A u \in Tasks : Custodian(u)' => Custodian(u)
      BY <3>1, <2>1 DEF Custodian, Sets
    <3>3. \A u \in Tasks : Custodian(u) /\ oneshot[u] # "closed" =>
            Custodian(u)' /\ oneshot'[u] # "closed"
      BY <3>1, <2>1 DEF Custodian, Sets
    <3>4. \A u \in Tasks : pc'[u] = "await" => pc[u] = "await" /\ from'[u] = from[u]
      BY <2>1 DEF Sets
    <3> QED
      BY <3>2, <3>3, <3>4, <2>1, CustodyKept
  <2>7. KeptInv'
    BY <2>1, TaskNames DEF Sets, SessionInv, KeptInv, Reconnecting
  <2>8. ChannelsInv'
    BY <2>1, ChannelsKept DEF Sets, Source
  <2> QED
    BY <2>2, <2>3, <2>4, <2>5, <2>6, <2>7, <2>8
<1>15. ASSUME NEW t \in Tasks, CancelServer(t) PROVE Goal
  <2>1. /\ t \in signalled
        /\ pc[t] \in {"type", "new keys", "await", "exchange", "sync"}
        /\ Sets(pc, pc', t, "done")
        /\ Sets(saved, saved', t, "dropped")
        /\ Sets(held, held', t, "none")
        /\ \A u \in Tasks : oneshot'[u] =
             IF u = t \/ (pc[t] = "await" /\ u = from[t]) THEN "closed" ELSE oneshot[u]
        /\ signalled' = signalled \ {t}
        /\ UNCHANGED <<client, offered, from, keychain, connections, channels, stored,
                       wasShutdown>>
    BY <1>15, TaskNames DEF CancelServer, Abandon, Sets, SessionInv, TypeOK
  <2>2. pc[t] = "await" => /\ from[t] \in Tasks
                          /\ pc[from[t]] \in {"established", "handover", "loop",
                               "closing", "done"}
    <3> SUFFICES ASSUME pc[t] = "await"
                 PROVE  /\ from[t] \in Tasks
                        /\ pc[from[t]] \in {"established", "handover", "loop",
                             "closing", "done"}
      OBVIOUS
    <3>1. from[t] \in Tasks /\ Custodian(from[t])
      BY TaskNames DEF SessionInv, CustodyInv
    <3>2. pc[from[t]] \in Holding \union {"done"}
      BY <3>1 DEF SessionInv, HeldInv, HeldBy, Custodian
    <3>3. pc[from[t]] \in Reconnecting => from[t] = t
      BY <3>1 DEF SessionInv, EntryInv, Reconnecting
    <3> QED
      BY <3>1, <3>2, <3>3 DEF Holding, Reconnecting
  <2>3. /\ Sets(pc, pc', t, "done") /\ UNCHANGED <<client, offered>> /\ pc[t] # "none"
    BY <2>1
  <2>4. LinksInv'
    BY <2>3 DEF Sets, SessionInv, LinksInv
  <2>5. PasswordInv'
    BY <2>1, TaskNames DEF Sets, SessionInv, PasswordInv, Reconnecting, Custodian
  <2>6. HeldInv'
    <3> USE DEF HeldInv, HeldBy, Reconnecting, Holding
    <3>1. HeldInv
      BY DEF SessionInv
    <3>2. /\ Sets(pc, pc', t, "done") /\ Sets(held, held', t, "none")
          /\ \A u \in Tasks : \/ oneshot'[u] = oneshot[u] /\ u # t
                              \/ /\ oneshot'[u] = "closed"
                                 /\ \/ u = t
                                    \/ pc[u] \in {"established", "handover", "loop",
                                                  "closing", "done"}
      BY <2>1, <2>2
    <3> QED
      BY <3>1, <3>2 DEF Sets
  <2>7. EntryInv'
    BY <2>1, TaskNames DEF Sets, SessionInv, EntryInv, Reconnecting
  <2>8. CustodyInv'
    <3>1. \A u \in Tasks : Custodian(u)' => Custodian(u)
      BY <2>1 DEF Custodian, Sets
    <3>2. \A u \in Tasks : pc'[u] = "await" =>
            u # t /\ pc[u] = "await" /\ from'[u] = from[u]
      BY <2>1 DEF Sets
    <3>3. ASSUME NEW u \in Tasks, Custodian(u), oneshot[u] # "closed"
          PROVE  \/ Custodian(u)' /\ oneshot'[u] # "closed"
                 \/ keychain = NoEntry /\ \A v \in Tasks : pc'[v] # "await"
      <4>1. CASE pc[t] \in Reconnecting
        BY <4>1, <3>2 DEF SessionInv, EntryInv, Reconnecting
      <4>2. CASE pc[t] \notin Reconnecting
        <5>1. u # t
          BY <4>2, <3>3, <2>1 DEF SessionInv, HeldInv, HeldBy, Custodian, Holding,
             Reconnecting
        <5> QED
          BY <5>1, <4>2, <3>3, <2>1 DEF Custodian, Sets, Reconnecting
      <4> QED
        BY <4>1, <4>2
    <3> QED
      BY <3>1, <3>2, <3>3, <2>1, CustodyKept
  <2>9. KeptInv'
    BY <2>1, TaskNames DEF Sets, SessionInv, KeptInv, Reconnecting
  <2>10. ChannelsInv'
    BY <2>1, ChannelsKept DEF Sets, Source
  <2> QED
    BY <2>4, <2>5, <2>6, <2>7, <2>8, <2>9, <2>10
<1>16. ASSUME NEW t \in Tasks, OpenLink(t),
              \/ client.pc = "new" /\ t = First
              \/ client.pc = "down" /\ t = client.task + 1
       PROVE  Goal
  <2>1. /\ Sets(pc, pc', t, "type")
        /\ Sets(offered, offered', t, client.otp)
        /\ client'.pc = "exchange" /\ client'.otp = client.otp /\ client'.task = t
        /\ UNCHANGED <<from, held, oneshot, keychain, connections, channels, saved,
                       signalled, stored, wasShutdown>>
    BY <1>16 DEF OpenLink, Sets, SessionInv, TypeOK
  <2>2. client.task \in Nat /\ client.task < t /\ t \in Nat
    <3>1. t \in Nat /\ t > 0
      BY DEF Tasks
    <3>2. client.pc = "new" => client.task = 0
      BY DEF SessionInv, LinksInv, NoTask
    <3>3. client.task \in Nat
      BY TaskNames
    <3> QED
      BY <1>16, <3>1, <3>2, <3>3
  <2>3. pc[t] = "none"
    <3>1. pc[t] # "none" => t <= client.task
      BY DEF SessionInv, LinksInv
    <3> QED
      BY <2>2, <3>1
  <2>4. client.otp = NoOtp => client.pc = "new" /\ t = First /\ stored = NoOtp
    BY <1>16 DEF SessionInv, LinksInv
  <2>5. LinksInv'
    <3>1. \A u \in Tasks : pc'[u] # "none" => u <= client'.task
      <4> SUFFICES ASSUME NEW u \in Tasks, pc'[u] # "none", u # t PROVE u <= t
        BY <2>1, <2>2
      <4>1. u <= client.task /\ u \in Nat
        <5>1. pc[u] # "none"
          BY <2>1 DEF Sets
        <5>2. u <= client.task
          BY <5>1 DEF SessionInv, LinksInv
        <5> QED
          BY <5>2 DEF Tasks
      <4> QED
        BY <2>2, <4>1
    <3>2. \A u \in Tasks : pc'[u] # "none" /\ offered'[u] = NoOtp => u = First
      BY <2>1, <2>4 DEF Sets, SessionInv, LinksInv
    <3>3. \A u \in Tasks : pc'[u] = "new keys" => offered'[u] = NoOtp
      BY <2>1 DEF Sets, SessionInv, LinksInv
    <3> QED
      BY <3>1, <3>2, <3>3, <2>1, TaskNames DEF LinksInv
  <2>6. PasswordInv'
    BY <2>1, <2>3, <2>4, TaskNames DEF Sets, SessionInv, PasswordInv, Reconnecting,
       Custodian
  <2>7. HeldInv'
    BY <2>1, <2>3 DEF Sets, SessionInv, HeldInv, HeldBy, Reconnecting, Holding
  <2>8. EntryInv'
    BY <2>1 DEF Sets, SessionInv, EntryInv, Reconnecting
  <2>9. CustodyInv'
    BY <2>1, CustodyKept DEF Sets, Custodian
  <2>10. KeptInv'
    BY <2>1, <2>3 DEF Sets, SessionInv, KeptInv, Reconnecting
  <2>11. ChannelsInv'
    BY <2>1, <2>3, ChannelsKept DEF Sets, Source
  <2> QED
    BY <2>5, <2>6, <2>7, <2>8, <2>9, <2>10, <2>11
<1>17. CASE ClientConnect \/ ClientReconnect
  <2>1. CASE ClientConnect
    <3>1. First \in Tasks /\ OpenLink(First) /\ client.pc = "new"
      BY <2>1, TaskNames DEF ClientConnect
    <3> QED
      BY <3>1, <1>16
  <2>2. CASE ClientReconnect
    <3>1. client.task + 1 \in Tasks
      <4>1. client.task \in Nat /\ client.task < MaxTasks /\ MaxTasks \in Nat
        BY <2>2, ReconnectConstants, TaskNames DEF ClientReconnect
      <4> QED
        BY <4>1 DEF Tasks
    <3> QED
      BY <2>2, <3>1, <1>16 DEF ClientReconnect
  <2> QED
    BY <1>17, <2>1, <2>2
<1>18. ASSUME UNCHANGED <<offered, serverVars>>, LinksInv' PROVE Goal
  <2>1. UNCHANGED <<offered, pc, from, held, oneshot, keychain, connections, channels,
                    saved, signalled, stored, wasShutdown>>
    BY <1>18 DEF serverVars
  <2>2. PasswordInv' /\ EntryInv' /\ KeptInv'
    BY <2>1 DEF SessionInv, PasswordInv, EntryInv, KeptInv, Reconnecting, Custodian
  <2>3. HeldInv'
    BY <2>1 DEF SessionInv, HeldInv, HeldBy
  <2>4. CustodyInv'
    BY <2>1, CustodyKept DEF Custodian
  <2>5. ChannelsInv'
    BY <2>1, ChannelsKept DEF Source
  <2> QED
    BY <1>18, <2>2, <2>3, <2>4, <2>5
<1>19. CASE \/ ClientConnected \/ ClientDown \/ ClientExchange \/ ClientSync \/ ClientFail
            \/ \E t \in Tasks : Break(t)
  <2>1. UNCHANGED <<offered, serverVars>>
    BY <1>19, ClientLeavesServerAlone
  <2>2. /\ client'.task = client.task /\ (client.pc = "new" <=> client'.pc = "new")
        /\ client.pc = "new" => client' = client
        /\ client'.otp = NoOtp => client'.pc \in {"new", "exchange", "failed"}
    <3>1. CASE ClientConnected \/ ClientSync
      BY <3>1, TaskNames DEF ClientConnected, ClientSync, SessionInv, TypeOK,
         LinksInv, NoTask, NoOtp
    <3>2. CASE ClientDown \/ ClientExchange \/ ClientFail
      BY <3>2 DEF ClientDown, ClientExchange, ClientFail, SessionInv, TypeOK, LinksInv
    <3>3. CASE \E t \in Tasks : Break(t)
      BY <3>3 DEF Break, SessionInv, LinksInv
    <3> QED
      BY <1>19, <3>1, <3>2, <3>3
  <2>3. LinksInv'
    BY <2>1, <2>2 DEF SessionInv, LinksInv, serverVars
  <2> QED
    BY <1>18, <2>1, <2>3
<1>20. CASE Shutdown
  <2>1. /\ wasShutdown'
        /\ UNCHANGED <<client, offered, pc, from, held, oneshot, keychain,
                       connections, channels, saved, stored>>
    BY <1>20 DEF Shutdown
  <2>2. LinksInv' /\ PasswordInv' /\ EntryInv' /\ KeptInv'
    BY <2>1 DEF SessionInv, LinksInv, PasswordInv, EntryInv, KeptInv, Reconnecting,
       Custodian
  <2>3. HeldInv'
    BY <2>1 DEF SessionInv, HeldInv, HeldBy
  <2>4. CustodyInv'
    BY <2>1, CustodyKept DEF Custodian
  <2>5. ChannelsInv'
    BY <2>1, ChannelsKept DEF Source
  <2> QED
    BY <2>2, <2>3, <2>4, <2>5
<1>21. CASE UNCHANGED vars
  <2>1. UNCHANGED <<client, offered, serverVars>>
    BY <1>21 DEF vars, serverVars
  <2>2. LinksInv'
    BY <2>1 DEF SessionInv, LinksInv, serverVars
  <2> QED
    BY <1>18, <2>1, <2>2
<1> QED
  BY <1>1, <1>2, <1>3, <1>4, <1>5, <1>6, <1>7, <1>8, <1>9, <1>10, <1>11, <1>12, <1>13,
     <1>14, <1>15, <1>17, <1>19, <1>20, <1>21
     DEF Next, ClientTask, ServerTask

(* The variables keep their types. *)
LEMMA TypeStep == SessionInv /\ [Next]_vars => TypeOK'
<1> SUFFICES ASSUME SessionInv, [Next]_vars PROVE TypeOK'
  OBVIOUS
<1> USE DEF TypeOK, PCs, Backups
<1>0. TypeOK
  BY DEF SessionInv
<1>1. CASE ClientConnected
  BY <1>0, <1>1 DEF ClientConnected, serverVars, NoOtp, NoTask
<1>2. CASE ClientDown
  BY <1>0, <1>2 DEF ClientDown, serverVars
<1>3. CASE ClientExchange
  <2>1. client.task \in Tasks
    BY <1>3 DEF ClientExchange, SessionInv, LinksInv
  <2>2. stuck' \subseteq Tasks
    <3>1. stuck \subseteq Tasks
      BY <1>0
    <3> HIDE DEF TypeOK
    <3> QED
      BY <1>3, <2>1, <3>1 DEF ClientExchange, MaybeStuck
  <2>3. wire' \in [Tasks -> SUBSET {"server key", "server stats", "client stats"}]
    BY <1>0, <1>3, <2>1 DEF ClientExchange, Write
  <2> QED
    BY <1>0, <1>3, <2>2, <2>3 DEF ClientExchange, serverVars
<1>4. CASE ClientSync
  BY <1>0, <1>4 DEF ClientSync, serverVars, NoOtp, NoTask
<1>5. CASE ClientFail
  BY <1>0, <1>5 DEF ClientFail, serverVars
<1>6. ASSUME NEW t \in Tasks, Break(t) PROVE TypeOK'
  <2>1. breaks' \in Nat
    <3>1. breaks \in Nat
      BY <1>0
    <3> HIDE DEF TypeOK
    <3> QED
      BY <1>6, <3>1 DEF Break
  <2> QED
    BY <1>0, <1>6, <2>1 DEF Break, serverVars
<1>7. ASSUME NEW t \in Tasks, OpenLink(t) PROVE TypeOK'
  BY <1>0, <1>7 DEF OpenLink
<1>8. CASE ClientConnect \/ ClientReconnect
  <2>1. client.task \in Nat /\ client.task < MaxTasks => client.task + 1 \in Tasks
    BY ReconnectConstants DEF Tasks
  <2>2. CASE ClientConnect
    BY <1>7, <2>2, TaskNames DEF ClientConnect
  <2>3. CASE ClientReconnect
    <3>1. client.task + 1 \in Tasks /\ OpenLink(client.task + 1)
      BY <2>1, <2>3, TaskNames DEF ClientReconnect
    <3> HIDE DEF TypeOK
    <3> QED
      BY <1>7, <3>1
  <2> QED
    BY <1>8, <2>2, <2>3
<1>9. ASSUME NEW t \in Tasks, Verify(t) PROVE TypeOK'
  BY <1>0, <1>9 DEF Verify, Write
<1>10. ASSUME NEW t \in Tasks, Register(t) PROVE TypeOK'
  BY <1>0, <1>10 DEF Register, Insert
<1>11. ASSUME NEW t \in Tasks, Accept(t) PROVE TypeOK'
  BY <1>0, <1>11, TaskNames DEF Accept, RemoveIfHasKey, NoEntry
<1>12. ASSUME NEW t \in Tasks, Reject(t) PROVE TypeOK'
  BY <1>0, <1>12 DEF Reject, Abandon
<1>13. ASSUME NEW t \in Tasks, AcquireBackup(t) PROVE TypeOK'
  BY <1>0, <1>13 DEF AcquireBackup, Write, BackupAvailable
<1>14. ASSUME NEW t \in Tasks, ServerExchange(t) PROVE TypeOK'
  <2>1. stuck' \subseteq Tasks
    <3>1. stuck \subseteq Tasks
      BY <1>0
    <3> HIDE DEF TypeOK
    <3> QED
      BY <1>14, <3>1 DEF ServerExchange, MaybeStuck
  <2>2. wire' \in [Tasks -> SUBSET {"server key", "server stats", "client stats"}]
    BY <1>0, <1>14 DEF ServerExchange, Write
  <2> QED
    BY <1>0, <1>14, <2>1, <2>2 DEF ServerExchange
<1>15. ASSUME NEW t \in Tasks, RestoreOnFailure(t) PROVE TypeOK'
  BY <1>0, <1>15 DEF RestoreOnFailure, Abandon, PutBack, Insert
<1>16. ASSUME NEW t \in Tasks, Establish(t) PROVE TypeOK'
  BY <1>0, <1>16 DEF Establish, StoreNewOtp, Insert
<1>17. ASSUME NEW t \in Tasks, OnConnectFails(t) PROVE TypeOK'
  BY <1>0, <1>17 DEF OnConnectFails, DropConnection, Abandon
<1>18. ASSUME NEW t \in Tasks, NewChannels(t) PROVE TypeOK'
  BY <1>0, <1>18 DEF NewChannels, LockFree
<1>19. ASSUME NEW t \in Tasks, Handover(t) PROVE TypeOK'
  BY <1>0, <1>19, TaskNames DEF Handover, LockFree
<1>20. ASSUME NEW t \in Tasks, TakeChannels(t) PROVE TypeOK'
  BY <1>0, <1>20 DEF TakeChannels
<1>21. ASSUME NEW t \in Tasks, LoopEnds(t) PROVE TypeOK'
  BY <1>0, <1>21 DEF LoopEnds, SendChannelsBack
<1>22. ASSUME NEW t \in Tasks, Close(t) PROVE TypeOK'
  BY <1>0, <1>22 DEF Close, DropConnection, LockFree
<1>23. ASSUME NEW t \in Tasks, CancelServer(t) PROVE TypeOK'
  BY <1>0, <1>23 DEF CancelServer, Abandon
<1>24. CASE Shutdown
  BY <1>0, <1>24 DEF Shutdown, Running
<1>25. CASE UNCHANGED vars
  BY <1>0, <1>25 DEF vars
<1> HIDE DEF TypeOK
<1> QED
  BY <1>1, <1>2, <1>3, <1>4, <1>5, <1>6, <1>7, <1>8, <1>9, <1>10, <1>11, <1>12, <1>13,
     <1>14, <1>15, <1>16, <1>17, <1>18, <1>19, <1>20, <1>21, <1>22, <1>23, <1>24, <1>25
     DEF Next, ClientTask, ServerTask

(* The session begins with nothing. *)
LEMMA SessionInit == Init => SessionInv
<1> SUFFICES ASSUME Init PROVE SessionInv
  OBVIOUS
<1>0. NoTask \notin Tasks /\ NoOtp = NoTask /\ NoOtp \notin Tasks
  BY DEF NoTask, NoOtp, Tasks
<1>1. TypeOK
  BY <1>0 DEF Init, TypeOK, PCs, Backups, NoEntry
<1>2. LinksInv /\ PasswordInv /\ EntryInv /\ KeptInv
  BY DEF Init, LinksInv, PasswordInv, EntryInv, KeptInv, Custodian, Reconnecting
<1>3. HeldInv
  BY DEF Init, HeldInv, HeldBy, Holding, Reconnecting
<1>4. CustodyInv
  BY DEF Init, CustodyInv, Custodian
<1>5. ChannelsInv
  BY DEF Init, ChannelsInv, SameChannels
<1> QED
  BY <1>1, <1>2, <1>3, <1>4, <1>5 DEF SessionInv

(* The invariant holds of every behaviour. *)
LEMMA SessionInvariant == Spec => []SessionInv
<1>1. SessionInv /\ [Next]_vars => SessionInv'
  BY SessionStep, TypeStep DEF SessionInv
<1> QED
  BY <1>1, SessionInit, PTL DEF Spec

-----------------------------------------------------------------------------
(* What follows of the session *)

(* A set has at most one element if its elements are equal. *)
LEMMA AtMostOne ==
  ASSUME NEW S, \A x, y \in S : x = y
  PROVE  Cardinality(S) <= 1
<1>1. CASE S = {}
  BY <1>1, FS_EmptySet
<1>2. CASE S # {}
  <2> PICK x \in S : TRUE
    BY <1>2
  <2>1. S = {x}
    OBVIOUS
  <2> QED
    BY <2>1, FS_Singleton
<1> QED
  BY <1>1, <1>2

(* NeverFresh, for any number of reconnects: the fallback of reconnect for a
   missing backup (server/connection.rs) is never taken, because the task that
   accepted a password waits for a task that has the backup. *)
THEOREM BackupIsNeverFresh == Spec => []NeverFresh
<1>1. SessionInv => NeverFresh
  BY DEF SessionInv, HeldInv, HeldBy, NeverFresh
<1> QED
  BY <1>1, SessionInvariant, PTL

(* EntryLeadsToBackup, for any number of reconnects: the keychain names the one
   task that has the backup. *)
THEOREM TheEntryLeadsToTheBackup == Spec => []EntryLeadsToBackup
<1>1. ASSUME SessionInv PROVE EntryLeadsToBackup
  <2>1. \A t \in Custodians : t \in Tasks /\ Custodian(t)
    BY DEF Custodians, Custodian
  <2>2. \A t, u \in Custodians : t = u
    BY <1>1, <2>1 DEF SessionInv, CustodyInv
  <2>3. Cardinality(Custodians) <= 1
    BY <2>2, AtMostOne
  <2>4. ASSUME keychain # NoEntry PROVE Custodians = {keychain.rx}
    <3>1. keychain.rx \in Custodians
      BY <1>1, <2>4, TaskNames DEF SessionInv, CustodyInv, Custodians, Custodian
    <3> QED
      BY <2>2, <3>1
  <2> QED
    BY <2>3, <2>4 DEF EntryLeadsToBackup
<1> QED
  BY <1>1, SessionInvariant, PTL

(* SessionKept, for any number of reconnects: while nobody shuts the server
   down, a registered session can be resumed or is being resumed. *)
THEOREM TheSessionIsKept == Spec => []SessionKept
<1>1. ASSUME SessionInv PROVE SessionKept
  <2> SUFFICES ASSUME stored # NoOtp, ~wasShutdown
               PROVE  /\ Custodians # {}
                      /\ \/ keychain # NoEntry
                         \/ \E t \in Tasks : pc[t] \in {"await", "exchange", "sync"}
    BY DEF SessionKept
  <2>1. keychain # NoEntry \/ \E t \in Tasks : pc[t] \in Reconnecting
    BY <1>1 DEF SessionInv, KeptInv
  <2>2. CASE keychain # NoEntry
    <3>1. keychain.rx \in Tasks /\ Custodian(keychain.rx)
      BY <1>1, <2>2, TaskNames DEF SessionInv, CustodyInv
    <3> QED
      BY <2>2, <3>1 DEF Custodians, Custodian
  <2>3. ASSUME NEW t \in Tasks, pc[t] \in Reconnecting PROVE Custodians # {}
    <3>1. CASE pc[t] = "await"
      <4>1. from[t] \in Tasks /\ Custodian(from[t])
        BY <1>1, <3>1, TaskNames DEF SessionInv, CustodyInv
      <4> QED
        BY <4>1 DEF Custodians, Custodian
    <3>2. CASE pc[t] # "await"
      BY <1>1, <2>3, <3>2
         DEF SessionInv, HeldInv, HeldBy, Holding, Reconnecting, Custodians
    <3> QED
      BY <3>1, <3>2
  <2> QED
    BY <2>1, <2>2, <2>3 DEF Reconnecting
<1> QED
  BY <1>1, SessionInvariant, PTL

(* OneLoop, for any number of reconnects: two tasks never serve the session at
   the same time, because each of them would hold the one backup. *)
THEOREM OneTaskServesTheSession == Spec => []OneLoop
<1>1. SessionInv => OneLoop
  BY DEF SessionInv, HeldInv, HeldBy, CustodyInv, Custodian, Holding, OneLoop
<1> QED
  BY <1>1, SessionInvariant, PTL

(* SameChannels, for any number of reconnects: the response channels are those
   of the first task that had a loop. *)
THEOREM TheChannelsStayTheSame == Spec => []SameChannels
<1>1. SessionInv => SameChannels
  BY DEF SessionInv, ChannelsInv
<1> QED
  BY <1>1, SessionInvariant, PTL

(* HandoverNeverBlocks, for any number of reconnects: when a task holds the lock
   and waits for the channels of another one, they have been sent. *)
THEOREM TheLockIsNotHeldForLong == Spec => []HandoverNeverBlocks
<1>1. ASSUME SessionInv, NEW t \in Tasks, pc[t] = "handover"
      PROVE  saved[from[t]] # "empty"
  <2>1. from[t] \in Tasks /\ from[t] # t /\ Source(from[t])
    BY <1>1, TaskNames DEF SessionInv, ChannelsInv, Source
  <2>2. pc[from[t]] \notin Holding
    BY <1>1, <2>1 DEF SessionInv, HeldInv, HeldBy, CustodyInv, Custodian, Holding
  <2> QED
    BY <2>1, <2>2 DEF Source, Holding
<1>2. SessionInv => HandoverNeverBlocks
  BY <1>1 DEF HandoverNeverBlocks
<1> QED
  BY <1>2, SessionInvariant, PTL

(* SupersededOtpRejected, for any number of reconnects: the password a task
   accepts is the newest one that was stored. *)
THEOREM OldPasswordsAreRejected == Spec => SupersededOtpRejected
<1> DEFINE Accepts ==
             \A t \in Tasks : pc[t] = "type" /\ pc'[t] = "await" => offered[t] = stored
<1>1. ASSUME SessionInv, [Next]_vars, NEW t \in Tasks, pc[t] = "type", pc'[t] = "await"
      PROVE  offered[t] = stored
  <2>1. pc \in [Tasks -> PCs]
    BY <1>1 DEF SessionInv, TypeOK
  <2>2. ASSUME NEW u \in Tasks, OpenLink(u) PROVE FALSE
    BY <1>1, <2>1, <2>2 DEF OpenLink
  <2>3. \E u \in Tasks : ServerTask(u)
    <3>1. ClientConnect \/ ClientReconnect => \E u \in Tasks : OpenLink(u)
      <4>1. client.task \in Nat /\ client.task < MaxTasks => client.task + 1 \in Tasks
        BY ReconnectConstants DEF Tasks
      <4> QED
        BY <1>1, <4>1, TaskNames DEF ClientConnect, ClientReconnect
    <3>2. pc' # pc
      BY <1>1
    <3>3. ~Shutdown /\ ~UNCHANGED vars
      BY <3>2 DEF Shutdown, vars
    <3> QED
      BY <1>1, <2>2, <3>1, <3>2, <3>3, ClientLeavesServerAlone DEF Next, ClientTask,
         serverVars
  <2>4. PICK u \in Tasks : ServerTask(u)
    BY <2>3
  <2>5. ~Accept(u) => \E v \in PCs \ {"await"} : pc' = [pc EXCEPT ![u] = v]
    BY <2>4 DEF ServerTask, Verify, Register, Reject, AcquireBackup, ServerExchange,
       RestoreOnFailure, Establish, OnConnectFails, NewChannels, Handover, TakeChannels,
       LoopEnds, Close, CancelServer, Abandon, PCs
  <2>6. Accept(u) /\ u = t
    BY <1>1, <2>1, <2>5 DEF Accept
  <2> QED
    BY <1>1, <2>6 DEF Accept, RemoveIfHasKey, SessionInv, PasswordInv
<1>2. SessionInv /\ [Next]_vars => [Accepts]_vars
  BY <1>1
<1> QED
  BY <1>2, SessionInvariant, PTL DEF Spec, SupersededOtpRejected
=============================================================================
