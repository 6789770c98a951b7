--------------------------- MODULE HostTunnelProofs ---------------------------
(***************************************************************************)
(* Proofs about HostTunnel, for any number of tunnels, requests and room   *)
(* in the write channels: what the actor's map says of a tunnel agrees     *)
(* with the tunnel's task and with the messages on their way to the actor. *)
(***************************************************************************)
EXTENDS HostTunnel, SequenceTheorems, TLAPS

Messages ==
  [type : {"open", "listen"}, id : {0}]
    \union [type : {"write", "close", "remove", "register"}, id : Ids]

TypeInv ==
  /\ inbox \in Seq(Messages)
  /\ busy \in BOOLEAN
  /\ next_id \in 1 .. MaxId + 1
  /\ entry \in [Ids -> {"none", "connection", "listener"}]
  /\ sub_tunnel_ids \in [Ids -> SUBSET Ids]
  /\ parent \in [Ids -> 0 .. MaxId]
  /\ listener \in [Ids -> {"none", "accepting", "registering", "gone"}]
  /\ aborted \subseteq Ids
  /\ holds \in [Ids -> 0 .. MaxId]
  /\ connection \in [Ids -> {"none", "running", "ended", "gone"}]
  /\ write_tx \subseteq Ids
  /\ queue \in [Ids -> Nat]
  /\ peer \in [Ids -> {"open", "stalled", "half", "closed"}]
  /\ lost \subseteq Ids /\ overtaken \subseteq Ids /\ late \subseteq Ids
  /\ requests \in Nat

\* A message is on its way to the actor.
OnWay(t, i) == \E k \in 1 .. Len(inbox) : inbox[k] = Msg(t, i)

\* No tunnel is registered twice.
Once(i) ==
  \A j \in 1 .. Len(inbox) : \A k \in 1 .. Len(inbox) :
    inbox[j] = Msg("register", i) /\ inbox[k] = Msg("register", i) => j = k

\* The end of tunnel i has been or will be noticed by the actor.
Accounted(i) ==
  connection[i] \in {"running", "ended"} \/ OnWay("remove", i) \/ i \in overtaken

\* Ids that have not been given out.
FreshInv ==
  \A i \in Ids : i >= next_id =>
    entry[i] = "none" /\ parent[i] = 0 /\ listener[i] = "none"

\* What is known of a sub-tunnel until the actor registers it.
Unregistered(i) ==
  i < next_id /\ entry[i] = "none" /\ parent[i] \in Ids /\ Accounted(i)

PendingInv ==
  \A i \in Ids :
    /\ OnWay("register", i) => Unregistered(i) /\ \A l \in Ids : holds[l] # i
    /\ Once(i)

\* A listener that is about to register has the tunnel it accepted.
HoldsInv ==
  \A l \in Ids :
    /\ listener[l] = "registering" <=> holds[l] # 0
    /\ holds[l] # 0 => Unregistered(holds[l]) /\ parent[holds[l]] = l

TunnelInv ==
  /\ TypeInv /\ FreshInv /\ PendingInv /\ HoldsInv
  /\ NoStaleEntryUnlessOvertaken /\ SubTunnelsBelongToTheirListener
  /\ DataLostOnlyIfPeerShutDown

-----------------------------------------------------------------------------
(* What a step does to the inbox *)

\* The message at position k is gone, the others have moved up.
Without(k) ==
  /\ k \in 1 .. Len(inbox)
  /\ Len(inbox') = Len(inbox) - 1
  /\ \A j \in 1 .. Len(inbox') : inbox'[j] = inbox[IF j < k THEN j ELSE j + 1]

(* A message that the actor takes is the first. *)
LEMMA TailWithout ==
  ASSUME TypeInv, inbox # <<>>, inbox' = Tail(inbox)
  PROVE  inbox' \in Seq(Messages) /\ Without(1) /\ inbox[1] = Head(inbox)
         /\ Head(inbox) \in Messages
<1>1. inbox \in Seq(Messages)
  BY DEF TypeInv
<1>2. /\ Tail(inbox) \in Seq(Messages) /\ Len(Tail(inbox)) = Len(inbox) - 1
      /\ \A j \in 1 .. Len(Tail(inbox)) : Tail(inbox)[j] = inbox[j + 1]
      /\ Head(inbox) \in Messages
  BY <1>1, HeadTailProperties
<1>3. Len(inbox) \in Nat /\ 1 \in 1 .. Len(inbox) /\ Head(inbox) = inbox[1]
  BY <1>1, LenProperties, EmptySeq
<1>4. \A j \in 1 .. Len(inbox') : ~(j < 1)
  BY <1>2, <1>3
<1> QED
  BY <1>2, <1>3, <1>4 DEF Without

(* A registration that is dropped may be anywhere. *)
LEMMA RemoveAtWithout ==
  ASSUME TypeInv, NEW k \in 1 .. Len(inbox), inbox' = RemoveAt(inbox, k)
  PROVE  inbox' \in Seq(Messages) /\ Without(k)
<1>1. inbox \in Seq(Messages) /\ Len(inbox) \in Nat
  BY LenProperties DEF TypeInv
<1> DEFINE a == SubSeq(inbox, 1, k - 1)
           b == SubSeq(inbox, k + 1, Len(inbox))
<1>2. /\ a \in Seq(Messages) /\ Len(a) = k - 1
      /\ \A j \in 1 .. k - 1 : a[j] = inbox[j]
  BY <1>1, SubSeqProperties
<1>3. /\ b \in Seq(Messages) /\ Len(b) = Len(inbox) - k
      /\ \A j \in 1 .. Len(inbox) - k : b[j] = inbox[k + j]
  BY <1>1, SubSeqProperties
<1>4. inbox' = a \o b
  BY DEF RemoveAt
<1> HIDE DEF a, b
<1>5. /\ inbox' \in Seq(Messages) /\ Len(inbox') = Len(a) + Len(b)
      /\ \A j \in 1 .. Len(a) + Len(b) :
           inbox'[j] = IF j <= Len(a) THEN a[j] ELSE b[j - Len(a)]
  <2>1. /\ a \o b \in Seq(Messages) /\ Len(a \o b) = Len(a) + Len(b)
        /\ \A j \in 1 .. Len(a) + Len(b) :
             (a \o b)[j] = IF j <= Len(a) THEN a[j] ELSE b[j - Len(a)]
    BY <1>2, <1>3, ConcatProperties
  <2> QED
    BY <1>4, <2>1
<1>6. Len(inbox') = Len(inbox) - 1
  BY <1>1, <1>2, <1>3, <1>5
<1>7. ASSUME NEW j \in 1 .. Len(inbox')
      PROVE  inbox'[j] = inbox[IF j < k THEN j ELSE j + 1]
  <2>1. CASE j < k
    BY <1>1, <1>2, <1>3, <1>5, <1>6, <2>1
  <2>2. CASE ~(j < k)
    <3>1. j - (k - 1) \in 1 .. Len(inbox) - k /\ k + (j - (k - 1)) = j + 1
      BY <1>1, <1>6, <2>2
    <3>2. inbox'[j] = b[j - (k - 1)]
      BY <1>1, <1>2, <1>3, <1>5, <1>6, <2>2
    <3> QED
      BY <1>3, <2>2, <3>1, <3>2
  <2> QED
    BY <2>1, <2>2
<1> QED
  BY <1>5, <1>6, <1>7 DEF Without

(* What becomes of the messages when one is gone. *)
LEMMA WithoutKeeps ==
  ASSUME TypeInv, NEW k, Without(k), inbox' \in Seq(Messages)
  PROVE  /\ \A t, i : OnWay(t, i)' => OnWay(t, i)
         /\ \A t, i : OnWay(t, i) => OnWay(t, i)' \/ inbox[k] = Msg(t, i)
         /\ \A i : Once(i) => Once(i)'
         /\ \A i : Once(i) /\ inbox[k] = Msg("register", i) => ~OnWay("register", i)'
<1> DEFINE At(j) == IF j < k THEN j ELSE j + 1
<1>1. Len(inbox) \in Nat /\ Len(inbox') \in Nat
  BY LenProperties DEF TypeInv
<1>2. \A j \in 1 .. Len(inbox') :
        At(j) \in 1 .. Len(inbox) /\ At(j) # k /\ inbox'[j] = inbox[At(j)]
  BY <1>1 DEF Without
<1>3. \A j \in 1 .. Len(inbox) :
        j = k \/ \E n \in 1 .. Len(inbox') : At(n) = j
  <2> SUFFICES ASSUME NEW j \in 1 .. Len(inbox), j # k
               PROVE  \E n \in 1 .. Len(inbox') : At(n) = j
    OBVIOUS
  <2>1. CASE j < k
    <3>1. j \in 1 .. Len(inbox') /\ At(j) = j
      BY <1>1, <2>1 DEF Without
    <3> QED
      BY <3>1
  <2>2. CASE j > k
    <3>1. j - 1 \in 1 .. Len(inbox') /\ At(j - 1) = j
      BY <1>1, <2>2 DEF Without
    <3> QED
      BY <3>1
  <2> QED
    BY <1>1, <2>1, <2>2 DEF Without
<1>4. \A j, n \in 1 .. Len(inbox') : At(j) = At(n) => j = n
  BY <1>1 DEF Without
<1> HIDE DEF At
<1>5. \A t, i : OnWay(t, i)' => OnWay(t, i)
  BY <1>2 DEF OnWay, Msg
<1>6. \A t, i : OnWay(t, i) => OnWay(t, i)' \/ inbox[k] = Msg(t, i)
  <2> SUFFICES ASSUME NEW t, NEW i, NEW j \in 1 .. Len(inbox), inbox[j] = Msg(t, i)
               PROVE  OnWay(t, i)' \/ inbox[k] = Msg(t, i)
    BY DEF OnWay
  <2>1. CASE j = k
    BY <2>1
  <2>2. CASE j # k
    <3>1. PICK n \in 1 .. Len(inbox') : At(n) = j
      BY <1>3, <2>2
    <3>2. inbox'[n] = Msg(t, i)
      BY <1>2, <3>1
    <3> QED
      BY <3>2 DEF OnWay, Msg
  <2> QED
    BY <2>1, <2>2
<1>7. \A i : Once(i) => Once(i)'
  BY <1>2, <1>4 DEF Once, Msg
<1>8. \A i : Once(i) /\ inbox[k] = Msg("register", i) => ~OnWay("register", i)'
  BY <1>2 DEF Once, OnWay, Msg, Without
<1> QED
  BY <1>5, <1>6, <1>7, <1>8

(* And when one is added. *)
LEMMA AppendKeeps ==
  ASSUME TypeInv, NEW m \in Messages, inbox' = Append(inbox, m)
  PROVE  /\ inbox' \in Seq(Messages)
         /\ \A t, i : OnWay(t, i)' <=> OnWay(t, i) \/ m = Msg(t, i)
         /\ \A i : Once(i) /\ ~(m = Msg("register", i) /\ OnWay("register", i)) =>
              Once(i)'
<1>1. inbox \in Seq(Messages) /\ Len(inbox) \in Nat
  BY LenProperties DEF TypeInv
<1>2. /\ inbox' \in Seq(Messages) /\ Len(inbox') = Len(inbox) + 1
      /\ \A j \in 1 .. Len(inbox) : inbox'[j] = inbox[j]
      /\ inbox'[Len(inbox) + 1] = m
  BY <1>1, AppendProperties
<1>3. \A j \in 1 .. Len(inbox') : j \in 1 .. Len(inbox) \/ j = Len(inbox) + 1
  BY <1>1, <1>2
<1>4. \A j \in 1 .. Len(inbox) : j \in 1 .. Len(inbox')
  BY <1>1, <1>2
<1>5. Len(inbox) + 1 \in 1 .. Len(inbox')
  BY <1>1, <1>2
<1>6. ASSUME NEW t, NEW i PROVE OnWay(t, i)' <=> OnWay(t, i) \/ m = Msg(t, i)
  BY <1>2, <1>3, <1>4, <1>5 DEF OnWay, Msg
<1>7. ASSUME NEW i, Once(i), ~(m = Msg("register", i) /\ OnWay("register", i))
      PROVE  Once(i)'
  <2> SUFFICES ASSUME NEW j \in 1 .. Len(inbox'), NEW k \in 1 .. Len(inbox'),
                      inbox'[j] = Msg("register", i), inbox'[k] = Msg("register", i)
               PROVE  j = k
    BY DEF Once, Msg
  <2>1. CASE j \in 1 .. Len(inbox) /\ k \in 1 .. Len(inbox)
    BY <1>2, <1>7, <2>1 DEF Once
  <2>2. CASE j = Len(inbox) + 1 /\ k \in 1 .. Len(inbox)
    BY <1>2, <1>7, <2>2 DEF OnWay
  <2>3. CASE j \in 1 .. Len(inbox) /\ k = Len(inbox) + 1
    BY <1>2, <1>7, <2>3 DEF OnWay
  <2> QED
    BY <1>3, <2>1, <2>2, <2>3
<1> QED
  BY <1>2, <1>6, <1>7

-----------------------------------------------------------------------------
(* The steps *)

\* The rest of the invariant: what is known of the actor's map.
Mapped ==
  /\ FreshInv /\ PendingInv /\ HoldsInv
  /\ NoStaleEntryUnlessOvertaken /\ SubTunnelsBelongToTheirListener

\* g is f but for v at i.
Sets(f, g, i, v) == \A u \in Ids : g[u] = IF u = i THEN v ELSE f[u]

(* NoStaleEntryUnlessOvertaken, in other words. *)
LEMMA StaleIs ==
  ASSUME TypeInv
  PROVE  NoStaleEntryUnlessOvertaken <=>
           \A i \in Ids : entry[i] = "connection" => Accounted(i)
<1>1. DOMAIN inbox = 1 .. Len(inbox)
  BY LenProperties DEF TypeInv
<1> QED
  BY <1>1 DEF NoStaleEntryUnlessOvertaken, Accounted, OnWay

(* And after a step. *)
LEMMA StaleBecomes ==
  ASSUME TypeInv', \A i \in Ids : entry'[i] = "connection" => Accounted(i)'
  PROVE  NoStaleEntryUnlessOvertaken'
<1>1. DOMAIN inbox' = 1 .. Len(inbox')
  BY LenProperties DEF TypeInv
<1> QED
  BY <1>1 DEF NoStaleEntryUnlessOvertaken, Accounted, OnWay

(* HoldsInv after a step. *)
LEMMA HoldsBecome ==
  ASSUME TypeInv',
         \A m \in Ids : listener'[m] = "registering" <=> holds'[m] # 0,
         \A m \in Ids : \A i \in Ids :
           holds'[m] = i => Unregistered(i)' /\ parent'[i] = m
  PROVE  HoldsInv'
<1> SUFFICES ASSUME NEW m \in Ids, NEW x, x = holds'[m]
             PROVE  /\ listener'[m] = "registering" <=> x # 0
                    /\ x # 0 => Unregistered(x)' /\ parent'[x] = m
  BY DEF HoldsInv, Unregistered, Accounted, OnWay
<1>1. x # 0 => x \in Ids
  BY DEF TypeInv, Ids
<1> QED
  BY <1>1

\* No tunnel's end is forgotten.
KeepsAccounts == \A i \in Ids : Accounted(i) => Accounted(i)'

(* A step that leaves the map, its listeners and their registrations alone, and
   forgets no end, keeps what is known of the map. *)
LEMMA QuietKeeps ==
  ASSUME TunnelInv, TypeInv', KeepsAccounts,
         UNCHANGED <<next_id, entry, sub_tunnel_ids, parent, holds, late>>,
         \A i \in Ids : OnWay("register", i)' => OnWay("register", i),
         \A i \in Ids : Once(i) => Once(i)',
         \A l \in Ids : /\ listener'[l] = "registering" <=> listener[l] = "registering"
                        /\ listener[l] = "none" => listener'[l] = "none"
  PROVE  Mapped'
<1>1. \A i \in Ids : Unregistered(i) => Unregistered(i)'
  BY DEF Unregistered, KeepsAccounts
<1>2. FreshInv'
  BY DEF TunnelInv, FreshInv
<1>3. PendingInv'
  BY <1>1 DEF TunnelInv, PendingInv
<1>4. HoldsInv'
  <2> SUFFICES ASSUME NEW l \in Ids
               PROVE  /\ listener'[l] = "registering" <=> holds'[l] # 0
                      /\ holds'[l] # 0 =>
                           Unregistered(holds[l])' /\ parent'[holds'[l]] = l
    BY DEF HoldsInv
  <2>1. /\ listener[l] = "registering" <=> holds[l] # 0
        /\ holds[l] # 0 => Unregistered(holds[l]) /\ parent[holds[l]] = l
    BY DEF TunnelInv, HoldsInv
  <2>2. holds[l] # 0 => holds[l] \in Ids
    BY DEF TunnelInv, TypeInv, Ids
  <2>3. holds[l] # 0 => Unregistered(holds[l])'
    BY <2>1, <2>2 DEF Unregistered, KeepsAccounts, Accounted, OnWay
  <2> QED
    BY <2>1, <2>3
<1>5. NoStaleEntryUnlessOvertaken'
  <2>1. \A i \in Ids : entry'[i] = "connection" => Accounted(i)'
    BY StaleIs DEF TunnelInv, KeepsAccounts
  <2> QED
    BY <2>1, StaleBecomes
<1>6. SubTunnelsBelongToTheirListener'
  BY DEF TunnelInv, SubTunnelsBelongToTheirListener
<1> QED
  BY <1>2, <1>3, <1>4, <1>5, <1>6 DEF Mapped

(* Every step keeps the types. *)
LEMMA TypeStep == TunnelInv /\ [Next]_vars => TypeInv'
<1> SUFFICES ASSUME TunnelInv, [Next]_vars
             PROVE  TypeInv'
  OBVIOUS
<1>1. ASSUME Request
      PROVE  TypeInv'
  <2>1. PICK t \in {"open", "listen", "write", "close"}, i \in 0 .. next_id - 1 :
          /\ t \in {"open", "listen"} <=> i = 0
          /\ inbox' = Append(inbox, Msg(t, i))
    BY <1>1 DEF Request
  <2>2. Msg(t, i) \in Messages
    <3>1. i = 0 \/ i \in Ids
      BY BoundsAreNaturals DEF TunnelInv, TypeInv, Ids
    <3> QED
      BY <2>1, <3>1 DEF Msg, Messages
  <2>3. inbox' \in Seq(Messages)
    BY <2>1, <2>2, AppendKeeps DEF TunnelInv
  <2> QED
    BY <1>1, <2>3 DEF Request, actor, listeners, streams, history, TunnelInv, TypeInv
<1>2. ASSUME OpenBegins
      PROVE  TypeInv'
  <2>1. inbox' \in Seq(Messages) /\ Head(inbox) \in Messages
    BY <1>2, TailWithout DEF OpenBegins, Arrived, TunnelInv
  <2> QED
    BY <1>2, <2>1 DEF OpenBegins, actor, listeners, streams, history, TunnelInv, TypeInv
<1>3. ASSUME OpenSucceeds
      PROVE  TypeInv'
  <2>1. next_id <= MaxId => next_id \in Ids /\ next_id + 1 \in 1 .. MaxId + 1
    BY BoundsAreNaturals DEF TunnelInv, TypeInv, Ids
  <2> QED
    BY <1>3, <2>1 DEF OpenSucceeds, Spawn, actor, listeners, streams, history,
       TunnelInv, TypeInv
<1>4. ASSUME OpenFails
      PROVE  TypeInv'
  BY <1>4 DEF OpenFails, actor, listeners, streams, history, TunnelInv, TypeInv
<1>5. ASSUME Listen
      PROVE  TypeInv'
  <2>1. inbox' \in Seq(Messages) /\ Head(inbox) \in Messages
    BY <1>5, TailWithout DEF Listen, Arrived, TunnelInv
  <2>2. next_id <= MaxId => next_id \in Ids /\ next_id + 1 \in 1 .. MaxId + 1
    BY BoundsAreNaturals DEF TunnelInv, TypeInv, Ids
  <2>3. /\ next_id' \in 1 .. MaxId + 1
        /\ entry' \in [Ids -> {"none", "connection", "listener"}]
        /\ listener' \in [Ids -> {"none", "accepting", "registering", "gone"}]
    <3>1. CASE UNCHANGED <<next_id, entry, listener>>
      BY <3>1 DEF TunnelInv, TypeInv
    <3>2. CASE /\ next_id <= MaxId /\ next_id' = next_id + 1
               /\ entry' = [entry EXCEPT ![next_id] = "listener"]
               /\ listener' = [listener EXCEPT ![next_id] = "accepting"]
      BY <2>2, <3>2 DEF TunnelInv, TypeInv
    <3> QED
      BY <1>5, <3>1, <3>2 DEF Listen
  <2> QED
    BY <1>5, <2>1, <2>3 DEF Listen, streams, history, TunnelInv, TypeInv
<1>6. ASSUME Write
      PROVE  TypeInv'
  <2>1. inbox' \in Seq(Messages) /\ Head(inbox) \in Messages
    BY <1>6, TailWithout DEF Write, Arrived, TunnelInv
  <2>2. Head(inbox).id \in Ids
    BY <1>6, <2>1 DEF Arrived, Write, Messages
  <2>3. queue' \in [Ids -> Nat]
    BY <1>6, <2>2 DEF Write, TunnelInv, TypeInv
  <2> QED
    BY <1>6, <2>1, <2>3 DEF Write, actor, listeners, streams, history, TunnelInv,
       TypeInv
<1>7. ASSUME Close
      PROVE  TypeInv'
  <2>1. inbox' \in Seq(Messages) /\ Head(inbox) \in Messages
    BY <1>7, TailWithout DEF Close, Arrived, TunnelInv
  <2>2. Head(inbox).id \in Ids
    BY <1>7, <2>1 DEF Arrived, Close, Messages
  <2>3. entry' \in [Ids -> {"none", "connection", "listener"}]
    BY <1>7, <2>2 DEF Close, TunnelInv, TypeInv
  <2>4. sub_tunnel_ids' \in [Ids -> SUBSET Ids] /\ aborted' \subseteq Ids
    BY <1>7, <2>2 DEF Close, TunnelInv, TypeInv
  <2>5. write_tx' \subseteq Ids
    BY <1>7 DEF Close, CloseGently, TunnelInv, TypeInv
  <2> QED
    BY <1>7, <2>1, <2>3, <2>4, <2>5 DEF Close, CloseGently, actor, listeners, streams,
       history, TunnelInv, TypeInv
<1>8. ASSUME InternalRemove
      PROVE  TypeInv'
  <2>1. inbox' \in Seq(Messages) /\ Head(inbox) \in Messages
    BY <1>8, TailWithout DEF InternalRemove, Arrived, TunnelInv
  <2>2. Head(inbox).id \in Ids
    BY <1>8, <2>1 DEF Arrived, InternalRemove, Messages
  <2>3. /\ entry' \in [Ids -> {"none", "connection", "listener"}]
             /\ write_tx' \subseteq Ids
        /\ sub_tunnel_ids' \in [Ids -> SUBSET Ids] /\ overtaken' \subseteq Ids
        /\ UNCHANGED <<lost, late>>
    <3>1. CASE entry[Head(inbox).id] = "connection"
      <4>1. /\ entry' = [entry EXCEPT ![Head(inbox).id] = "none"]
            /\ write_tx' = write_tx \ {Head(inbox).id}
            /\ sub_tunnel_ids' = [m \in Ids |-> sub_tunnel_ids[m] \ {Head(inbox).id}]
            /\ UNCHANGED <<lost, late, overtaken>>
        BY <1>8, <3>1 DEF InternalRemove, history
      <4>2. sub_tunnel_ids' \in [Ids -> SUBSET Ids]
        BY <4>1 DEF TunnelInv, TypeInv
      <4> QED
        BY <2>2, <4>1, <4>2 DEF TunnelInv, TypeInv
    <3>2. CASE entry[Head(inbox).id] # "connection"
      BY <1>8, <2>2, <3>2 DEF InternalRemove, TunnelInv, TypeInv
    <3> QED
      BY <3>1, <3>2
  <2> QED
    BY <1>8, <2>1, <2>3 DEF InternalRemove, listeners, TunnelInv, TypeInv
<1>9. ASSUME InternalRegisterSubTunnel
      PROVE  TypeInv'
  <2>1. inbox' \in Seq(Messages) /\ Head(inbox) \in Messages
    BY <1>9, TailWithout DEF InternalRegisterSubTunnel, Arrived, TunnelInv
  <2>2. Head(inbox).id \in Ids
    BY <1>9, <2>1 DEF Arrived, InternalRegisterSubTunnel, Messages
  <2>3. sub_tunnel_ids' \in [Ids -> SUBSET Ids]
    <3>1. CASE entry[parent[Head(inbox).id]] = "listener"
               /\ parent[Head(inbox).id] \in Ids
      BY <1>9, <2>2, <3>1 DEF InternalRegisterSubTunnel, RegisterWith, TunnelInv,
         TypeInv
    <3>2. CASE entry[parent[Head(inbox).id]] = "listener"
               /\ parent[Head(inbox).id] \notin Ids
      BY <1>9, <2>2, <3>2 DEF InternalRegisterSubTunnel, RegisterWith, TunnelInv,
         TypeInv
    <3>3. CASE entry[parent[Head(inbox).id]] # "listener"
      BY <1>9, <2>2, <3>3 DEF InternalRegisterSubTunnel, RegisterWith, TunnelInv,
         TypeInv
    <3> QED
      BY <3>1, <3>2, <3>3
  <2>4. entry' \in [Ids -> {"none", "connection", "listener"}] /\ late' \subseteq Ids
    BY <1>9, <2>2 DEF InternalRegisterSubTunnel, TunnelInv, TypeInv
  <2> QED
    BY <1>9, <2>1, <2>3, <2>4 DEF InternalRegisterSubTunnel, listeners, streams,
       TunnelInv, TypeInv
<1>10. ASSUME NEW l \in Ids, Accept(l)
      PROVE  TypeInv'
  <2>1. next_id <= MaxId => next_id \in Ids /\ next_id + 1 \in 1 .. MaxId + 1
    BY BoundsAreNaturals DEF TunnelInv, TypeInv, Ids
  <2>2. \A i \in Ids : i \in 0 .. MaxId
    BY BoundsAreNaturals DEF Ids
  <2> QED
    BY <1>10, <2>1, <2>2 DEF Accept, Spawn, actor, listeners, streams, history,
       TunnelInv, TypeInv
<1>11. ASSUME NEW l \in Ids, SendRegister(l)
      PROVE  TypeInv'
  <2>1. Msg("register", holds[l]) \in Messages
    <3>1. holds[l] \in Ids
      BY <1>11 DEF SendRegister, TunnelInv, HoldsInv, TypeInv, Ids
    <3> QED
      BY <3>1 DEF Msg, Messages
  <2>2. inbox' \in Seq(Messages)
    BY <1>11, <2>1, AppendKeeps DEF SendRegister, TellActor, TunnelInv
  <2>3. 0 \in 0 .. MaxId
    BY BoundsAreNaturals
  <2> QED
    BY <1>11, <2>2, <2>3 DEF SendRegister, actor, listeners, streams, history,
       TunnelInv, TypeInv
<1>12. ASSUME NEW l \in Ids, AcceptFails(l)
      PROVE  TypeInv'
  <2>1. Msg("remove", l) \in Messages
    BY DEF Msg, Messages
  <2>2. inbox' \in Seq(Messages)
    BY <1>12, <2>1, AppendKeeps DEF AcceptFails, TellActor, TunnelInv
  <2>3. 0 \in 0 .. MaxId
    BY BoundsAreNaturals
  <2> QED
    BY <1>12, <2>2, <2>3 DEF AcceptFails, actor, listeners, streams, history, TunnelInv,
       TypeInv
<1>13. ASSUME NEW l \in Ids, Stop(l)
      PROVE  TypeInv'
  <2>1. inbox' \in Seq(Messages) /\ write_tx' \subseteq Ids
    <3>1. CASE UNCHANGED <<inbox, write_tx>>
      BY <3>1 DEF TunnelInv, TypeInv
    <3>2. ASSUME NEW k \in Waiting(l), inbox' = RemoveAt(inbox, k),
                 write_tx' = write_tx \ {inbox[k].id}
          PROVE  inbox' \in Seq(Messages) /\ write_tx' \subseteq Ids
      <4>1. k \in 1 .. Len(inbox)
        BY LenProperties DEF Waiting, TunnelInv, TypeInv
      <4> QED
        BY <3>2, <4>1, RemoveAtWithout DEF TunnelInv, TypeInv
    <3> QED
      BY <1>13, <3>1, <3>2 DEF Stop
  <2> QED
    BY <1>13, <2>1 DEF Stop, actor, history, TunnelInv, TypeInv
<1>14. ASSUME NEW l \in Ids, PeerMoves(l)
      PROVE  TypeInv'
  BY <1>14 DEF PeerMoves, actor, listeners, streams, history, TunnelInv, TypeInv
<1>15. ASSUME NEW l \in Ids, WriteOut(l)
      PROVE  TypeInv'
  BY <1>15 DEF WriteOut, actor, listeners, streams, history, TunnelInv, TypeInv
<1>16. ASSUME NEW l \in Ids, ReadEnds(l)
      PROVE  TypeInv'
  BY <1>16 DEF ReadEnds, EndConnection, actor, listeners, streams, history, TunnelInv,
     TypeInv
<1>17. ASSUME NEW l \in Ids, WriteEnds(l)
      PROVE  TypeInv'
  BY <1>17 DEF WriteEnds, EndConnection, actor, listeners, streams, history, TunnelInv,
     TypeInv
<1>18. ASSUME NEW l \in Ids, Leave(l)
      PROVE  TypeInv'
  <2>1. Msg("remove", l) \in Messages
    BY DEF Msg, Messages
  <2>2. inbox' \in Seq(Messages)
    BY <1>18, <2>1, AppendKeeps DEF Leave, TellActor, TunnelInv
  <2>3. 0 \in 0 .. MaxId
    BY BoundsAreNaturals
  <2> QED
    BY <1>18, <2>2, <2>3 DEF Leave, TellActor, actor, listeners, streams, history,
       TunnelInv, TypeInv
<1>19. ASSUME UNCHANGED vars
      PROVE  TypeInv'
  BY <1>19 DEF vars, actor, listeners, streams, history, TunnelInv, TypeInv
<1> HIDE DEF TunnelInv
<1> QED
  BY <1>1, <1>2, <1>3, <1>4, <1>5, <1>6, <1>7, <1>8, <1>9, <1>10, <1>11, <1>12, <1>13,
     <1>14, <1>15, <1>16, <1>17, <1>18, <1>19 DEF Next

(* Every step that loses data does so after the peer has shut down its side. *)
LEMMA DataStep == TunnelInv /\ [Next]_vars => DataLostOnlyIfPeerShutDown'
<1> SUFFICES ASSUME TunnelInv, [Next]_vars
             PROVE  DataLostOnlyIfPeerShutDown'
  OBVIOUS
<1>0. TypeInv'
  BY TypeStep
<1>1. ASSUME Request
      PROVE  DataLostOnlyIfPeerShutDown'
  BY <1>1 DEF Request, actor, listeners, streams, history, TunnelInv, TypeInv,
     DataLostOnlyIfPeerShutDown
<1>2. ASSUME OpenBegins
      PROVE  DataLostOnlyIfPeerShutDown'
  BY <1>2 DEF OpenBegins, actor, listeners, streams, history, TunnelInv, TypeInv,
     DataLostOnlyIfPeerShutDown
<1>3. ASSUME OpenSucceeds
      PROVE  DataLostOnlyIfPeerShutDown'
  BY <1>3 DEF OpenSucceeds, Spawn, actor, listeners, streams, history, TunnelInv,
     TypeInv, DataLostOnlyIfPeerShutDown
<1>4. ASSUME OpenFails
      PROVE  DataLostOnlyIfPeerShutDown'
  BY <1>4 DEF OpenFails, actor, listeners, streams, history, TunnelInv, TypeInv,
     DataLostOnlyIfPeerShutDown
<1>5. ASSUME Listen
      PROVE  DataLostOnlyIfPeerShutDown'
  BY <1>5 DEF Listen, actor, listeners, streams, history, TunnelInv, TypeInv,
     DataLostOnlyIfPeerShutDown
<1>6. ASSUME Write
      PROVE  DataLostOnlyIfPeerShutDown'
  BY <1>6 DEF Write, actor, listeners, streams, history, TunnelInv, TypeInv,
     DataLostOnlyIfPeerShutDown
<1>7. ASSUME Close
      PROVE  DataLostOnlyIfPeerShutDown'
  BY <1>7 DEF Close, CloseGently, actor, listeners, streams, history, TunnelInv,
     TypeInv, DataLostOnlyIfPeerShutDown
<1>8. ASSUME InternalRemove
      PROVE  DataLostOnlyIfPeerShutDown'
  <2>1. lost' = lost
    BY <1>8 DEF InternalRemove, history
  <2> QED
    BY <1>8, <2>1 DEF InternalRemove, TunnelInv, DataLostOnlyIfPeerShutDown
<1>9. ASSUME InternalRegisterSubTunnel
      PROVE  DataLostOnlyIfPeerShutDown'
  BY <1>9 DEF InternalRegisterSubTunnel, RegisterWith, actor, listeners, streams,
     history, TunnelInv, TypeInv, DataLostOnlyIfPeerShutDown
<1>10. ASSUME NEW l \in Ids, Accept(l)
      PROVE  DataLostOnlyIfPeerShutDown'
  BY <1>10 DEF Accept, Spawn, actor, listeners, streams, history, TunnelInv, TypeInv,
     DataLostOnlyIfPeerShutDown
<1>11. ASSUME NEW l \in Ids, SendRegister(l)
      PROVE  DataLostOnlyIfPeerShutDown'
  BY <1>11 DEF SendRegister, actor, listeners, streams, history, TunnelInv, TypeInv,
     DataLostOnlyIfPeerShutDown
<1>12. ASSUME NEW l \in Ids, AcceptFails(l)
      PROVE  DataLostOnlyIfPeerShutDown'
  BY <1>12 DEF AcceptFails, actor, listeners, streams, history, TunnelInv, TypeInv,
     DataLostOnlyIfPeerShutDown
<1>13. ASSUME NEW l \in Ids, Stop(l)
      PROVE  DataLostOnlyIfPeerShutDown'
  BY <1>13 DEF Stop, actor, listeners, streams, history, TunnelInv, TypeInv,
     DataLostOnlyIfPeerShutDown
<1>14. ASSUME NEW l \in Ids, PeerMoves(l)
      PROVE  DataLostOnlyIfPeerShutDown'
  BY <1>14 DEF PeerMoves, actor, listeners, streams, history, TunnelInv, TypeInv,
     DataLostOnlyIfPeerShutDown
<1>15. ASSUME NEW l \in Ids, WriteOut(l)
      PROVE  DataLostOnlyIfPeerShutDown'
  BY <1>15 DEF WriteOut, actor, listeners, streams, history, TunnelInv, TypeInv,
     DataLostOnlyIfPeerShutDown
<1>16. ASSUME NEW l \in Ids, ReadEnds(l)
      PROVE  DataLostOnlyIfPeerShutDown'
  BY <1>16 DEF ReadEnds, EndConnection, actor, listeners, streams, history, TunnelInv,
     TypeInv, DataLostOnlyIfPeerShutDown
<1>17. ASSUME NEW l \in Ids, WriteEnds(l)
      PROVE  DataLostOnlyIfPeerShutDown'
  BY <1>17 DEF WriteEnds, EndConnection, actor, listeners, streams, history, TunnelInv,
     TypeInv, DataLostOnlyIfPeerShutDown
<1>18. ASSUME NEW l \in Ids, Leave(l)
      PROVE  DataLostOnlyIfPeerShutDown'
  BY <1>18 DEF Leave, TellActor, actor, listeners, streams, history, TunnelInv, TypeInv,
     DataLostOnlyIfPeerShutDown
<1>19. ASSUME UNCHANGED vars
      PROVE  DataLostOnlyIfPeerShutDown'
  BY <1>19 DEF vars, actor, listeners, streams, history, TunnelInv, TypeInv,
     DataLostOnlyIfPeerShutDown
<1> HIDE DEF TunnelInv
<1> QED
  BY <1>1, <1>2, <1>3, <1>4, <1>5, <1>6, <1>7, <1>8, <1>9, <1>10, <1>11, <1>12, <1>13,
     <1>14, <1>15, <1>16, <1>17, <1>18, <1>19 DEF Next

(* Every step keeps what is known of the map. *)
LEMMA MapStep == TunnelInv /\ [Next]_vars => Mapped'
<1> SUFFICES ASSUME TunnelInv, [Next]_vars
             PROVE  Mapped'
  OBVIOUS
<1>0. TypeInv'
  BY TypeStep
<1>1. ASSUME Request
      PROVE  Mapped'
  <2>1. PICK t \in {"open", "listen", "write", "close"}, i \in 0 .. next_id - 1 :
          /\ t \in {"open", "listen"} <=> i = 0
          /\ inbox' = Append(inbox, Msg(t, i))
    BY <1>1 DEF Request
  <2>2. Msg(t, i) \in Messages /\ \A n : Msg(t, i) # Msg("register", n)
    <3>1. i = 0 \/ i \in Ids
      BY BoundsAreNaturals DEF TunnelInv, TypeInv, Ids
    <3> QED
      BY <2>1, <3>1 DEF Msg, Messages
  <2>3. /\ \A u, n : OnWay(u, n)' <=> OnWay(u, n) \/ Msg(t, i) = Msg(u, n)
        /\ \A n : Once(n) => Once(n)'
    BY <2>1, <2>2, AppendKeeps DEF TunnelInv
  <2>4. KeepsAccounts
    BY <1>1, <2>2, <2>3 DEF KeepsAccounts, Accounted, Request, actor, listeners,
       streams, history, Msg
  <2> QED
    BY <1>1, <1>0, <2>2, <2>3, <2>4, QuietKeeps DEF Request, actor, listeners, streams,
       history
<1>2. ASSUME OpenBegins
      PROVE  Mapped'
  <2>1. /\ inbox[1] = Head(inbox) /\ Head(inbox) \in Messages
             /\ Head(inbox).type = "open"
        /\ \A t, i : OnWay(t, i)' => OnWay(t, i)
        /\ \A t, i : OnWay(t, i) => OnWay(t, i)' \/ Head(inbox) = Msg(t, i)
        /\ \A i : Once(i) => Once(i)'
        /\ \A i : Once(i) /\ Head(inbox) = Msg("register", i) => ~OnWay("register", i)'
    <3>1. inbox # <<>> /\ inbox' = Tail(inbox) /\ Head(inbox).type = "open"
      BY <1>2 DEF OpenBegins, Arrived
    <3>2. /\ inbox' \in Seq(Messages) /\ Without(1)
          /\ inbox[1] = Head(inbox) /\ Head(inbox) \in Messages
      BY <3>1, TailWithout DEF TunnelInv
    <3> QED
      BY <3>1, <3>2, WithoutKeeps DEF TunnelInv
  <2>2. KeepsAccounts
    BY <1>2, <2>1 DEF KeepsAccounts, Accounted, OpenBegins, actor, listeners, streams,
       history, Msg
  <2> QED
    BY <1>2, <1>0, <2>1, <2>2, QuietKeeps DEF OpenBegins, actor, listeners, streams,
       history
<1>3. ASSUME OpenSucceeds
      PROVE  Mapped'
  <2>1. /\ \A t, i : OnWay(t, i)' <=> OnWay(t, i)
        /\ \A i : Once(i)' <=> Once(i)
    BY <1>3 DEF OpenSucceeds, Spawn, actor, listeners, streams, history, OnWay, Once,
       Msg
  <2>2. /\ next_id \in Ids /\ next_id + 1 \in Nat /\ next_id \in Nat
        /\ entry[next_id] = "none" /\ parent[next_id] = 0 /\ listener[next_id] = "none"
    <3>1. next_id \in Ids /\ next_id \in Nat
      BY <1>3, BoundsAreNaturals DEF OpenSucceeds, TunnelInv, TypeInv, Ids
    <3> QED
      BY <3>1 DEF TunnelInv, FreshInv, Ids
  <2>3. /\ next_id' = next_id + 1
        /\ Sets(entry, entry', next_id, "connection")
        /\ Sets(connection, connection', next_id, "running")
        /\ UNCHANGED <<sub_tunnel_ids, parent, listener, holds, overtaken, late>>
    BY <1>3, <2>2 DEF OpenSucceeds, Spawn, Sets, listeners, history, TunnelInv, TypeInv
  <2>4. \A i \in Ids : Accounted(i) \/ i = next_id => Accounted(i)'
    BY <2>1, <2>3 DEF Sets, Accounted
  <2>5. \A i \in Ids : i < next_id => i < next_id' /\ i # next_id
    BY <2>2, <2>3 DEF Ids
  <2>6. \A i \in Ids : Unregistered(i) => Unregistered(i)'
    BY <2>3, <2>4, <2>5 DEF Sets, Unregistered
  <2>7. FreshInv'
    BY <2>2, <2>3 DEF Sets, TunnelInv, FreshInv, Ids
  <2>8. PendingInv'
    BY <2>1, <2>3, <2>6 DEF Sets, TunnelInv, PendingInv
  <2>9. HoldsInv'
    <3>1. \A m \in Ids : listener'[m] = "registering" <=> holds'[m] # 0
      BY <2>3, <2>6 DEF Sets, TunnelInv, HoldsInv
    <3>2. ASSUME NEW m \in Ids, NEW i \in Ids, holds'[m] = i
          PROVE  Unregistered(i)' /\ parent'[i] = m
      <4>1. i # 0
        BY DEF Ids
      <4> QED
        BY <2>3, <2>6, <3>2, <4>1 DEF Sets, TunnelInv, HoldsInv
    <3> QED
      BY <1>0, <3>1, <3>2, HoldsBecome
  <2>10. NoStaleEntryUnlessOvertaken'
    <3>1. \A i \in Ids : entry[i] = "connection" => Accounted(i)
      BY StaleIs DEF TunnelInv
    <3>2. \A i \in Ids : entry'[i] = "connection" => Accounted(i)'
      BY <2>3, <2>4, <3>1 DEF Sets
    <3> QED
      BY <1>0, <3>2, StaleBecomes
  <2>11. SubTunnelsBelongToTheirListener'
    <3> SUFFICES ASSUME NEW i \in Ids, entry'[i] = "connection", parent'[i] # 0
                 PROVE  \/ entry'[parent'[i]] = "listener"
                          /\ i \in sub_tunnel_ids'[parent'[i]]
                        \/ i \in late'
      BY DEF SubTunnelsBelongToTheirListener
    <3>1. /\ parent[i] \in Ids
          /\ \/ entry[parent[i]] = "listener" /\ i \in sub_tunnel_ids[parent[i]]
             \/ i \in late
      BY <2>2, <2>3 DEF Sets, TunnelInv, SubTunnelsBelongToTheirListener, TypeInv, Ids
    <3> QED
      BY <2>2, <2>3, <3>1 DEF Sets
  <2> QED
    BY <2>7, <2>8, <2>9, <2>10, <2>11 DEF Mapped
<1>4. ASSUME OpenFails
      PROVE  Mapped'
  <2>1. /\ \A t, i : OnWay(t, i)' <=> OnWay(t, i)
        /\ \A i : Once(i)' <=> Once(i)
    BY <1>4 DEF OpenFails, actor, listeners, streams, history, OnWay, Once, Msg
  <2>2. KeepsAccounts
    BY <1>4, <2>1 DEF KeepsAccounts, Accounted, OpenFails, actor, listeners, streams,
       history, Msg
  <2> QED
    BY <1>4, <1>0, <2>1, <2>2, QuietKeeps DEF OpenFails, actor, listeners, streams,
       history
<1>5. ASSUME Listen
      PROVE  Mapped'
  <2>1. /\ inbox[1] = Head(inbox) /\ Head(inbox) \in Messages
             /\ Head(inbox).type = "listen"
        /\ \A t, i : OnWay(t, i)' => OnWay(t, i)
        /\ \A t, i : OnWay(t, i) => OnWay(t, i)' \/ Head(inbox) = Msg(t, i)
        /\ \A i : Once(i) => Once(i)'
        /\ \A i : Once(i) /\ Head(inbox) = Msg("register", i) => ~OnWay("register", i)'
    <3>1. inbox # <<>> /\ inbox' = Tail(inbox) /\ Head(inbox).type = "listen"
      BY <1>5 DEF Listen, Arrived
    <3>2. /\ inbox' \in Seq(Messages) /\ Without(1)
          /\ inbox[1] = Head(inbox) /\ Head(inbox) \in Messages
      BY <3>1, TailWithout DEF TunnelInv
    <3> QED
      BY <3>1, <3>2, WithoutKeeps DEF TunnelInv
  <2>2. CASE /\ next_id <= MaxId /\ next_id' = next_id + 1
             /\ entry' = [entry EXCEPT ![next_id] = "listener"]
             /\ listener' = [listener EXCEPT ![next_id] = "accepting"]
    <3>2. /\ next_id \in Ids /\ next_id + 1 \in Nat /\ next_id \in Nat
          /\ entry[next_id] = "none" /\ parent[next_id] = 0
               /\ listener[next_id] = "none"
      <4>1. next_id \in Ids /\ next_id \in Nat
        BY <2>2, BoundsAreNaturals DEF TunnelInv, TypeInv, Ids
      <4> QED
        BY <4>1 DEF TunnelInv, FreshInv, Ids
    <3>3. /\ next_id' = next_id + 1
          /\ Sets(entry, entry', next_id, "listener")
          /\ Sets(listener, listener', next_id, "accepting")
          /\ UNCHANGED <<sub_tunnel_ids, parent, holds, overtaken, late, connection>>
      BY <1>5, <2>2, <3>2 DEF Listen, Sets, streams, history, TunnelInv, TypeInv
    <3>4. \A i \in Ids : Accounted(i) => Accounted(i)'
      BY <2>1, <3>3 DEF Accounted, Msg
    <3>5. \A i \in Ids : i < next_id => i < next_id' /\ i # next_id
      BY <3>2, <3>3 DEF Ids
    <3>6. \A i \in Ids : Unregistered(i) => Unregistered(i)'
      BY <3>3, <3>4, <3>5 DEF Sets, Unregistered
    <3>7. FreshInv'
      BY <3>2, <3>3 DEF Sets, TunnelInv, FreshInv, Ids
    <3>8. PendingInv'
      BY <2>1, <3>3, <3>6 DEF Sets, TunnelInv, PendingInv
    <3>9. HoldsInv'
      <4>1. \A m \in Ids : listener'[m] = "registering" <=> holds'[m] # 0
        BY <3>2, <3>3, <3>6 DEF Sets, TunnelInv, HoldsInv
      <4>2. ASSUME NEW m \in Ids, NEW i \in Ids, holds'[m] = i
            PROVE  Unregistered(i)' /\ parent'[i] = m
        <5>1. i # 0
          BY DEF Ids
        <5> QED
          BY <3>2, <3>3, <3>6, <4>2, <5>1 DEF Sets, TunnelInv, HoldsInv
      <4> QED
        BY <1>0, <4>1, <4>2, HoldsBecome
    <3>10. NoStaleEntryUnlessOvertaken'
      <4>1. \A i \in Ids : entry[i] = "connection" => Accounted(i)
        BY StaleIs DEF TunnelInv
      <4>2. \A i \in Ids : entry'[i] = "connection" => Accounted(i)'
        BY <3>3, <3>4, <4>1 DEF Sets
      <4> QED
        BY <1>0, <4>2, StaleBecomes
    <3>11. SubTunnelsBelongToTheirListener'
      <4> SUFFICES ASSUME NEW i \in Ids, entry'[i] = "connection", parent'[i] # 0
                   PROVE  \/ entry'[parent'[i]] = "listener"
                            /\ i \in sub_tunnel_ids'[parent'[i]]
                          \/ i \in late'
        BY DEF SubTunnelsBelongToTheirListener
      <4>1. /\ parent[i] \in Ids
            /\ \/ entry[parent[i]] = "listener" /\ i \in sub_tunnel_ids[parent[i]]
               \/ i \in late
        BY <3>2, <3>3 DEF Sets, TunnelInv, SubTunnelsBelongToTheirListener, TypeInv, Ids
      <4> QED
        BY <3>2, <3>3, <4>1 DEF Sets
    <3> QED
      BY <3>7, <3>8, <3>9, <3>10, <3>11 DEF Mapped
  <2>3. CASE UNCHANGED <<next_id, entry, listener>>
    <3>1. UNCHANGED <<next_id, entry, sub_tunnel_ids, parent, holds, late, listener,
                      connection, overtaken>>
      BY <1>5, <2>3 DEF Listen, streams, history
    <3>2. KeepsAccounts
      BY <2>1, <3>1 DEF KeepsAccounts, Accounted, Msg
    <3> QED
      BY <1>0, <2>1, <3>1, <3>2, QuietKeeps
  <2> QED
    BY <1>5, <2>2, <2>3 DEF Listen
<1>6. ASSUME Write
      PROVE  Mapped'
  <2>1. /\ inbox[1] = Head(inbox) /\ Head(inbox) \in Messages
             /\ Head(inbox).type = "write"
        /\ \A t, i : OnWay(t, i)' => OnWay(t, i)
        /\ \A t, i : OnWay(t, i) => OnWay(t, i)' \/ Head(inbox) = Msg(t, i)
        /\ \A i : Once(i) => Once(i)'
        /\ \A i : Once(i) /\ Head(inbox) = Msg("register", i) => ~OnWay("register", i)'
    <3>1. inbox # <<>> /\ inbox' = Tail(inbox) /\ Head(inbox).type = "write"
      BY <1>6 DEF Write, Arrived
    <3>2. /\ inbox' \in Seq(Messages) /\ Without(1)
          /\ inbox[1] = Head(inbox) /\ Head(inbox) \in Messages
      BY <3>1, TailWithout DEF TunnelInv
    <3> QED
      BY <3>1, <3>2, WithoutKeeps DEF TunnelInv
  <2>2. KeepsAccounts
    BY <1>6, <2>1 DEF KeepsAccounts, Accounted, Write, actor, listeners, streams,
       history, Msg
  <2> QED
    BY <1>6, <1>0, <2>1, <2>2, QuietKeeps DEF Write, actor, listeners, streams, history
<1>7. ASSUME Close
      PROVE  Mapped'
  <2>1. /\ inbox[1] = Head(inbox) /\ Head(inbox) \in Messages
             /\ Head(inbox).type = "close"
        /\ \A t, i : OnWay(t, i)' => OnWay(t, i)
        /\ \A t, i : OnWay(t, i) => OnWay(t, i)' \/ Head(inbox) = Msg(t, i)
        /\ \A i : Once(i) => Once(i)'
        /\ \A i : Once(i) /\ Head(inbox) = Msg("register", i) => ~OnWay("register", i)'
    <3>1. inbox # <<>> /\ inbox' = Tail(inbox) /\ Head(inbox).type = "close"
      BY <1>7 DEF Close, Arrived
    <3>2. /\ inbox' \in Seq(Messages) /\ Without(1)
          /\ inbox[1] = Head(inbox) /\ Head(inbox) \in Messages
      BY <3>1, TailWithout DEF TunnelInv
    <3> QED
      BY <3>1, <3>2, WithoutKeeps DEF TunnelInv
  <2>2. PICK j \in Ids : Head(inbox) = Msg("close", j)
    BY <2>1 DEF Messages, Msg
  <2>3. PICK C \in SUBSET Ids :
          /\ C = IF entry[j] = "listener" THEN {x \in sub_tunnel_ids[j] :
               entry[x] = "connection"}
                 ELSE IF entry[j] = "connection" THEN {j} ELSE {}
          /\ entry' = [e \in Ids |-> IF e = j \/ e \in C THEN "none" ELSE entry[e]]
          /\ sub_tunnel_ids' = [sub_tunnel_ids EXCEPT ![j] = {}]
    <3> DEFINE C == IF entry[j] = "listener" THEN {x \in sub_tunnel_ids[j] :
          entry[x] = "connection"}
                    ELSE IF entry[j] = "connection" THEN {j} ELSE {}
    <3>1. C \in SUBSET Ids
      BY DEF TunnelInv, TypeInv
    <3>2. Head(inbox).id = j
      BY <2>2 DEF Msg
    <3>3. /\ entry' = [e \in Ids |-> IF e = j \/ e \in C THEN "none" ELSE entry[e]]
          /\ sub_tunnel_ids' = [sub_tunnel_ids EXCEPT ![j] = {}]
      BY <1>7, <3>2 DEF Close
    <3> HIDE DEF C
    <3> QED
      BY <3>1, <3>3 DEF C
  <2>4. /\ \A e \in Ids : entry'[e] = IF e = j \/ e \in C THEN "none" ELSE entry[e]
        /\ Sets(sub_tunnel_ids, sub_tunnel_ids', j, {})
        /\ UNCHANGED <<next_id, parent, listener, holds, connection, overtaken, late>>
    BY <1>7, <2>3 DEF Close, CloseGently, Sets, history, TunnelInv, TypeInv
  <2>5. \A i \in Ids : Accounted(i) => Accounted(i)'
    BY <2>1, <2>2, <2>4 DEF Accounted, Msg
  <2>6. \A i \in Ids : Unregistered(i) => Unregistered(i)'
    BY <2>4, <2>5 DEF Unregistered
  <2>7. FreshInv'
    BY <2>4 DEF Sets, TunnelInv, FreshInv
  <2>8. PendingInv'
    BY <2>1, <2>4, <2>6 DEF TunnelInv, PendingInv
  <2>9. HoldsInv'
    <3>1. \A m \in Ids : listener'[m] = "registering" <=> holds'[m] # 0
      BY <2>4, <2>6 DEF Sets, TunnelInv, HoldsInv
    <3>2. ASSUME NEW m \in Ids, NEW i \in Ids, holds'[m] = i
          PROVE  Unregistered(i)' /\ parent'[i] = m
      <4>1. i # 0
        BY DEF Ids
      <4> QED
        BY <2>4, <2>6, <3>2, <4>1 DEF Sets, TunnelInv, HoldsInv
    <3> QED
      BY <1>0, <3>1, <3>2, HoldsBecome
  <2>10. NoStaleEntryUnlessOvertaken'
    <3>1. \A i \in Ids : entry[i] = "connection" => Accounted(i)
      BY StaleIs DEF TunnelInv
    <3>2. \A i \in Ids : entry'[i] = "connection" => Accounted(i)'
      BY <2>4, <2>5, <3>1 DEF Sets
    <3> QED
      BY <1>0, <3>2, StaleBecomes
  <2>11. SubTunnelsBelongToTheirListener'
    <3> SUFFICES ASSUME NEW i \in Ids, entry'[i] = "connection", parent'[i] # 0
                 PROVE  \/ entry'[parent'[i]] = "listener"
                          /\ i \in sub_tunnel_ids'[parent'[i]]
                        \/ i \in late'
      BY DEF SubTunnelsBelongToTheirListener
    <3>1. /\ parent[i] \in Ids
          /\ \/ entry[parent[i]] = "listener" /\ i \in sub_tunnel_ids[parent[i]]
             \/ i \in late
      BY <2>4 DEF Sets, TunnelInv, SubTunnelsBelongToTheirListener, TypeInv, Ids
    <3>2. entry[i] = "connection" /\ i # j /\ i \notin C
      BY <2>4
    <3>3. entry[parent[i]] = "listener" => parent[i] \notin C
      BY <2>3, <3>2
    <3>4. entry[parent[i]] = "listener" /\ i \in sub_tunnel_ids[parent[i]] =>
            parent[i] # j
      BY <2>3, <3>2
    <3> QED
      BY <2>4, <3>1, <3>3, <3>4 DEF Sets
  <2> QED
    BY <2>7, <2>8, <2>9, <2>10, <2>11 DEF Mapped
<1>8. ASSUME InternalRemove
      PROVE  Mapped'
  <2>1. /\ inbox[1] = Head(inbox) /\ Head(inbox) \in Messages
             /\ Head(inbox).type = "remove"
        /\ \A t, i : OnWay(t, i)' => OnWay(t, i)
        /\ \A t, i : OnWay(t, i) => OnWay(t, i)' \/ Head(inbox) = Msg(t, i)
        /\ \A i : Once(i) => Once(i)'
        /\ \A i : Once(i) /\ Head(inbox) = Msg("register", i) => ~OnWay("register", i)'
    <3>1. inbox # <<>> /\ inbox' = Tail(inbox) /\ Head(inbox).type = "remove"
      BY <1>8 DEF InternalRemove, Arrived
    <3>2. /\ inbox' \in Seq(Messages) /\ Without(1)
          /\ inbox[1] = Head(inbox) /\ Head(inbox) \in Messages
      BY <3>1, TailWithout DEF TunnelInv
    <3> QED
      BY <3>1, <3>2, WithoutKeeps DEF TunnelInv
  <2>2. PICK j \in Ids : Head(inbox) = Msg("remove", j)
    BY <2>1 DEF Messages, Msg
  <2>3. /\ \A e \in Ids : entry'[e] = IF e = j
             /\ entry[j] = "connection" THEN "none" ELSE entry[e]
        /\ \A m \in Ids : \A i \in sub_tunnel_ids[m] : i \in sub_tunnel_ids'[m] \/ i = j
        /\ \A i \in overtaken : i \in overtaken'
        /\ entry[j] # "connection" /\ parent[j] # 0 => j \in overtaken'
        /\ entry[j] # "connection" => sub_tunnel_ids' = sub_tunnel_ids
    <3>1. Head(inbox).id = j
      BY <2>2 DEF Msg
    <3>2. CASE entry[j] = "connection"
      BY <1>8, <3>1, <3>2 DEF InternalRemove, history, TunnelInv, TypeInv
    <3>3. CASE entry[j] # "connection"
      BY <1>8, <3>1, <3>3 DEF InternalRemove, history, TunnelInv, TypeInv
    <3> QED
      BY <3>2, <3>3
  <2>4. UNCHANGED <<next_id, parent, listener, holds, connection, late>>
    BY <1>8 DEF InternalRemove, listeners, history
  <2>5. \A i \in Ids : Accounted(i) /\ i # j => Accounted(i)'
    BY <2>1, <2>2, <2>3, <2>4 DEF Accounted, Msg
  <2>6. \A i \in Ids : Unregistered(i) => Unregistered(i)'
    <3>1. Unregistered(j) => j \in overtaken'
      BY <2>3 DEF Unregistered, Ids
    <3> QED
      BY <2>3, <2>4, <2>5, <3>1 DEF Unregistered, Accounted
  <2>7. FreshInv'
    BY <2>3, <2>4 DEF Sets, TunnelInv, FreshInv
  <2>8. PendingInv'
    BY <2>1, <2>4, <2>6 DEF TunnelInv, PendingInv
  <2>9. HoldsInv'
    <3>1. \A m \in Ids : listener'[m] = "registering" <=> holds'[m] # 0
      BY <2>4, <2>6 DEF Sets, TunnelInv, HoldsInv
    <3>2. ASSUME NEW m \in Ids, NEW i \in Ids, holds'[m] = i
          PROVE  Unregistered(i)' /\ parent'[i] = m
      <4>1. i # 0
        BY DEF Ids
      <4> QED
        BY <2>4, <2>6, <3>2, <4>1 DEF Sets, TunnelInv, HoldsInv
    <3> QED
      BY <1>0, <3>1, <3>2, HoldsBecome
  <2>10. NoStaleEntryUnlessOvertaken'
    <3>1. \A i \in Ids : entry[i] = "connection" => Accounted(i)
      BY StaleIs DEF TunnelInv
    <3>2. \A i \in Ids : entry'[i] = "connection" => Accounted(i)'
      BY <2>3, <2>5, <3>1 DEF Sets
    <3> QED
      BY <1>0, <3>2, StaleBecomes
  <2>11. SubTunnelsBelongToTheirListener'
    <3> SUFFICES ASSUME NEW i \in Ids, entry'[i] = "connection", parent'[i] # 0
                 PROVE  \/ entry'[parent'[i]] = "listener"
                          /\ i \in sub_tunnel_ids'[parent'[i]]
                        \/ i \in late'
      BY DEF SubTunnelsBelongToTheirListener
    <3>1. /\ parent[i] \in Ids
          /\ \/ entry[parent[i]] = "listener" /\ i \in sub_tunnel_ids[parent[i]]
             \/ i \in late
      BY <2>3, <2>4 DEF Sets, TunnelInv, SubTunnelsBelongToTheirListener, TypeInv, Ids
    <3> QED
      BY <2>3, <2>4, <3>1
  <2> QED
    BY <2>7, <2>8, <2>9, <2>10, <2>11 DEF Mapped
<1>9. ASSUME InternalRegisterSubTunnel
      PROVE  Mapped'
  <2>1. /\ inbox[1] = Head(inbox) /\ Head(inbox) \in Messages
             /\ Head(inbox).type = "register"
        /\ \A t, i : OnWay(t, i)' => OnWay(t, i)
        /\ \A t, i : OnWay(t, i) => OnWay(t, i)' \/ Head(inbox) = Msg(t, i)
        /\ \A i : Once(i) => Once(i)'
        /\ \A i : Once(i) /\ Head(inbox) = Msg("register", i) => ~OnWay("register", i)'
    <3>1. inbox # <<>> /\ inbox' = Tail(inbox) /\ Head(inbox).type = "register"
      BY <1>9 DEF InternalRegisterSubTunnel, Arrived
    <3>2. /\ inbox' \in Seq(Messages) /\ Without(1)
          /\ inbox[1] = Head(inbox) /\ Head(inbox) \in Messages
      BY <3>1, TailWithout DEF TunnelInv
    <3> QED
      BY <3>1, <3>2, WithoutKeeps DEF TunnelInv
  <2>2. PICK j \in Ids : Head(inbox) = Msg("register", j)
    BY <2>1 DEF Messages, Msg
  <2>3. /\ OnWay("register", j) /\ Unregistered(j) /\ \A m \in Ids : holds[m] # j
        /\ ~OnWay("register", j)'
    <3>1. inbox # <<>>
      BY <1>9 DEF InternalRegisterSubTunnel, Arrived
    <3>2. 1 \in 1 .. Len(inbox)
      BY <3>1, LenProperties, EmptySeq DEF TunnelInv, TypeInv
    <3>3. OnWay("register", j)
      BY <2>1, <2>2, <3>2 DEF OnWay
    <3> QED
      BY <2>1, <2>2, <3>3 DEF TunnelInv, PendingInv
  <2>4. PICK q \in Ids : q = parent[j]
    BY <2>3 DEF Unregistered
  <2>5. /\ Sets(entry, entry', j, "connection")
        /\ UNCHANGED <<next_id, parent, listener, holds, connection, overtaken>>
    BY <1>9, <2>2 DEF InternalRegisterSubTunnel, listeners, streams, Sets, Msg,
       TunnelInv, TypeInv
  <2>6. /\ \A m \in Ids : \A i \in sub_tunnel_ids[m] : i \in sub_tunnel_ids'[m]
        /\ \A i \in late : i \in late'
        /\ \/ entry[q] = "listener" /\ j \in sub_tunnel_ids'[q]
           \/ j \in late'
    <3>1. Head(inbox).id = j
      BY <2>2 DEF Msg
    <3>2. CASE entry[q] = "listener"
      BY <1>9, <2>4, <3>1, <3>2 DEF InternalRegisterSubTunnel, RegisterWith, TunnelInv,
         TypeInv
    <3>3. CASE entry[q] # "listener"
      BY <1>9, <2>4, <3>1, <3>3 DEF InternalRegisterSubTunnel, RegisterWith
    <3> QED
      BY <3>2, <3>3
  <2>7. \A i \in Ids : Accounted(i) => Accounted(i)'
    BY <2>1, <2>2, <2>5 DEF Accounted, Msg
  <2>8. \A i \in Ids : Unregistered(i) /\ i # j => Unregistered(i)'
    BY <2>5, <2>7 DEF Unregistered, Sets
  <2>9. FreshInv'
    <3>1. ~(j >= next_id)
      BY <2>3 DEF Unregistered, Ids, TunnelInv, TypeInv
    <3> QED
      BY <2>5, <3>1 DEF Sets, TunnelInv, FreshInv
  <2>10. PendingInv'
    BY <2>1, <2>3, <2>5, <2>8 DEF TunnelInv, PendingInv
  <2>11. HoldsInv'
    <3>1. \A m \in Ids : listener'[m] = "registering" <=> holds'[m] # 0
      BY <2>3, <2>5, <2>8 DEF Sets, TunnelInv, HoldsInv
    <3>2. ASSUME NEW m \in Ids, NEW i \in Ids, holds'[m] = i
          PROVE  Unregistered(i)' /\ parent'[i] = m
      <4>1. i # 0
        BY DEF Ids
      <4> QED
        BY <2>3, <2>5, <2>8, <3>2, <4>1 DEF Sets, TunnelInv, HoldsInv
    <3> QED
      BY <1>0, <3>1, <3>2, HoldsBecome
  <2>12. NoStaleEntryUnlessOvertaken'
    <3>1. Accounted(j)
      BY <2>3 DEF Unregistered
    <3>2. \A i \in Ids : entry[i] = "connection" => Accounted(i)
      BY StaleIs DEF TunnelInv
    <3>3. \A i \in Ids : entry'[i] = "connection" => Accounted(i)'
      BY <2>5, <2>7, <3>1, <3>2 DEF Sets
    <3> QED
      BY <1>0, <3>3, StaleBecomes
  <2>13. SubTunnelsBelongToTheirListener'
    <3> SUFFICES ASSUME NEW i \in Ids, entry'[i] = "connection", parent'[i] # 0
                 PROVE  \/ entry'[parent'[i]] = "listener"
                          /\ i \in sub_tunnel_ids'[parent'[i]]
                        \/ i \in late'
      BY DEF SubTunnelsBelongToTheirListener
    <3>1. CASE i = j
      <4>1. entry[j] = "none"
        BY <2>3 DEF Unregistered
      <4>2. entry[q] = "listener" => entry'[q] = "listener"
        BY <2>5, <4>1 DEF Sets
      <4> QED
        BY <2>4, <2>5, <2>6, <3>1, <4>2
    <3>2. CASE i # j
      <4>1. /\ parent[i] \in Ids
            /\ \/ entry[parent[i]] = "listener" /\ i \in sub_tunnel_ids[parent[i]]
               \/ i \in late
        BY <2>5, <3>2 DEF Sets, TunnelInv, SubTunnelsBelongToTheirListener, TypeInv, Ids
      <4>2. entry[j] = "none"
        BY <2>3 DEF Unregistered
      <4> QED
        BY <2>5, <2>6, <4>1, <4>2 DEF Sets
    <3> QED
      BY <3>1, <3>2
  <2> QED
    BY <2>9, <2>10, <2>11, <2>12, <2>13 DEF Mapped
<1>10. ASSUME NEW l \in Ids, Accept(l)
      PROVE  Mapped'
  <2>1. /\ \A t, i : OnWay(t, i)' <=> OnWay(t, i)
        /\ \A i : Once(i)' <=> Once(i)
    BY <1>10 DEF Accept, Spawn, actor, listeners, streams, history, OnWay, Once, Msg
  <2>2. /\ next_id \in Ids /\ next_id + 1 \in Nat /\ next_id \in Nat
        /\ entry[next_id] = "none" /\ parent[next_id] = 0 /\ listener[next_id] = "none"
    <3>1. next_id \in Ids /\ next_id \in Nat
      BY <1>10, BoundsAreNaturals DEF Accept, TunnelInv, TypeInv, Ids
    <3> QED
      BY <3>1 DEF TunnelInv, FreshInv, Ids
  <2>3. /\ next_id' = next_id + 1
        /\ Sets(parent, parent', next_id, l)
        /\ Sets(connection, connection', next_id, "running")
        /\ Sets(listener, listener', l, "registering")
        /\ Sets(holds, holds', l, next_id)
        /\ UNCHANGED <<entry, sub_tunnel_ids, overtaken, late>>
    BY <1>10, <2>2 DEF Accept, Spawn, Sets, history, TunnelInv, TypeInv
  <2>4. \A i \in Ids : Accounted(i) \/ i = next_id => Accounted(i)'
    BY <2>1, <2>3 DEF Sets, Accounted
  <2>5. /\ \A i \in Ids : i < next_id => i < next_id' /\ i # next_id
        /\ next_id < next_id' /\ next_id # 0 /\ l < next_id
    <3>1. l < next_id
      BY <1>10, <2>2 DEF Accept, TunnelInv, FreshInv, Ids
    <3> QED
      BY <2>2, <2>3, <3>1 DEF Ids
  <2>6. \A i \in Ids : Unregistered(i) \/ i = next_id => Unregistered(i)'
    BY <2>2, <2>3, <2>4, <2>5 DEF Sets, Unregistered
  <2>7. FreshInv'
    BY <2>2, <2>3, <2>5 DEF Sets, TunnelInv, FreshInv, Ids
  <2>8. PendingInv'
    <3>1. \A i \in Ids : Unregistered(i) => i # next_id
      BY <2>5 DEF Unregistered
    <3> QED
      BY <2>1, <2>3, <2>6, <3>1 DEF Sets, TunnelInv, PendingInv
  <2>9. HoldsInv'
    <3>1. \A m \in Ids : listener'[m] = "registering" <=> holds'[m] # 0
      BY <2>3, <2>5 DEF Sets, TunnelInv, HoldsInv
    <3>2. ASSUME NEW m \in Ids, NEW i \in Ids, holds'[m] = i
          PROVE  Unregistered(i)' /\ parent'[i] = m
      <4>1. CASE m = l
        BY <2>2, <2>3, <2>6, <3>2, <4>1 DEF Sets
      <4>2. CASE m # l
        <5>1. i # 0 /\ holds[m] = i
          BY <2>3, <3>2, <4>2 DEF Ids, Sets
        <5>2. Unregistered(i) /\ parent[i] = m
          BY <5>1 DEF TunnelInv, HoldsInv
        <5>3. i # next_id
          BY <2>5, <5>2 DEF Unregistered
        <5> QED
          BY <2>3, <2>6, <5>2, <5>3 DEF Sets
      <4> QED
        BY <4>1, <4>2
    <3> QED
      BY <1>0, <3>1, <3>2, HoldsBecome
  <2>10. NoStaleEntryUnlessOvertaken'
    <3>1. \A i \in Ids : entry[i] = "connection" => Accounted(i)
      BY StaleIs DEF TunnelInv
    <3>2. \A i \in Ids : entry'[i] = "connection" => Accounted(i)'
      BY <2>3, <2>4, <3>1 DEF Sets
    <3> QED
      BY <1>0, <3>2, StaleBecomes
  <2>11. SubTunnelsBelongToTheirListener'
    <3> SUFFICES ASSUME NEW i \in Ids, entry'[i] = "connection", parent'[i] # 0
                 PROVE  \/ entry'[parent'[i]] = "listener"
                          /\ i \in sub_tunnel_ids'[parent'[i]]
                        \/ i \in late'
      BY DEF SubTunnelsBelongToTheirListener
    <3>1. i # next_id /\ parent'[i] = parent[i]
      BY <2>2, <2>3 DEF Sets
    <3> QED
      BY <2>3, <3>1 DEF TunnelInv, SubTunnelsBelongToTheirListener
  <2> QED
    BY <2>7, <2>8, <2>9, <2>10, <2>11 DEF Mapped
<1>11. ASSUME NEW l \in Ids, SendRegister(l)
      PROVE  Mapped'
  <2>1. PICK j \in Ids : j = holds[l] /\ j # 0
    BY <1>11 DEF SendRegister, TunnelInv, HoldsInv, TypeInv, Ids
  <2>2. Unregistered(j) /\ parent[j] = l /\ ~OnWay("register", j)
    BY <2>1 DEF TunnelInv, HoldsInv, PendingInv
  <2>3. /\ Msg("register", j) \in Messages /\ inbox' = Append(inbox, Msg("register", j))
        /\ \A i : Msg("register", j) = Msg("register", i) <=> i = j
        /\ \A i : Msg("register", j) # Msg("remove", i)
    BY <1>11, <2>1 DEF SendRegister, Msg, Messages
  <2>4. /\ \A t, i : OnWay(t, i)' <=> OnWay(t, i) \/ Msg("register", j) = Msg(t, i)
        /\ \A i : Once(i) => Once(i)'
    BY <2>2, <2>3, AppendKeeps DEF TunnelInv
  <2>5. /\ Sets(listener, listener', l, "accepting")
        /\ Sets(holds, holds', l, 0)
        /\ UNCHANGED <<next_id, entry, sub_tunnel_ids, parent, connection, overtaken,
                       late>>
    BY <1>11 DEF SendRegister, actor, streams, history, Sets, TunnelInv, TypeInv
  <2>6. \A i \in Ids : Accounted(i) => Accounted(i)'
    BY <2>4, <2>5 DEF Accounted
  <2>7. \A i \in Ids : Unregistered(i) => Unregistered(i)'
    BY <2>5, <2>6 DEF Unregistered
  <2>8. FreshInv'
    <3>1. listener[l] # "none"
      BY <1>11 DEF SendRegister
    <3> QED
      BY <2>5, <3>1 DEF Sets, TunnelInv, FreshInv
  <2>9. PendingInv'
    <3>1. \A m \in Ids : holds'[m] # j
      BY <2>1, <2>2, <2>5 DEF Sets, TunnelInv, HoldsInv
    <3>2. \A i \in Ids : \A m \in Ids : holds'[m] = i => holds[m] = i
      BY <2>5 DEF Sets, Ids
    <3> QED
      BY <2>2, <2>3, <2>4, <2>7, <3>1, <3>2 DEF TunnelInv, PendingInv
  <2>10. HoldsInv'
    <3>1. \A m \in Ids : listener'[m] = "registering" <=> holds'[m] # 0
      BY <2>5 DEF Sets, TunnelInv, HoldsInv
    <3>2. ASSUME NEW m \in Ids, NEW i \in Ids, holds'[m] = i
          PROVE  Unregistered(i)' /\ parent'[i] = m
      <4>1. i # 0 /\ holds[m] = i
        BY <2>5, <3>2 DEF Ids, Sets
      <4> QED
        BY <2>5, <2>7, <4>1 DEF TunnelInv, HoldsInv
    <3> QED
      BY <1>0, <3>1, <3>2, HoldsBecome
  <2>11. NoStaleEntryUnlessOvertaken'
    <3>1. \A i \in Ids : entry[i] = "connection" => Accounted(i)
      BY StaleIs DEF TunnelInv
    <3>2. \A i \in Ids : entry'[i] = "connection" => Accounted(i)'
      BY <2>5, <2>6, <3>1 DEF Sets
    <3> QED
      BY <1>0, <3>2, StaleBecomes
  <2>12. SubTunnelsBelongToTheirListener'
    BY <2>5 DEF TunnelInv, SubTunnelsBelongToTheirListener
  <2> QED
    BY <2>8, <2>9, <2>10, <2>11, <2>12 DEF Mapped
<1>12. ASSUME NEW l \in Ids, AcceptFails(l)
      PROVE  Mapped'
  <2>1. Msg("remove", l) \in Messages /\ inbox' = Append(inbox, Msg("remove", l))
    BY <1>12 DEF AcceptFails, actor, listeners, streams, history, Msg, Messages
  <2>2. /\ \A t, i : OnWay(t, i)' <=> OnWay(t, i) \/ Msg("remove", l) = Msg(t, i)
        /\ \A i : Msg("remove", l) # Msg("register", i)
        /\ \A i : Once(i) => Once(i)'
    <3>1. \A i : Msg("remove", l) # Msg("register", i)
      BY DEF Msg
    <3> QED
      BY <2>1, <3>1, AppendKeeps DEF TunnelInv
  <2>3. \A m \in Ids : /\ listener'[m] = "registering" <=> listener[m] = "registering"
                       /\ listener[m] = "none" => listener'[m] = "none"
    BY <1>12 DEF AcceptFails, TunnelInv, TypeInv
  <2>4. KeepsAccounts
    BY <1>12, <2>2, <2>3 DEF KeepsAccounts, Accounted, AcceptFails, actor, listeners,
       streams, history, Msg
  <2> QED
    BY <1>12, <1>0, <2>2, <2>3, <2>4, QuietKeeps DEF AcceptFails, actor, listeners,
       streams, history
<1>13. ASSUME NEW l \in Ids, Stop(l)
      PROVE  Mapped'
  <2>1. /\ \A t, i : OnWay(t, i)' => OnWay(t, i)
        /\ \A i : OnWay("remove", i) => OnWay("remove", i)'
        /\ \A i : Once(i) => Once(i)'
    <3>1. CASE UNCHANGED <<inbox, write_tx>>
      BY <3>1 DEF OnWay, Once, Msg
    <3>2. ASSUME NEW k \in Waiting(l), inbox' = RemoveAt(inbox, k)
          PROVE  /\ \A t, i : OnWay(t, i)' => OnWay(t, i)
                 /\ \A i : OnWay("remove", i) => OnWay("remove", i)'
                 /\ \A i : Once(i) => Once(i)'
      <4>1. k \in 1 .. Len(inbox) /\ inbox[k].type = "register"
        BY LenProperties DEF Waiting, TunnelInv, TypeInv
      <4>2. inbox' \in Seq(Messages) /\ Without(k)
        BY <3>2, <4>1, RemoveAtWithout DEF TunnelInv
      <4>3. \A i : inbox[k] # Msg("remove", i)
        BY <4>1 DEF Msg
      <4> QED
        BY <4>2, <4>3, WithoutKeeps DEF TunnelInv
    <3> QED
      BY <1>13, <3>1, <3>2 DEF Stop
  <2>2. \A m \in Ids : /\ listener'[m] = "registering" <=> listener[m] = "registering"
                       /\ listener[m] = "none" => listener'[m] = "none"
    BY <1>13 DEF Stop, TunnelInv, TypeInv
  <2>3. KeepsAccounts
    BY <1>13, <2>1, <2>2 DEF KeepsAccounts, Accounted, Stop, actor, listeners, streams,
       history, Msg
  <2> QED
    BY <1>13, <1>0, <2>1, <2>2, <2>3, QuietKeeps DEF Stop, actor, listeners, streams,
       history
<1>14. ASSUME NEW l \in Ids, PeerMoves(l)
      PROVE  Mapped'
  <2>1. /\ \A t, i : OnWay(t, i)' <=> OnWay(t, i)
        /\ \A i : Once(i)' <=> Once(i)
    BY <1>14 DEF PeerMoves, actor, listeners, streams, history, OnWay, Once, Msg
  <2>2. KeepsAccounts
    BY <1>14, <2>1 DEF KeepsAccounts, Accounted, PeerMoves, actor, listeners, streams,
       history, Msg
  <2> QED
    BY <1>14, <1>0, <2>1, <2>2, QuietKeeps DEF PeerMoves, actor, listeners, streams,
       history
<1>15. ASSUME NEW l \in Ids, WriteOut(l)
      PROVE  Mapped'
  <2>1. /\ \A t, i : OnWay(t, i)' <=> OnWay(t, i)
        /\ \A i : Once(i)' <=> Once(i)
    BY <1>15 DEF WriteOut, actor, listeners, streams, history, OnWay, Once, Msg
  <2>2. KeepsAccounts
    BY <1>15, <2>1 DEF KeepsAccounts, Accounted, WriteOut, actor, listeners, streams,
       history, Msg
  <2> QED
    BY <1>15, <1>0, <2>1, <2>2, QuietKeeps DEF WriteOut, actor, listeners, streams,
       history
<1>16. ASSUME NEW l \in Ids, ReadEnds(l)
      PROVE  Mapped'
  <2>1. /\ \A t, i : OnWay(t, i)' <=> OnWay(t, i)
        /\ \A i : Once(i)' <=> Once(i)
    BY <1>16 DEF ReadEnds, EndConnection, actor, listeners, streams, history, OnWay,
       Once, Msg
  <2>2. \A i \in Ids : connection[i] \in {"running", "ended"} =>
          connection'[i] \in {"running", "ended"}
    BY <1>16 DEF ReadEnds, EndConnection, actor, listeners, streams, history, TunnelInv,
       TypeInv
  <2>3. KeepsAccounts
    BY <1>16, <2>1, <2>2 DEF KeepsAccounts, Accounted, ReadEnds, EndConnection, actor,
       listeners, streams, history, Msg
  <2> QED
    BY <1>16, <1>0, <2>1, <2>2, <2>3, QuietKeeps DEF ReadEnds, EndConnection, actor,
       listeners, streams, history
<1>17. ASSUME NEW l \in Ids, WriteEnds(l)
      PROVE  Mapped'
  <2>1. /\ \A t, i : OnWay(t, i)' <=> OnWay(t, i)
        /\ \A i : Once(i)' <=> Once(i)
    BY <1>17 DEF WriteEnds, EndConnection, actor, listeners, streams, history, OnWay,
       Once, Msg
  <2>2. \A i \in Ids : connection[i] \in {"running", "ended"} =>
          connection'[i] \in {"running", "ended"}
    BY <1>17 DEF WriteEnds, EndConnection, actor, listeners, streams, history,
       TunnelInv, TypeInv
  <2>3. KeepsAccounts
    BY <1>17, <2>1, <2>2 DEF KeepsAccounts, Accounted, WriteEnds, EndConnection, actor,
       listeners, streams, history, Msg
  <2> QED
    BY <1>17, <1>0, <2>1, <2>2, <2>3, QuietKeeps DEF WriteEnds, EndConnection, actor,
       listeners, streams, history
<1>18. ASSUME NEW l \in Ids, Leave(l)
      PROVE  Mapped'
  <2>1. Msg("remove", l) \in Messages /\ inbox' = Append(inbox, Msg("remove", l))
    BY <1>18 DEF Leave, TellActor, actor, listeners, streams, history, Msg, Messages
  <2>2. /\ \A t, i : OnWay(t, i)' <=> OnWay(t, i) \/ Msg("remove", l) = Msg(t, i)
        /\ \A i : Msg("remove", l) # Msg("register", i)
        /\ \A i : Once(i) => Once(i)'
    <3>1. \A i : Msg("remove", l) # Msg("register", i)
      BY DEF Msg
    <3> QED
      BY <2>1, <3>1, AppendKeeps DEF TunnelInv
  <2>3. \A i \in Ids : i # l => connection'[i] = connection[i]
    BY <1>18 DEF Leave, TunnelInv, TypeInv
  <2>4. KeepsAccounts
    BY <1>18, <2>2, <2>3 DEF KeepsAccounts, Accounted, Leave, TellActor, actor,
       listeners, streams, history, Msg
  <2> QED
    BY <1>18, <1>0, <2>2, <2>3, <2>4, QuietKeeps DEF Leave, TellActor, actor, listeners,
       streams, history
<1>19. ASSUME UNCHANGED vars
      PROVE  Mapped'
  <2>1. /\ \A t, i : OnWay(t, i)' <=> OnWay(t, i)
        /\ \A i : Once(i)' <=> Once(i)
    BY <1>19 DEF vars, actor, listeners, streams, history, OnWay, Once, Msg
  <2>2. KeepsAccounts
    BY <1>19, <2>1 DEF KeepsAccounts, Accounted, vars, actor, listeners, streams,
       history, Msg
  <2> QED
    BY <1>19, <1>0, <2>1, <2>2, QuietKeeps DEF vars, actor, listeners, streams, history
<1> HIDE DEF TunnelInv
<1> QED
  BY <1>1, <1>2, <1>3, <1>4, <1>5, <1>6, <1>7, <1>8, <1>9, <1>10, <1>11, <1>12, <1>13,
     <1>14, <1>15, <1>16, <1>17, <1>18, <1>19 DEF Next

-----------------------------------------------------------------------------
(* The theorems *)

(* The host starts without tunnels, so the invariant holds. *)
LEMMA InitTunnelInv == Init => TunnelInv
<1> SUFFICES ASSUME Init
             PROVE  TunnelInv
  OBVIOUS
<1>1. inbox \in Seq(Messages) /\ Len(inbox) = 0 /\ DOMAIN inbox = {}
  BY EmptySeq DEF Init
<1>2. 1 \in 1 .. MaxId + 1 /\ 0 \in 0 .. MaxId
  BY BoundsAreNaturals
<1>3. TypeInv
  BY <1>1, <1>2 DEF Init, TypeInv
<1>4. \A t, i : ~OnWay(t, i)
  BY <1>1 DEF OnWay
<1>5. \A i : Once(i)
  BY <1>1 DEF Once
<1>6. FreshInv /\ PendingInv
  BY <1>4, <1>5 DEF Init, FreshInv, PendingInv
<1>7. HoldsInv
  BY DEF Init, HoldsInv
<1>8. /\ NoStaleEntryUnlessOvertaken /\ SubTunnelsBelongToTheirListener
      /\ DataLostOnlyIfPeerShutDown
  BY DEF Init, NoStaleEntryUnlessOvertaken, SubTunnelsBelongToTheirListener,
         DataLostOnlyIfPeerShutDown
<1> QED
  BY <1>3, <1>6, <1>7, <1>8 DEF TunnelInv

(* The invariant always holds. *)
LEMMA TunnelInvHolds == Spec => []TunnelInv
<1>1. TunnelInv /\ [Next]_vars => TunnelInv'
  BY TypeStep, DataStep, MapStep DEF TunnelInv, Mapped
<1> QED
  BY <1>1, InitTunnelInv, PTL DEF Spec

(* tunnel_task: a connection that is in the actor's map has a task that runs,
   or a message that will remove it waits for the actor, however the ends of
   connections, the registrations and the closes of clients come together.
   Only a removal that overtook its registration leaves an entry behind. *)
THEOREM NoEntryIsStaleUnlessOvertaken == Spec => []NoStaleEntryUnlessOvertaken
<1>1. TunnelInv => NoStaleEntryUnlessOvertaken
  BY DEF TunnelInv
<1> QED
  BY <1>1, TunnelInvHolds, PTL

(* close_tunnel: whatever a client closes and in whatever order sub-tunnels
   are accepted, registered and removed, a registered sub-tunnel is on the
   list that closing its listener goes through, unless it came too late. *)
THEOREM ListenersKnowTheirSubTunnels == Spec => []SubTunnelsBelongToTheirListener
<1>1. TunnelInv => SubTunnelsBelongToTheirListener
  BY DEF TunnelInv
<1> QED
  BY <1>1, TunnelInvHolds, PTL

(* connection_task: data that a write accepted is lost only with a peer that
   has shut down its side, never because a client closes the tunnel. *)
THEOREM ClosingLosesNoData == Spec => []DataLostOnlyIfPeerShutDown
<1>1. TunnelInv => DataLostOnlyIfPeerShutDown
  BY DEF TunnelInv
<1> QED
  BY <1>1, TunnelInvHolds, PTL
=============================================================================
