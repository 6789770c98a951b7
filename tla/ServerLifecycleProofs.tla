------------------------- MODULE ServerLifecycleProofs -------------------------
(***************************************************************************)
(* Proofs about ServerLifecycle, for any number of connections: as long as *)
(* no two connections are open at the same time, a lonely timer runs while *)
(* there is no connection and only then, if no restart came too early.     *)
(***************************************************************************)
EXTENDS ServerLifecycle, FiniteSetTheorems, TLAPS

\* At most one connection is open, unless two have been.
OneOpen == overlapped \/ \A c, d \in Open : c = d

\* An entry that is live belongs to a task that is in its loop.
LiveIsActive == \A c \in Conns : entry[c] = "live" => pc[c] = "loop"

\* A connection task that has not ended keeps a lonely timer stopped.
StoppedWhileActive ==
  mode = "Lonely" /\ Active # {} => overlapped \/ timer # "running"

(* The other half of what a lonely timer is for: without a connection it runs,
   until it has gone off or the listener has failed.  The last connection to
   end has restarted it, since the only unfinished entry is its own, unless it
   took the aborted task for a running timer. *)
TimerRunsWhileLonely ==
  mode = "Lonely" /\ Active = {} /\ callback = "pending" =>
    overlapped \/ missed \/ timer = "running"

TimerInv ==
  TypeOK /\ OneOpen /\ LiveIsActive /\ StoppedWhileActive /\ TimerRunsWhileLonely

-----------------------------------------------------------------------------
(* A set whose elements are all the same has at most one. *)
LEMMA AtMostOneElement ==
  ASSUME NEW S, NEW x, S \subseteq {x}
  PROVE  Cardinality(S) <= 1
<1>1. S = {} \/ S = {x}
  OBVIOUS
<1>2. Cardinality({}) = 0 /\ Cardinality({x}) = 1
  BY FS_EmptySet, FS_Singleton
<1> QED
  BY <1>1, <1>2

(* At first there is no connection, and the timer runs. *)
LEMMA TimerInit == Init => TimerInv
BY DEF Init, TimerStarted, TimerInv, TypeOK, OneOpen, LiveIsActive, StoppedWhileActive,
   TimerRunsWhileLonely, Active, Open

(* One step per action. *)
LEMMA TimerStep == TimerInv /\ [Next]_vars => TimerInv'
<1> SUFFICES ASSUME TimerInv, [Next]_vars PROVE TimerInv'
  OBVIOUS
<1> USE DEF history, TimerInv, TypeOK, OneOpen, LiveIsActive, StoppedWhileActive,
            TimerRunsWhileLonely, Active, Open
<1>1. CASE Expire
  BY <1>1 DEF Expire
<1>2. CASE AcceptFails
  BY <1>2 DEF AcceptFails
<1>3. CASE Notified
  BY <1>3 DEF Notified, Broadcast
<1>4. CASE Terminate
  BY <1>4 DEF Terminate
<1>5. CASE RequestShutdown
  BY <1>5 DEF RequestShutdown, Broadcast
<1>6. ASSUME NEW c \in Conns, Accept(c) PROVE TimerInv'
  BY <1>6 DEF Accept, Stop
<1>7. ASSUME NEW c \in Conns, Establish(c) PROVE TimerInv'
  BY <1>7 DEF Establish
<1>8. ASSUME NEW c \in Conns, Disconnect(c) \/ Cancel(c) PROVE TimerInv'
  BY <1>8 DEF Disconnect, Cancel, StartToEnd
<1>9. ASSUME NEW c \in Conns, FinishEntry(c) PROVE TimerInv'
  BY <1>9 DEF FinishEntry
<1>10. ASSUME NEW c \in Conns, End(c) PROVE TimerInv'
  <2>1. ~overlapped => Unfinished \subseteq {c}
    BY <1>10 DEF End, Unfinished
  <2>2. ~overlapped => LastConnection
    BY <2>1, AtMostOneElement DEF LastConnection
  <2> QED
    BY <1>10, <2>2 DEF End, Restart
<1>11. CASE UNCHANGED vars
  BY <1>11 DEF vars
<1>12. CASE AbortedEnds
  BY <1>12 DEF AbortedEnds
<1> HIDE DEF TimerInv
<1> QED
  BY <1>1, <1>2, <1>3, <1>4, <1>5, <1>6, <1>7, <1>8, <1>9, <1>10, <1>11, <1>12 DEF Next

(* The invariant, and what a run checks of it. *)
LEMMA TimerInvariant == Spec => []TimerInv
BY TimerInit, TimerStep, PTL DEF Spec

(* A lonely timer does not run while a connection is established, if no two
   connections were ever open at the same time. *)
THEOREM ConnectionsStopTheTimer == Spec => []TimerStoppedUnlessOverlap
<1>1. TimerInv => TimerStoppedUnlessOverlap
  BY DEF TimerInv, StoppedWhileActive, TimerStoppedUnlessOverlap,
     TimerStoppedWhileConnected,
         Active
<1> QED
  BY TimerInvariant, <1>1, PTL

(* Nor does it fail to run when the last connection is gone, unless that one's
   restart came too early: with the fairness of the timer this is why a lonely
   server shuts down. *)
THEOREM TheLastConnectionRestartsTheTimer == Spec => []TimerRunsWhileLonely
<1>1. TimerInv => TimerRunsWhileLonely
  BY DEF TimerInv
<1> QED
  BY TimerInvariant, <1>1, PTL
=============================================================================
