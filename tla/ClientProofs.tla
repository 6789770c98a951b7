----------------------------- MODULE ClientProofs -----------------------------
(***************************************************************************)
(* Proofs about the client, for any set of reconnect strategies, any       *)
(* callers and any number of disconnects: what watchers are told, and how  *)
(* often and after what sleeps it tries to reconnect (ClientLoop); and for *)
(* any requests, any number of responses and any capacity: that responses  *)
(* reach those who wait for them (PostOffice).                             *)
(***************************************************************************)
EXTENDS ClientLoop, PostOffice, TLAPS

-----------------------------------------------------------------------------
(* The event loop: watchers and reconnecting *)

Limit == Nat \union {None}

TypeOK ==
  /\ strategy \in Strategies
  /\ pc \in {"select", "deliver", "attempt", "sleep", "ended"}
  /\ remaining \in Limit
  /\ previous_sleep \in Limit
  /\ current_sleep \in Nat
  /\ attempts \in Nat
  /\ watcher \in {"connected", "reconnecting", "disconnected"}
  /\ established \in BOOLEAN
  /\ result \in {"none", "ok", "err", "aborted"}

\* What the watchers were told last fits where the loop is; only an abort
\* leaves them with what they had.
WatcherInv ==
  /\ pc \in {"select", "deliver"} => watcher = "connected"
  /\ pc \in {"attempt", "sleep"} => watcher = "reconnecting"
  /\ result = "none" <=> pc # "ended"

\* The attempts that were made and those that are left add up.
RetriesInv ==
  /\ strategy.max_retries = None => remaining = None
  /\ strategy.max_retries # None =>
       remaining \in Nat /\ attempts + remaining = strategy.max_retries
  /\ pc = "attempt" => MoreRetries(remaining)
  /\ pc \in {"attempt", "sleep"} => strategy.kind # "fail"

\* From the second attempt on the sleep before it was put through the limit.
SleepInv ==
  \/ strategy.kind = "fixed"
  \/ strategy.max_duration = None
  \/ /\ pc = "attempt" /\ attempts > 0 => current_sleep <= strategy.max_duration
     /\ pc = "sleep" /\ attempts > 1 => current_sleep <= strategy.max_duration

LoopInv ==
  /\ TypeOK
  /\ WatcherInv
  /\ RetriesInv
  /\ SleepInv
  /\ WatcherTellsTheTruth
  /\ AllAttemptsWithinLimits

-----------------------------------------------------------------------------
(* A strategy has the fields ReconnectStrategy has. *)
LEMMA StrategyFields ==
  ASSUME NEW s \in Strategies
  PROVE  /\ s.kind \in {"fail", "exponential", "fibonacci", "fixed"}
         /\ s.base \in Nat /\ s.factor \in Nat
         /\ s.max_duration \in Limit /\ s.max_retries \in Limit
         /\ s.max_retries < MaxAttempts
         /\ MaxAttempts \in Nat /\ MaxSleep \in Nat
BY StrategiesAreStrategies, BoundsAreNaturals DEF Limit

(* A sleep is never negative, whatever the strategy makes of it, and what has
   been capped is within the limit. *)
LEMMA NextSleep ==
  ASSUME strategy \in Strategies, NEW prev \in Limit, NEW curr \in Nat
  PROVE  /\ Capped(AdjustSleep(prev, curr)) \in Nat
         /\ strategy.kind # "fixed" /\ strategy.max_duration # None =>
              Capped(AdjustSleep(prev, curr)) <= strategy.max_duration
<1>1. strategy.factor \in Nat /\ strategy.max_duration \in Limit /\ MaxSleep \in Nat
  BY StrategyFields
<1>2. curr * strategy.factor \in Nat
  BY <1>1
<1>3. AdjustSleep(prev, curr) \in Nat
  BY <1>1, <1>2 DEF AdjustSleep, Saturated, Limit, None
<1> QED
  BY <1>1, <1>3 DEF Capped, Limit

(* The client begins with a connection, and with all its retries. *)
LEMMA LoopInit == Init => LoopInv
<1> SUFFICES ASSUME Init PROVE LoopInv
  OBVIOUS
<1>1. strategy \in Strategies
  BY DEF Init
<1> QED
  BY <1>1, StrategyFields DEF Init, LoopInv, TypeOK, WatcherInv, RetriesInv, SleepInv,
     WatcherTellsTheTruth, AllAttemptsWithinLimits, Reconnecting, Limit, None

(* One step per action of the loop. *)
LEMMA LoopStep == LoopInv /\ [Next]_vars => LoopInv'
<1> SUFFICES ASSUME LoopInv, [Next]_vars PROVE LoopInv'
  OBVIOUS
<1>0. /\ strategy.kind \in {"fail", "exponential", "fibonacci", "fixed"}
      /\ strategy.base \in Nat /\ strategy.max_duration \in Limit
      /\ strategy.max_retries \in Limit
      /\ strategy.max_retries < MaxAttempts /\ MaxAttempts \in Nat
  BY StrategyFields DEF LoopInv, TypeOK
<1> USE DEF LoopInv, TypeOK, WatcherInv, RetriesInv, SleepInv, WatcherTellsTheTruth,
            AllAttemptsWithinLimits, Reconnecting, backoff, Limit, None
<1>1. CASE AttemptSucceeds
  BY <1>0, <1>1 DEF AttemptSucceeds, BackToSelect
<1>2. CASE AttemptFails
  BY <1>0, <1>2 DEF AttemptFails, MoreRetries, Decremented
<1>3. CASE SleepEnds
  <2>1. /\ current_sleep' \in Nat /\ previous_sleep' \in Limit
        /\ strategy.kind # "fixed" /\ strategy.max_duration # None =>
             current_sleep' <= strategy.max_duration
    BY <1>3, NextSleep DEF SleepEnds
  <2>2. UNCHANGED <<strategy, remaining, attempts, established>> /\ pc = "sleep"
    BY <1>3 DEF SleepEnds
  <2>3. CASE MoreRetries(remaining) /\ pc' = "attempt" /\ UNCHANGED <<watcher, result,
                                                                      request>>
    BY <1>0, <2>1, <2>2, <2>3 DEF MoreRetries
  <2>4. CASE ~MoreRetries(remaining) /\ GiveUp
    BY <1>0, <2>1, <2>2, <2>4 DEF MoreRetries, GiveUp, EndedWith
  <2> QED
    BY <1>3, <2>3, <2>4 DEF SleepEnds
<1>4. CASE Break
  BY <1>0, <1>4 DEF Break
<1>5. CASE ReadResponse \/ Delivered
  BY <1>0, <1>5 DEF ReadResponse, Delivered
<1>6. CASE LoseConnection
  <2>1. /\ pc = "select" /\ strategy' = strategy /\ established' = FALSE
        /\ remaining' = strategy.max_retries /\ attempts' = 0
        /\ previous_sleep' = None /\ current_sleep' = strategy.base
    BY <1>6 DEF LoseConnection, Reconnect
  <2>2. CASE strategy.kind = "fail" /\ EndedWith("err")
    <3>1. TypeOK' /\ WatcherInv' /\ WatcherTellsTheTruth'
      BY <1>0, <2>1, <2>2 DEF EndedWith
    <3>2. RetriesInv' /\ SleepInv' /\ AllAttemptsWithinLimits'
      BY <1>0, <2>1, <2>2 DEF EndedWith
    <3> QED
      BY ONLY <3>1, <3>2 DEF LoopInv
  <2>3. CASE /\ strategy.kind # "fail" /\ MoreRetries(strategy.max_retries)
             /\ pc' = "attempt" /\ watcher' = "reconnecting" /\ UNCHANGED <<result,
                                                                            request>>
    <3>1. TypeOK' /\ WatcherInv' /\ WatcherTellsTheTruth'
      BY <1>0, <2>1, <2>3 DEF MoreRetries
    <3>2. RetriesInv' /\ SleepInv' /\ AllAttemptsWithinLimits'
      BY <1>0, <2>1, <2>3 DEF MoreRetries
    <3> QED
      BY ONLY <3>1, <3>2 DEF LoopInv
  <2>4. CASE ~MoreRetries(strategy.max_retries) /\ BackToSelect
    <3>1. TypeOK' /\ WatcherInv' /\ WatcherTellsTheTruth'
      <4>1. strategy'.max_retries = 0
        BY <1>0, <2>1, <2>4 DEF MoreRetries
      <4>2. pc' = "select" /\ watcher' = "connected" /\ result' = result
        BY <2>4 DEF BackToSelect
      <4> QED
        BY <1>0, <2>1, <4>1, <4>2
    <3>2. RetriesInv' /\ SleepInv' /\ AllAttemptsWithinLimits'
      BY <1>0, <2>1, <2>4 DEF MoreRetries, BackToSelect
    <3> QED
      BY ONLY <3>1, <3>2 DEF LoopInv
  <2> QED
    BY <1>6, <2>2, <2>3, <2>4 DEF LoseConnection, Reconnect
<1>7. CASE Abort
  BY <1>0, <1>7 DEF Abort
<1>8. ASSUME NEW c \in Callers, TakeShutdown(c) PROVE LoopInv'
  BY <1>0, <1>8 DEF TakeShutdown
<1>9. ASSUME NEW c \in Callers, Shutdown(c) \/ Enqueue(c) PROVE LoopInv'
  BY <1>0, <1>9 DEF Shutdown, Enqueue
<1>10. CASE UNCHANGED vars
  BY <1>0, <1>10 DEF vars
<1> HIDE DEF LoopInv
<1> QED
  BY <1>1, <1>2, <1>3, <1>4, <1>5, <1>6, <1>7, <1>8, <1>9, <1>10 DEF Next

(* Watchers are told the truth about a client: that it is connected only while
   it holds a connection established since it last gave one up (but for a
   strategy without retries), and that it has ended whenever it ends by itself. *)
THEOREM WatchersAreToldTheTruth == Spec => []WatcherTellsTheTruth
<1>1. LoopInv => WatcherTellsTheTruth
  BY DEF LoopInv
<1> QED
  BY LoopInit, LoopStep, <1>1, PTL DEF Spec

(* reconnect() makes all the attempts its strategy allows before it gives up
   and none beyond them, and from the second attempt on sleeps no longer than
   the limit, for every base, factor, limit and saturation. *)
THEOREM AttemptsKeepTheLimits == Spec => []AllAttemptsWithinLimits
<1>1. LoopInv => AllAttemptsWithinLimits
  BY DEF LoopInv
<1> QED
  BY LoopInit, LoopStep, <1>1, PTL DEF Spec

-----------------------------------------------------------------------------
(* The post office *)

PostTypeOK ==
  /\ caller \in [Requesters -> {"idle", "mailing", "waiting", "stalled", "gone", "failed"}]
  /\ buffer \in [Requesters -> Nat]
  /\ outgoing = <<>> \/ \E c \in Requesters : outgoing = <<c>>
  /\ owed \in [Requesters -> Nat]
  /\ incoming \in [Requesters -> Nat]
  /\ dropped \in [Requesters -> Nat]

\* A mailbox that somebody may still read is in the map.
OpenIsListed == \A c \in Requesters : IsOpen(c) => c \in mailboxes

\* Nothing is asked, answered or dropped for a caller that has not begun.
NothingUnasked ==
  \A c \in Requesters : caller[c] = "idle" =>
    outgoing # <<c>> /\ owed[c] = 0 /\ incoming[c] = 0 /\ dropped[c] = 0

PostInv == PostTypeOK /\ OpenIsListed /\ NothingUnasked /\ NoAnswerDropped

(* At first nobody has asked. *)
LEMMA PostOfficeInit == PostInit => PostInv
BY DEF PostInit, PostInv, PostTypeOK, OpenIsListed, NothingUnasked, NoAnswerDropped,
   IsOpen

(* Every step keeps the invariant. *)
LEMMA PostStep == PostInv /\ [PostNext]_postVars => PostInv'
<1> SUFFICES ASSUME PostInv, [PostNext]_postVars PROVE PostInv'
  OBVIOUS
<1> USE DEF PostInv, PostTypeOK, OpenIsListed, NothingUnasked, NoAnswerDropped, IsOpen
<1>1. CASE TakeRequest
  <2>1. PICK c \in Requesters : outgoing = <<c>>
    BY <1>1 DEF TakeRequest
  <2>2. PICK n \in 1 .. MaxReplies : owed' = [owed EXCEPT ![c] = n]
    BY <1>1, <2>1 DEF TakeRequest
  <2>3. n \in Nat /\ caller[c] # "idle"
    BY <2>1
  <2> QED
    BY <1>1, <2>2, <2>3 DEF TakeRequest
<1>2. ASSUME NEW c \in Requesters, TakeResponse(c) PROVE PostInv'
  <2>1. caller[c] # "idle"
    BY <1>2 DEF TakeResponse
  <2>2. CASE c \in mailboxes
    BY <1>2, <2>1, <2>2 DEF TakeResponse
  <2>3. CASE c \notin mailboxes
    <3>1. /\ incoming' = [incoming EXCEPT ![c] = @ - 1] /\ incoming[c] > 0
          /\ dropped' = [dropped EXCEPT ![c] = @ + 1]
          /\ UNCHANGED <<caller, mailboxes, buffer, outgoing, owed>>
      BY <1>2, <2>3 DEF TakeResponse
    <3>2. PostTypeOK' /\ OpenIsListed'
      BY <3>1
    <3>3. NothingUnasked'
      BY <2>1, <3>1
    <3>4. NoAnswerDropped'
      BY <2>3, <3>1
    <3> QED
      BY <3>2, <3>3, <3>4
  <2> QED
    BY <2>2, <2>3
<1>3. ASSUME NEW c \in Requesters, SendToMailbox(c) PROVE PostInv'
  BY <1>3 DEF SendToMailbox
<1>4. ASSUME NEW c \in Requesters, SendToDropped(c) PROVE PostInv'
  BY <1>4 DEF SendToDropped
<1>5. CASE End
  BY <1>5 DEF End
<1>6. CASE Cleanup
  BY <1>6 DEF Cleanup, Orphans
<1>7. ASSUME NEW c \in Requesters, MakeMailbox(c) PROVE PostInv'
  BY <1>7 DEF MakeMailbox
<1>8. ASSUME NEW c \in Requesters, Fire(c) PROVE PostInv'
  BY <1>8 DEF Fire
<1>9. ASSUME NEW c \in Requesters, Fail(c) PROVE PostInv'
  BY <1>9 DEF Fail
<1>10. ASSUME NEW c \in Requesters, Next_(c) PROVE PostInv'
  <2>1. buffer' \in [Requesters -> Nat]
    BY <1>10 DEF Next_
  <2>2. \/ caller' = [caller EXCEPT ![c] = "gone"] \/ caller' = caller
        \/ caller[c] = "waiting" /\ caller' = [caller EXCEPT ![c] = "stalled"]
    BY <1>10 DEF Next_
  <2>3. UNCHANGED <<mailboxes, outgoing, owed, incoming, dropped>>
    BY <1>10 DEF Next_
  <2> QED
    BY <2>1, <2>2, <2>3
<1>11. ASSUME NEW c \in Requesters, Timeout(c) PROVE PostInv'
  BY <1>11 DEF Timeout
<1>12. ASSUME NEW c \in Requesters, Respond(c) PROVE PostInv'
  BY <1>12 DEF Respond
<1>13. ASSUME NEW c \in Requesters, Forwarded(c) PROVE PostInv'
  BY <1>13 DEF Forwarded
<1>14. CASE UNCHANGED postVars
  BY <1>14 DEF postVars
<1> QED
  BY <1>1, <1>2, <1>3, <1>4, <1>5, <1>6, <1>7, <1>8, <1>9, <1>10, <1>11, <1>12, <1>13,
     <1>14 DEF PostNext, EventLoop

(* For any callers, mailboxes of any capacity and any number of responses to a
   request: no response is dropped while its caller waits for it. *)
THEOREM NoAnswerIsDropped == PostSpec => []NoAnswerDropped
<1>1. PostInv => NoAnswerDropped
  BY DEF PostInv
<1> QED
  BY PostOfficeInit, PostStep, <1>1, PTL DEF PostSpec
===============================================================================
