------------------------------ MODULE ClientLoop ------------------------------
(***************************************************************************)
(* The event loop of a client (UntypedClient::spawn in net/client.rs) with *)
(* its reconnect strategy (client/reconnect.rs), the requests to shut it   *)
(* down (client/shutdown.rs), and the connection state its watchers see.   *)
(*                                                                         *)
(* Frames are the business of FramedTransport and PostOffice.  Here the    *)
(* link is up or it is not, a response is being delivered or it is not, a  *)
(* reconnect attempt succeeds, fails or goes on and on, and a duration is  *)
(* a number.                                                               *)
(***************************************************************************)
EXTENDS Integers, FiniteSets

CONSTANTS
  Callers,        \* those who call shutdown()
  Strategies,     \* the reconnect strategies a client may be configured with
  MaxBreaks,      \* bound: how often the link breaks or goes silent
  MaxSleep,       \* u64::MAX milliseconds, at which a sleep saturates
  MaxAttempts     \* bound: attempts of one reconnect() are counted up to here

None == -1        \* Option::None for max_retries and max_duration

ASSUME StrategiesAreStrategies ==
  Strategies \subseteq
    [kind : {"fail", "exponential", "fibonacci", "fixed"}, base : Nat,
     factor : Nat, max_duration : Nat \union {None},
     max_retries : Nat \union {None}, timeout : BOOLEAN]
ASSUME BoundsAreNaturals ==
  /\ MaxBreaks \in Nat /\ MaxSleep \in Nat /\ MaxAttempts \in Nat
  /\ \A s \in Strategies : s.max_retries < MaxAttempts /\ s.base <= MaxSleep

VARIABLES
  strategy,       \* the configuration: never changes
  pc,             \* "select", "deliver", "attempt", "sleep" or "ended"
  link,           \* is the connection usable?
  remaining,      \* retries_remaining
  previous_sleep, \* previous_sleep, None before the first
  current_sleep,  \* current_sleep
  attempts,       \* attempts made by this call of reconnect()
  watcher,        \* what ConnectionWatcher::last returns
  established,    \* history: was the connection replaced since it was given up?
  result,         \* what the task returned
  request,        \* [Callers -> progress of their shutdown()]
  breaks

vars == <<strategy, pc, link, remaining, previous_sleep, current_sleep,
          attempts, watcher, established, result, request, breaks>>

backoff == <<remaining, previous_sleep, current_sleep, attempts>>

Init ==
  /\ strategy \in Strategies
  /\ pc = "select"
  /\ link = TRUE
  /\ remaining = strategy.max_retries
  /\ previous_sleep = None
  /\ current_sleep = strategy.base
  /\ attempts = 0
  /\ watcher = "connected"
  /\ established = TRUE
  /\ result = "none"
  /\ request = [c \in Callers |-> "idle"]
  /\ breaks = 0

-----------------------------------------------------------------------------
(* ReconnectStrategy *)

\* Some(0) is not "more than Some(0)": no attempt is made at all.
MoreRetries(r) == r = None \/ r > 0

Decremented(r) == IF r > 0 THEN r - 1 ELSE r

Saturated(d) == IF d <= MaxSleep THEN d ELSE MaxSleep

AdjustSleep(prev, curr) ==
  CASE strategy.kind = "exponential" -> Saturated(curr * strategy.factor)
    [] strategy.kind = "fibonacci" ->
         Saturated((IF prev = None THEN 0 ELSE prev) + curr)
    [] OTHER -> curr

\* Mutant: the limit is not applied.
UncappedSleep(d) == d

\* The limit on the time between attempts.  A fixed interval has none, and the
\* first sleep of a backoff is not put through this.
Capped(d) ==
  IF strategy.kind = "fixed" \/ strategy.max_duration = None THEN d
  ELSE IF d <= strategy.max_duration THEN d ELSE strategy.max_duration

\* The loop goes on with the connection it has.
BackToSelect ==
  /\ pc' = "select"
  /\ watcher' = "connected"
  /\ UNCHANGED <<result, request>>

\* Callers whose request is in the channel, or who have not got into it yet,
\* learn that the task is gone.
DropRequests ==
  [c \in Callers |-> IF request[c] \in {"sending", "queued"} THEN "already"
                     ELSE request[c]]

EndedWith(r) ==
  /\ pc' = "ended"
  /\ result' = r
  /\ watcher' = "disconnected"
  /\ request' = DropRequests

\* Mutant: reconnect() forgets the error of its last attempt and returns Ok.
GiveUpQuietly == BackToSelect

\* reconnect() returns the error of its last attempt, and the loop ends.
GiveUp == EndedWith("err")

\* needs_reconnect is set and the loop calls reconnect(), up to its first await.
Reconnect ==
  /\ established' = FALSE
  /\ remaining' = strategy.max_retries
  /\ previous_sleep' = None
  /\ current_sleep' = strategy.base
  /\ attempts' = 0
  /\ \/ /\ strategy.kind = "fail"
        /\ EndedWith("err")
     \/ /\ strategy.kind # "fail"
        /\ MoreRetries(strategy.max_retries)
        /\ pc' = "attempt"
        /\ watcher' = "reconnecting"
        /\ UNCHANGED <<result, request>>
     \/ /\ strategy.kind # "fail"
        /\ ~MoreRetries(strategy.max_retries)
        /\ BackToSelect

(* The attempt succeeds: the connection has a new link. *)
AttemptSucceeds ==
  /\ pc = "attempt"
  /\ link' = TRUE
  /\ established' = TRUE
  /\ BackToSelect
  /\ UNCHANGED <<strategy, backoff, breaks>>

(* The attempt fails, or its time is up. *)
AttemptFails ==
  /\ pc = "attempt"
  /\ pc' = "sleep"
  /\ attempts' = IF attempts < MaxAttempts THEN attempts + 1 ELSE attempts
  /\ remaining' = Decremented(remaining)
  /\ UNCHANGED <<strategy, link, previous_sleep, current_sleep, watcher,
                 established, result, request, breaks>>

(* The sleep is over: the next attempt, or the error of the last one. *)
SleepEnds ==
  /\ pc = "sleep"
  /\ previous_sleep' = current_sleep
  /\ current_sleep' = Capped(AdjustSleep(previous_sleep, current_sleep))
  /\ \/ /\ MoreRetries(remaining)
        /\ pc' = "attempt"
        /\ UNCHANGED <<watcher, result, request>>
     \/ /\ ~MoreRetries(remaining)
        /\ GiveUp
  /\ UNCHANGED <<strategy, link, remaining, attempts, established, breaks>>

-----------------------------------------------------------------------------
(* The event loop *)

(* The network drops the connection, or the server falls silent. *)
Break ==
  /\ link
  /\ breaks < MaxBreaks
  /\ link' = FALSE
  /\ breaks' = breaks + 1
  /\ UNCHANGED <<strategy, pc, backoff, watcher, established, result, request>>

(* A response is read, on the link or out of what it left behind, and the loop
   waits in deliver_untyped_response.  The requests to shut down and the link
   are not looked at meanwhile. *)
ReadResponse ==
  /\ pc = "select"
  /\ pc' = "deliver"
  /\ UNCHANGED <<strategy, link, backoff, watcher, established, result, request, breaks>>

(* The response was delivered or dropped. *)
Delivered ==
  /\ pc = "deliver"
  /\ pc' = "select"
  /\ UNCHANGED <<strategy, link, backoff, watcher, established, result, request, breaks>>

(* ready(), a read, a write or a flush fails, the stream is at its end, or
   nothing has been read for the silence duration: the loop reconnects. *)
LoseConnection ==
  /\ pc = "select"
  /\ ~link
  /\ Reconnect
  /\ UNCHANGED <<strategy, link, breaks>>

\* Mutant: the caller is not answered.
NoAnswer(c) == [DropRequests EXCEPT ![c] = "queued"]

Answered(c) == [DropRequests EXCEPT ![c] = "ok"]

(* The select takes a request to shut down, answers it and ends the loop. *)
TakeShutdown(c) ==
  /\ pc = "select"
  /\ request[c] = "queued"
  /\ pc' = "ended"
  /\ result' = "ok"
  /\ watcher' = "disconnected"
  /\ request' = Answered(c)
  /\ UNCHANGED <<strategy, link, backoff, established, breaks>>

(* A client that is dropped with shutdown_on_drop aborts its task at whatever
   await it is at: the watchers are not told. *)
Abort ==
  /\ pc # "ended"
  /\ pc' = "ended"
  /\ result' = "aborted"
  /\ request' = DropRequests
  /\ UNCHANGED <<strategy, link, backoff, watcher, established, breaks>>

-----------------------------------------------------------------------------
(* Shutdown::shutdown *)

\* The channel has room for one request.
Queued == {c \in Callers : request[c] = "queued"}

Shutdown(c) ==
  /\ request[c] = "idle"
  /\ request' = [request EXCEPT ![c] = IF pc = "ended" THEN "already" ELSE "sending"]
  /\ UNCHANGED <<strategy, pc, link, backoff, watcher, established, result, breaks>>

Enqueue(c) ==
  /\ request[c] = "sending"
  /\ Queued = {}
  /\ request' = [request EXCEPT ![c] = "queued"]
  /\ UNCHANGED <<strategy, pc, link, backoff, watcher, established, result, breaks>>

Next ==
  \/ AttemptSucceeds
  \/ AttemptFails
  \/ SleepEnds
  \/ Break
  \/ ReadResponse
  \/ Delivered
  \/ LoseConnection
  \/ Abort
  \/ \E c \in Callers : TakeShutdown(c)
  \/ \E c \in Callers : Shutdown(c)
  \/ \E c \in Callers : Enqueue(c)

Spec == Init /\ [][Next]_vars

\* The task is polled whenever it can go on, and a sleep ends.  An attempt ends
\* for certain only if there is a timeout, and a delivery not even then: it may
\* wait for room in a mailbox, or for a lock, for ever (PostOffice).  The select
\* picks one of its ready branches at random, so a request that is there again
\* and again when it looks is taken (SF).
FairSpec ==
  /\ Spec
  /\ WF_vars(SleepEnds)
  /\ WF_vars(LoseConnection)
  /\ WF_vars(strategy.timeout /\ AttemptFails)
  /\ \A c \in Callers : WF_vars(Enqueue(c)) /\ SF_vars(TakeShutdown(c))

-----------------------------------------------------------------------------
(* Properties *)

Reconnecting == pc \in {"attempt", "sleep"}

(* What ConnectionWatcher says of a client.  "connected": the loop holds a
   connection that was established after the last one it gave up, except that
   with max_retries = Some(0) reconnect() returns Ok without an attempt and a
   dead connection is reported as connected.  "disconnected": the task ended,
   and one that ends by itself always says so; whoever aborted it has to know
   without the watcher.  "reconnecting": it does, or was aborted doing so. *)
WatcherTellsTheTruth ==
  /\ watcher = "connected" /\ strategy.max_retries # 0 => established
  /\ watcher = "disconnected" => pc = "ended"
  /\ pc = "ended" /\ result # "aborted" => watcher = "disconnected"
  /\ watcher = "reconnecting" => Reconnecting \/ result = "aborted"

(* A client gives up only after all attempts it is allowed, never makes one
   more, and between them never waits for longer than the strategy's limit,
   except before its second attempt: the first sleep is the base, which is
   not capped. *)
AllAttemptsWithinLimits ==
  /\ strategy.max_retries # None => attempts <= strategy.max_retries
  /\ result = "err" /\ strategy.kind # "fail" => attempts = strategy.max_retries
  /\ pc = "sleep" /\ attempts > 1 /\ strategy.kind # "fixed"
       /\ strategy.max_duration # None => current_sleep <= strategy.max_duration

(* Every call of shutdown() returns, but for the two places where the loop does
   not look at the requests: with unlimited retries, or an attempt that never
   ends, the client may reconnect for ever, and the delivery of one response
   may never be over. *)
ShutdownReturnsUnlessReconnectingOrDelivering ==
  \A c \in Callers :
    request[c] \in {"sending", "queued"} ~>
      \/ request[c] \in {"ok", "already"}
      \/ [](Reconnecting /\ (strategy.max_retries = None \/ ~strategy.timeout))
      \/ [](pc = "deliver")
=============================================================================
