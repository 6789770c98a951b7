------------------------------ MODULE HostProcess ------------------------------
(***************************************************************************)
(* Processes on the host (distant-host, api/state/process.rs, process/     *)
(* instance.rs, api/process/simple.rs): the actor that owns the map of     *)
(* processes, and around each process the tasks that write its stdin, read *)
(* its output, pass the output on, and wait for its end.                   *)
(*                                                                         *)
(* The process, its pipes and its descendants are external: it produces    *)
(* chunks of output, takes input or does not, and exits.  The end of its   *)
(* pipes may never be seen, as a descendant can keep them open.  As in     *)
(* HostTunnel, the actor's channel and those who wait for room in it are   *)
(* one queue.                                                              *)
(***************************************************************************)
EXTENDS Naturals, Sequences, FiniteSets

CONSTANTS
  Procs,
  Streams,        \* stdout and stderr
  Plans           \* bounds: how often, for each process, there is a request of
                  \* each kind, and a chunk of output per stream

None == "none"

ASSUME NoneIsNoProcess == None \notin Procs
ASSUME PlansAreBounds ==
  Plans \subseteq [Procs -> [spawn : 0 .. 1, stdin : Nat, kill : Nat, output : Nat]]

VARIABLES
  inbox,
  todo,         \* [Procs -> what is left of the plan]
  blocked,      \* the process into whose stdin the actor is sending, or None
  processes,    \* ids in the map
  os,           \* [Procs -> "none", "running" or "exited"]
  takes,        \* processes whose stdin pipe takes data
  kill_tx,      \* processes with a kill request in the channel
  status,       \* processes whose exit status was sent
  waiter,       \* [Procs -> "none", "wait", "drain", "done" or "left"]
  stdin,        \* [Procs -> "closed", "empty" or "full"], the stdin channel
  writing,      \* processes whose write task is in write_all
  reader,       \* [Procs -> [Streams -> "none", "running", "aborted" or "gone"]]
  pipe,         \* [Procs -> [Streams -> chunks not yet read]]
  channel,      \* [Procs -> [Streams -> 0 or 1]], from the reader to its forwarder
  produced,     \* [Procs -> [Streams -> chunks the process wrote]]
  reported,     \* [Procs -> [Streams -> chunks sent to the client]]
  lost,         \* history: [Procs -> [Streams -> chunks nobody read]]
  late          \* history: processes whose drain timed out

actor == <<inbox, todo, blocked, processes>>
process == <<os, takes, produced>>
input == <<stdin, writing>>
ending == <<kill_tx, status, waiter, late>>
output == <<reader, pipe, channel, reported, lost>>
vars == <<actor, process, input, ending, output>>

PerStream(v) == [p \in Procs |-> [s \in Streams |-> v]]

Init ==
  /\ inbox = <<>>
  /\ todo \in Plans
  /\ blocked = None
  /\ processes = {}
  /\ os = [p \in Procs |-> "none"]
  /\ takes = Procs
  /\ kill_tx = {} /\ status = {}
  /\ waiter = [p \in Procs |-> "none"]
  /\ stdin = [p \in Procs |-> "closed"]
  /\ writing = {}
  /\ reader = PerStream("none")
  /\ pipe = PerStream(0)
  /\ channel = PerStream(0)
  /\ produced = PerStream(0)
  /\ reported = PerStream(0)
  /\ lost = PerStream(0)
  /\ late = {}

Msg(t, p) == [type |-> t, id |-> p]

-----------------------------------------------------------------------------
(* Clients, and the process itself *)

\* spawn(), send_stdin() or kill().
Request(t, p) ==
  /\ todo[p][t] > 0
  /\ t = "spawn" \/ os[p] # "none"
  /\ inbox' = Append(inbox, Msg(t, p))
  /\ todo' = [todo EXCEPT ![p][t] = @ - 1]
  /\ UNCHANGED <<blocked, processes, process, input, ending, output>>

\* The process stops or resumes to take what is written to its stdin.
Reads(p) ==
  /\ os[p] = "running"
  /\ takes' = IF p \in takes THEN takes \ {p} ELSE takes \union {p}
  /\ UNCHANGED <<actor, os, produced, input, ending, output>>

Produce(p, s) ==
  /\ os[p] = "running"
  /\ produced[p][s] < todo[p].output
  /\ produced' = [produced EXCEPT ![p][s] = @ + 1]
  /\ pipe' = [pipe EXCEPT ![p][s] = @ + 1]
  /\ UNCHANGED <<actor, os, takes, input, ending, reader, channel, reported, lost>>

Exit(p) ==
  /\ os[p] = "running"
  /\ os' = [os EXCEPT ![p] = "exited"]
  /\ UNCHANGED <<actor, takes, produced, input, ending, output>>

-----------------------------------------------------------------------------
(* process_task *)

Arrived(t) == blocked = None /\ inbox # <<>> /\ Head(inbox).type = t

\* ProcessInstance::spawn and SimpleProcess::spawn; or the command is refused.
Spawn ==
  /\ Arrived("spawn")
  /\ inbox' = Tail(inbox)
  /\ LET p == Head(inbox).id IN
     \/ /\ processes' = processes \union {p}
        /\ os' = [os EXCEPT ![p] = "running"]
        /\ stdin' = [stdin EXCEPT ![p] = "empty"]
        /\ reader' = [reader EXCEPT ![p] = [s \in Streams |-> "running"]]
        /\ waiter' = [waiter EXCEPT ![p] = "wait"]
     \/ UNCHANGED <<processes, os, stdin, reader, waiter>>
  /\ UNCHANGED <<todo, blocked, takes, produced, writing, kill_tx,
                 status, late, pipe, channel, reported, lost>>

\* The data goes into the channel of the write task.  If that is full the
\* actor waits, and with it everybody who wants something of it.
Stdin ==
  /\ Arrived("stdin")
  /\ inbox' = Tail(inbox)
  /\ LET p == Head(inbox).id IN
     \/ /\ p \in processes /\ stdin[p] = "empty"
        /\ stdin' = [stdin EXCEPT ![p] = "full"]
        /\ UNCHANGED blocked
     \/ /\ p \in processes /\ stdin[p] = "full"
        /\ blocked' = p
        /\ UNCHANGED stdin
     \/ /\ p \notin processes \/ stdin[p] = "closed"
        /\ UNCHANGED <<stdin, blocked>>
  /\ UNCHANGED <<todo, processes, process, writing, ending, output>>

StdinSent ==
  /\ blocked # None
  /\ stdin[blocked] # "full"
  /\ stdin' = IF stdin[blocked] = "empty" THEN [stdin EXCEPT ![blocked] = "full"]
              ELSE stdin
  /\ blocked' = None
  /\ UNCHANGED <<inbox, todo, processes, process, writing, ending, output>>

\* The kill channel has room for one; once the status is sent nobody reads it.
KillRequested(p) ==
  IF p \in processes /\ p \notin status THEN kill_tx \union {p} ELSE kill_tx

Kill ==
  /\ Arrived("kill")
  /\ Head(inbox).id \notin kill_tx
  /\ inbox' = Tail(inbox)
  /\ kill_tx' = KillRequested(Head(inbox).id)
  /\ UNCHANGED <<todo, blocked, processes, process, input, status, waiter,
                 late, output>>

\* The instance is dropped, and its stdin with it.
InternalRemove ==
  /\ Arrived("remove")
  /\ inbox' = Tail(inbox)
  /\ LET p == Head(inbox).id IN
     /\ processes' = processes \ {p}
     /\ stdin' = [stdin EXCEPT ![p] = "closed"]
  /\ UNCHANGED <<todo, blocked, process, writing, ending, output>>

-----------------------------------------------------------------------------
(* The tasks around a process *)

\* write_handler: takes data from the channel, and writes it, or fails because
\* nobody is left to read it.
TakeStdin(p) ==
  /\ stdin[p] = "full"
  /\ p \notin writing
  /\ stdin' = [stdin EXCEPT ![p] = "empty"]
  /\ writing' = writing \union {p}
  /\ UNCHANGED <<actor, process, ending, output>>

WriteStdin(p) ==
  /\ p \in writing
  /\ p \in takes
  /\ writing' = writing \ {p}
  /\ UNCHANGED <<actor, process, stdin, ending, output>>

WriteFails(p) ==
  /\ p \in writing
  /\ os[p] = "exited"
  /\ stdin' = [stdin EXCEPT ![p] = "closed"]
  /\ writing' = writing \ {p}
  /\ UNCHANGED <<actor, process, ending, output>>

\* The task that owns the child: killed on request, or gone by itself.
KillChild(p) ==
  /\ p \in kill_tx
  /\ p \notin status
  /\ kill_tx' = kill_tx \ {p}
  /\ os' = [os EXCEPT ![p] = "exited"]
  /\ status' = status \union {p}
  /\ UNCHANGED <<actor, takes, produced, input, waiter, late, output>>

ChildExits(p) ==
  /\ os[p] = "exited"
  /\ p \notin status
  /\ status' = status \union {p}
  /\ kill_tx' = kill_tx \ {p}
  /\ UNCHANGED <<actor, process, input, waiter, late, output>>

\* read_handler: a chunk goes into the channel when that is empty.
Read(p, s) ==
  /\ reader[p][s] \in {"running", "aborted"}
  /\ pipe[p][s] > 0
  /\ channel[p][s] = 0
  /\ pipe' = [pipe EXCEPT ![p][s] = @ - 1]
  /\ channel' = [channel EXCEPT ![p][s] = 1]
  /\ UNCHANGED <<actor, process, input, ending, reader, reported, lost>>

\* The reader is at the end of the pipe, or was aborted: then what is in the
\* pipe is never read.
ReaderEnds(p, s) ==
  /\ \/ reader[p][s] = "aborted"
     \/ reader[p][s] = "running" /\ os[p] = "exited" /\ pipe[p][s] = 0
  /\ reader' = [reader EXCEPT ![p][s] = "gone"]
  /\ lost' = [lost EXCEPT ![p][s] = @ + pipe[p][s]]
  /\ pipe' = [pipe EXCEPT ![p][s] = 0]
  /\ UNCHANGED <<actor, process, input, ending, channel, reported>>

\* stdout_task and stderr_task
Forward(p, s) ==
  /\ channel[p][s] = 1
  /\ channel' = [channel EXCEPT ![p][s] = 0]
  /\ reported' = [reported EXCEPT ![p][s] = @ + 1]
  /\ UNCHANGED <<actor, process, input, ending, reader, pipe, lost>>

\* Mutant: the forwarder stops as soon as the reader has gone.
NothingMore(p, s) == reader[p][s] = "gone"

\* The forwarder ends when nothing is left and nothing more can come.
ChannelAtEnd(p, s) == reader[p][s] = "gone" /\ channel[p][s] = 0

\* SimpleProcess::wait aborts the tasks at the pipes, and returns to wait_task.
WaitReturns(p) ==
  /\ waiter[p] = "wait"
  /\ p \in status
  /\ waiter' = [waiter EXCEPT ![p] = "drain"]
  /\ stdin' = [stdin EXCEPT ![p] = "closed"]
  /\ writing' = writing \ {p}
  /\ reader' = [reader EXCEPT ![p] =
       [s \in Streams |-> IF @[s] = "running" THEN "aborted" ELSE @[s]]]
  /\ UNCHANGED <<actor, process, kill_tx, status, late, pipe, channel, reported, lost>>

\* Mutant: wait_task does not wait for the output.
NoDrain(p) == TRUE

Drained(p) == \A s \in Streams : ChannelAtEnd(p, s)

\* wait_task sends ProcDone, after the output or after OUTPUT_DRAIN_TIMEOUT.
Done(p) ==
  /\ waiter[p] = "drain"
  /\ Drained(p)
  /\ waiter' = [waiter EXCEPT ![p] = "done"]
  /\ UNCHANGED <<actor, process, input, kill_tx, status, late, output>>

DrainTimesOut(p) ==
  /\ waiter[p] = "drain"
  /\ ~Drained(p)
  /\ waiter' = [waiter EXCEPT ![p] = "done"]
  /\ late' = late \union {p}
  /\ UNCHANGED <<actor, process, input, kill_tx, status, output>>

\* Mutant: nobody tells the actor.
NoCallback(p) == inbox

RemoveLater(p) == Append(inbox, Msg("remove", p))

\* The callback of on_done.
OnDone(p) ==
  /\ waiter[p] = "done"
  /\ waiter' = [waiter EXCEPT ![p] = "left"]
  /\ inbox' = RemoveLater(p)
  /\ UNCHANGED <<todo, blocked, processes, process, input, kill_tx, status,
                 late, output>>

-----------------------------------------------------------------------------
Actor == Spawn \/ Stdin \/ StdinSent \/ Kill \/ InternalRemove

Next ==
  \/ Spawn
  \/ Stdin
  \/ StdinSent
  \/ Kill
  \/ InternalRemove
  \/ \E p \in Procs :
       \/ \E t \in {"spawn", "stdin", "kill"} : Request(t, p)
       \/ Reads(p)
       \/ Exit(p)
       \/ TakeStdin(p)
       \/ WriteStdin(p)
       \/ WriteFails(p)
       \/ KillChild(p)
       \/ ChildExits(p)
       \/ WaitReturns(p)
       \/ Done(p)
       \/ DrainTimesOut(p)
       \/ OnDone(p)
       \/ \E s \in Streams :
            \/ Produce(p, s)
            \/ Read(p, s)
            \/ ReaderEnds(p, s)
            \/ Forward(p, s)

Spec == Init /\ [][Next]_vars

\* Tasks that can go on are polled, and the timer of the drain fires.  Nothing
\* makes a process exit, or take its input.
FairSpec ==
  /\ Spec
  /\ WF_vars(Actor)
  /\ \A p \in Procs :
       /\ WF_vars(TakeStdin(p))
       /\ WF_vars(WriteStdin(p))
       /\ WF_vars(KillChild(p))
       /\ WF_vars(ChildExits(p))
       /\ WF_vars(WaitReturns(p))
       /\ WF_vars(Done(p) \/ DrainTimesOut(p))
       /\ WF_vars(OnDone(p))

-----------------------------------------------------------------------------
(* Properties *)

(* ProcDone is the last a client hears of a process, unless the drain timed
   out: "drains stdout/stderr before sending ProcDone". *)
DoneIsLast ==
  \A p \in Procs : waiter[p] \in {"done", "left"} /\ p \notin late =>
    \A s \in Streams : channel[p][s] = 0 /\ reader[p][s] = "gone"

(* Once a process is done, all its output was reported, but for the chunks
   that were still in the pipe when wait() aborted the reader: those are lost
   on every exit that overtakes the reader. *)
OutputReportedUnlessUnread ==
  \A p \in Procs : waiter[p] \in {"done", "left"} /\ p \notin late =>
    \A s \in Streams : reported[p][s] + lost[p][s] = produced[p][s]

(* A kill request for a process in the map ends it, and a process that has
   ended leaves the map, unless the actor waits for ever on the stdin of some
   process that runs and does not read: then nothing is answered at all. *)
KilledOrBlocked ==
  \A p \in Procs :
    p \in processes /\ (os[p] = "exited" \/ \E i \in DOMAIN inbox : inbox[i] = Msg("kill", p))
      ~> p \notin processes \/ [](\E q \in Procs : blocked = q /\ os[q] = "running")
=============================================================================
