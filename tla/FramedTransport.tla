--------------------------- MODULE FramedTransport ---------------------------
(***************************************************************************)
(* Two peers of a distant connection, each with a FramedTransport          *)
(* (distant-core/src/net/common/transport/framed.rs) and its Backup        *)
(* (framed/backup.rs): frames are written, counted and kept for replay,    *)
(* the link breaks, and on a new link both peers run synchronize().        *)
(*                                                                         *)
(* A frame is the number of the frame in its writer's output.  Every frame *)
(* has the same length, so the size limit of the backup is a number of     *)
(* frames.  Both peers count the frames of the first authentication alike, *)
(* so the counts start at zero.  The bytes between two peers are one       *)
(* sequence per writer:                                                    *)
(*                                                                         *)
(*   pipe[p] = frames p wrote on this link that its peer has not consumed, *)
(*             oldest first; the first inbuf[p] of them are in the peer's  *)
(*             `incoming` buffer, the next onwire[p] in the socket, and    *)
(*             the others in p's own `outgoing` buffer.                    *)
(*                                                                         *)
(* The empty frames that the server sends as heartbeats are not numbered:  *)
(* `beats` of them are somewhere among its frames, and take no room.  The  *)
(* codec is the one of an established connection, which encrypts.          *)
(***************************************************************************)
EXTENDS Integers, Sequences

CONSTANTS
  Client, Server,    \* the two peers
  FrameLimit,        \* bound: how many frames each peer may write
  MaxBackup,         \* max_backup_size, in frames
  LinkCap,           \* frames the socket holds before a write would block
  MaxBreaks,         \* bound: how often the network breaks the link
  MaxReopens,        \* bound: how often the client opens a new link
  MaxBeats,          \* bound: heartbeats on one link
  AttemptTimeout     \* does the reconnect strategy have a timeout?

Peers == {Client, Server}

ASSUME PeersDiffer == Client # Server
ASSUME BoundsAreNaturals ==
  /\ FrameLimit \in [Peers -> Nat]
  /\ MaxBackup \in Nat
  /\ LinkCap \in Nat \ {0}
  /\ MaxBreaks \in Nat
  /\ MaxReopens \in Nat
  /\ MaxBeats \in Nat
  /\ AttemptTimeout \in BOOLEAN

VARIABLES
  backup,      \* [Peers -> Backup]
  phase,       \* what each peer is doing with its transport
  link,        \* state of the link: "up" or "broken"
  pipe,        \* [writer -> frames in flight]
  inbuf,       \* [writer -> frames of pipe in the reader's incoming buffer]
  onwire,      \* [writer -> frames of pipe in the socket]
  stats,       \* [writer -> the stats frame of this link, <<>> if not written]
  swallowed,   \* [reader -> was the peer's stats frame cleared unread?]
  resend,      \* [writer -> frames synchronize still has to write again]
  expected,    \* [reader -> frames synchronize still has to read]
  written,     \* history: [writer -> frames written so far]
  delivered,   \* history: [reader -> frames handed to the caller, in order]
  beats,       \* heartbeats of the server on their way on this link
  heard,       \* history: [link -> heartbeats the client has read on it]
  breaks,      \* how often the network broke the link
  reopens      \* how often a new link was opened

vars == <<backup, phase, link, pipe, inbuf, onwire, stats, swallowed, resend,
          expected, written, delivered, beats, heard, breaks, reopens>>

Other(p) == IF p = Client THEN Server ELSE Client

Min(a, b) == IF a <= b THEN a ELSE b
\* Mutant: one frame too few is sent again, and the peer waits for as few.
SaturatingSubOffByOne(a, b) == IF a > b THEN a - b - 1 ELSE 0

SaturatingSub(a, b) == IF a >= b THEN a - b ELSE 0

-----------------------------------------------------------------------------
(* Backup *)

NewBackup == [frames |-> <<>>, sent_cnt |-> 0, received_cnt |-> 0,
              frozen |-> FALSE]

\* Mutant: the connection logic runs with a live backup.
FreezeForgotten(b) == b

Freeze(b) == [b EXCEPT !.frozen = TRUE]
Unfreeze(b) == [b EXCEPT !.frozen = FALSE]

IncrementSentCnt(b) ==
  IF b.frozen THEN b ELSE [b EXCEPT !.sent_cnt = @ + 1]

IncrementReceivedCnt(b) ==
  IF b.frozen THEN b ELSE [b EXCEPT !.received_cnt = @ + 1]

SetReceivedCnt(b, n) ==
  IF b.frozen THEN b ELSE [b EXCEPT !.received_cnt = n]

\* The last k frames of a sequence: what is left once the older ones are popped.
Newest(fs, k) == SubSeq(fs, Len(fs) - Min(Len(fs), k) + 1, Len(fs))

PushFrame(b, f) ==
  IF MaxBackup > 0 /\ ~b.frozen
  THEN [b EXCEPT !.frames = Newest(Append(@, f), MaxBackup)]
  ELSE b

TruncateFront(b, k) ==
  IF b.frozen THEN b ELSE [b EXCEPT !.frames = Newest(@, k)]

\* The frames that reconnect_client itself exchanges outside of the codec
\* handshake: it writes the reconnect request and a public key and reads a key.
CountReconnectFrames(b) ==
  IncrementReceivedCnt(IncrementSentCnt(IncrementSentCnt(b)))

\* Connection::reconnect freezes the backup around them.
ThroughReconnect(b) == Unfreeze(CountReconnectFrames(Freeze(b)))

-----------------------------------------------------------------------------
Init ==
  /\ backup = [p \in Peers |-> NewBackup]
  /\ phase = [p \in Peers |-> "up"]
  /\ link = "up"
  /\ pipe = [p \in Peers |-> <<>>]
  /\ inbuf = [p \in Peers |-> 0]
  /\ onwire = [p \in Peers |-> 0]
  /\ stats = [p \in Peers |-> <<>>]
  /\ swallowed = [p \in Peers |-> FALSE]
  /\ resend = [p \in Peers |-> <<>>]
  /\ expected = [p \in Peers |-> 0]
  /\ written = [p \in Peers |-> 0]
  /\ delivered = [p \in Peers |-> <<>>]
  /\ beats = 0
  /\ heard = [n \in 0 .. MaxReopens |-> 0]
  /\ breaks = 0
  /\ reopens = 0

syncVars == <<stats, swallowed, resend, expected>>
beatVars == <<beats, heard>>

\* Mutant: frames the reader has taken over are sent again.
FlushedTwice(q, n) == Min(LinkCap, n)

\* try_flush: the socket takes what it has room for.
Flushed(q, n) == Min(LinkCap, n - inbuf[q])

(* try_write_frame by the owner of an established connection.  The frame is
   counted and kept as soon as it is queued, whatever becomes of the flush.
   On a broken link the bytes go nowhere, and the client may be told. *)
WriteFrame(p) ==
  /\ phase[p] = "up"
  /\ written[p] < FrameLimit[p]
  /\ LET f == written[p] + 1 IN
       /\ written' = [written EXCEPT ![p] = f]
       /\ backup' = [backup EXCEPT ![p] = PushFrame(IncrementSentCnt(@), f)]
       /\ \/ /\ link = "up"
             /\ pipe' = [pipe EXCEPT ![p] = Append(@, f)]
             /\ onwire' = [onwire EXCEPT ![p] = Flushed(p, Len(pipe[p]) + 1)]
             /\ UNCHANGED phase
          \/ /\ link = "broken"
             /\ \/ UNCHANGED phase
                \/ p = Client /\ phase' = [phase EXCEPT ![p] = "down"]
             /\ UNCHANGED <<pipe, onwire>>
  /\ UNCHANGED <<link, inbuf, syncVars, delivered, beatVars, breaks, reopens>>

(* try_flush when the socket has room again. *)
Flush(p) ==
  /\ phase[p] = "up"
  /\ link = "up"
  /\ onwire[p] < Flushed(p, Len(pipe[p]))
  /\ onwire' = [onwire EXCEPT ![p] = Flushed(p, Len(pipe[p]))]
  /\ UNCHANGED <<backup, phase, link, pipe, inbuf, syncVars, written,
                 delivered, beatVars, breaks, reopens>>

\* One try_read: if no whole frame is buffered, a chunk of the socket is taken
\* over into `incoming` first.  k is the number of buffered frames after that.
Buffered(q) == IF inbuf[q] > 0 THEN {inbuf[q]} ELSE 1 .. onwire[q]

(* try_read_frame in the event loop of an established connection. *)
ReadFrame(p) ==
  LET q == Other(p) IN
  /\ phase[p] = "up"
  /\ \E k \in Buffered(q) :
       /\ inbuf' = [inbuf EXCEPT ![q] = k - 1]
       /\ onwire' = [onwire EXCEPT ![q] = @ - (k - inbuf[q])]
  /\ delivered' = [delivered EXCEPT ![p] = Append(@, Head(pipe[q]))]
  /\ pipe' = [pipe EXCEPT ![q] = Tail(@)]
  /\ backup' = [backup EXCEPT ![p] = IncrementReceivedCnt(@)]
  /\ UNCHANGED <<phase, link, syncVars, written, beatVars, breaks, reopens>>

(* The heartbeat of the server's loop.  It is tested for being empty before it
   is encoded: the server neither counts it nor keeps it. *)
Heartbeat ==
  /\ phase[Server] = "up"
  /\ link = "up"
  /\ beats + heard[reopens] < MaxBeats
  /\ beats' = beats + 1
  /\ UNCHANGED <<backup, phase, link, pipe, inbuf, onwire, syncVars, written,
                 delivered, heard, breaks, reopens>>

(* try_read_frame takes a heartbeat, which is not empty as long as it is
   encoded: it counts as received.  The client's loop then drops it. *)
ReadHeartbeat ==
  /\ phase[Client] = "up"
  /\ beats > 0
  /\ beats' = beats - 1
  /\ heard' = [heard EXCEPT ![reopens] = @ + 1]
  /\ backup' = [backup EXCEPT ![Client] = IncrementReceivedCnt(@)]
  /\ UNCHANGED <<phase, link, pipe, inbuf, onwire, syncVars, written, delivered,
                 breaks, reopens>>

-----------------------------------------------------------------------------
(* The link *)

Syncing == {"opened", "stats", "resend", "recv"}

(* The network breaks the link.  What a peer has buffered stays readable, of
   what is in the socket a prefix, of what was not flushed nothing; and any
   part of the heartbeats. *)
Break ==
  /\ link = "up"
  /\ breaks < MaxBreaks
  /\ breaks' = breaks + 1
  /\ link' = "broken"
  /\ \E m \in [Peers -> 0 .. LinkCap] :
       /\ \A p \in Peers : m[p] <= onwire[p]
       /\ onwire' = m
       /\ pipe' = [p \in Peers |-> SubSeq(pipe[p], 1, inbuf[p] + m[p])]
  /\ beats' \in 0 .. beats
  /\ UNCHANGED <<backup, phase, inbuf, syncVars, written, delivered, heard,
                 reopens>>

(* A peer whose connection is established notices.  The server does when it
   has read everything and gets the end of the stream, the client also when a
   write or a flush fails or when the server has been silent for too long. *)
Detect(p) ==
  /\ phase[p] = "up"
  /\ link = "broken"
  /\ p = Server => pipe[Client] = <<>>
  /\ phase' = [phase EXCEPT ![p] = "down"]
  /\ UNCHANGED <<backup, link, pipe, inbuf, onwire, syncVars, written,
                 delivered, beatVars, breaks, reopens>>

(* A server that is still synchronizing sends no heartbeats: the client's
   silence timer expires, and its next attempt abandons the link. *)
Silence ==
  /\ phase[Client] = "up"
  /\ phase[Server] \in Syncing
  /\ link = "up"
  /\ phase' = [phase EXCEPT ![Client] = "down"]
  /\ link' = "broken"
  /\ UNCHANGED <<backup, pipe, inbuf, onwire, syncVars, written, delivered,
                 beatVars, breaks, reopens>>

(* Connection::reconnect and Connection::server up to synchronize(): the
   server has got the backup of the dropped connection. *)
Reopen ==
  /\ \A p \in Peers : phase[p] = "down"
  /\ reopens < MaxReopens
  /\ reopens' = reopens + 1
  /\ link' = "up"
  /\ phase' = [p \in Peers |-> "opened"]
  /\ backup' = [backup EXCEPT ![Client] = ThroughReconnect(@)]
  /\ pipe' = [p \in Peers |-> <<>>]
  /\ inbuf' = [p \in Peers |-> 0]
  /\ onwire' = [p \in Peers |-> 0]
  /\ stats' = [p \in Peers |-> <<>>]
  /\ swallowed' = [p \in Peers |-> FALSE]
  /\ beats' = 0
  /\ UNCHANGED <<resend, expected, written, delivered, heard, breaks>>

-----------------------------------------------------------------------------
(* synchronize *)

(* Clear the buffers and write (sent, received, available).  If the peer has
   been faster, its stats frame may have been read into `incoming` together
   with the last frame of the key exchange: then it is cleared with it. *)
SyncStart(p) ==
  LET b == backup[p] IN
  /\ phase[p] = "opened"
  /\ link = "up"
  /\ phase' = [phase EXCEPT ![p] = "stats"]
  /\ stats' = [stats EXCEPT ![p] = <<b.sent_cnt, b.received_cnt, Len(b.frames)>>]
  /\ swallowed' \in {[swallowed EXCEPT ![p] = lost] :
                       lost \in {FALSE, stats[Other(p)] # <<>>}}
  /\ UNCHANGED <<backup, link, pipe, inbuf, onwire, resend, expected, written,
                 delivered, beatVars, breaks, reopens>>

\* Mutant: everything that is kept is sent again.
ResendCntEverything(p) == Len(backup[p].frames)

ResendCnt(p) ==
  LET b == backup[p]
      received == stats[Other(p)][2]
  IN  Min(SaturatingSub(b.sent_cnt, received), Len(b.frames))

\* Mutant: frames the peer no longer has are waited for.
ExpectedCntUnavailable(p) ==
  SaturatingSub(stats[Other(p)][1], backup[p].received_cnt)

ExpectedCnt(p) ==
  LET sent == stats[Other(p)][1]
      available == stats[Other(p)][3]
  IN  Min(SaturatingSub(sent, backup[p].received_cnt), available)

(* Read the stats of the peer, decide how much to send again and how much to
   wait for, and drop the frames the peer has. *)
SyncStats(p) ==
  /\ phase[p] = "stats"
  /\ stats[Other(p)] # <<>>
  /\ ~swallowed[p]
  /\ backup' = [backup EXCEPT ![p] = TruncateFront(@, ResendCnt(p))]
  /\ resend' = [resend EXCEPT ![p] = backup'[p].frames]
  /\ expected' = [expected EXCEPT ![p] = ExpectedCnt(p)]
  /\ phase' = [phase EXCEPT ![p] = "resend"]
  /\ UNCHANGED <<link, pipe, inbuf, onwire, stats, swallowed, written,
                 delivered, beatVars, breaks, reopens>>

(* try_write_frame for the next missing frame; there is no waiting here, so a
   full socket is an error (see SyncFail). *)
SyncResend(p) ==
  /\ phase[p] = "resend"
  /\ resend[p] # <<>>
  /\ resend' = [resend EXCEPT ![p] = Tail(@)]
  /\ \/ /\ link = "up"
        /\ onwire[p] < LinkCap
        /\ pipe' = [pipe EXCEPT ![p] = Append(@, Head(resend[p]))]
        /\ onwire' = [onwire EXCEPT ![p] = @ + 1]
     \/ /\ link = "broken"
        /\ UNCHANGED <<pipe, onwire>>
  /\ UNCHANGED <<backup, phase, link, inbuf, stats, swallowed, expected,
                 written, delivered, beatVars, breaks, reopens>>

SyncResent(p) ==
  /\ phase[p] = "resend"
  /\ resend[p] = <<>>
  /\ phase' = [phase EXCEPT ![p] = "recv"]
  /\ UNCHANGED <<backup, link, pipe, inbuf, onwire, syncVars, written,
                 delivered, beatVars, breaks, reopens>>

\* read_frame takes the first buffered frame out of `incoming`, and
\* synchronize writes it back behind the last one.
Rotated(s, k) == SubSeq(s, 2, k) \o <<s[1]>> \o SubSeq(s, k + 1, Len(s))

SyncRead(p) ==
  LET q == Other(p) IN
  /\ phase[p] = "recv"
  /\ expected[p] > 0
  /\ \E k \in Buffered(q) :
       /\ pipe' = [pipe EXCEPT ![q] = Rotated(@, k)]
       /\ inbuf' = [inbuf EXCEPT ![q] = k]
       /\ onwire' = [onwire EXCEPT ![q] = @ - (k - inbuf[q])]
  /\ expected' = [expected EXCEPT ![p] = @ - 1]
  /\ UNCHANGED <<backup, phase, link, stats, swallowed, resend, written,
                 delivered, beatVars, breaks, reopens>>

(* All expected frames are queued: catch up the received count. *)
SyncDone(p) ==
  /\ phase[p] = "recv"
  /\ expected[p] = 0
  /\ backup' = [backup EXCEPT ![p] = SetReceivedCnt(@, stats[Other(p)][1])]
  /\ phase' = [phase EXCEPT ![p] = "up"]
  /\ UNCHANGED <<link, pipe, inbuf, onwire, syncVars, written, delivered,
                 beatVars, breaks, reopens>>

(* synchronize returns an error, and the connection attempt ends: the link
   broke, the socket is full, or the stats of the peer were cleared unread and
   the next thing that arrives in their place (a frame, a heartbeat of a server
   whose connection is established) does not parse as stats. *)
SyncFail(p) ==
  LET q == Other(p) IN
  /\ phase[p] \in Syncing
  /\ \/ link = "broken"
     \/ phase[p] = "resend" /\ resend[p] # <<>> /\ onwire[p] = LinkCap
     \/ /\ phase[p] = "stats" /\ swallowed[p]
        /\ pipe[q] # <<>> \/ (q = Server /\ phase[q] = "up")
  /\ phase' = [phase EXCEPT ![p] = "down"]
  /\ link' = "broken"
  /\ UNCHANGED <<backup, pipe, inbuf, onwire, syncVars, written, delivered,
                 beatVars, breaks, reopens>>

\* A frame of the codec handshake or of synchronize itself, as the transport
\* counts and keeps it.
ControlFrame == 0

\* While synchronize runs, the backup is with it, and the transport has a fresh
\* one, which counts and keeps the stats, what is sent again and what is read.
Scratch(p) ==
  LET resent == IF phase[p] = "stats" THEN 0
                ELSE SaturatingSub(Len(backup[p].frames), Len(resend[p]))
      read == IF phase[p] = "stats" THEN 0
              ELSE 1 + SaturatingSub(ExpectedCnt(p), expected[p])
  IN  [frames |-> Newest(<<ControlFrame>> \o SubSeq(backup[p].frames, 1, resent), MaxBackup),
       sent_cnt |-> 1 + resent, received_cnt |-> read, frozen |-> FALSE]

(* The reconnect strategy gives up on the attempt and drops the future that
   owns the backup while synchronize is running: the fresh one stays. *)
SyncTimeout ==
  /\ AttemptTimeout
  /\ phase[Client] \in {"stats", "resend", "recv"}
  /\ backup' = [backup EXCEPT ![Client] = Scratch(Client)]
  /\ phase' = [phase EXCEPT ![Client] = "down"]
  /\ link' = "broken"
  /\ UNCHANGED <<pipe, inbuf, onwire, syncVars, written, delivered, beatVars,
                 breaks, reopens>>

\* The codec handshake, too, runs with a fresh backup in place of the real one:
\* the client reads the options, writes its choice and its public key, and reads
\* the server's.  The backup as it is before each of the awaits that follow.
HandshakeBackups ==
  {[frames |-> Newest([i \in 1 .. n[1] |-> ControlFrame], MaxBackup),
    sent_cnt |-> n[1], received_cnt |-> n[2], frozen |-> FALSE] :
     n \in {<<0, 0>>, <<0, 1>>, <<1, 1>>, <<2, 1>>}}

(* The attempt is given up while the client is in the codec handshake of a new
   link, which the server has not got a reconnect request on yet. *)
HandshakeTimeout ==
  /\ AttemptTimeout
  /\ phase[Client] = "down"
  /\ reopens < MaxReopens
  /\ reopens' = reopens + 1
  /\ \E b \in HandshakeBackups : backup' = [backup EXCEPT ![Client] = b]
  /\ UNCHANGED <<phase, link, pipe, inbuf, onwire, syncVars, written, delivered,
                 beatVars, breaks>>

Synchronize(p) ==
  SyncStart(p) \/ SyncStats(p) \/ SyncResend(p) \/ SyncResent(p) \/ SyncRead(p)
    \/ SyncDone(p) \/ SyncFail(p)

Next ==
  \/ \E p \in Peers : WriteFrame(p)
  \/ \E p \in Peers : Flush(p)
  \/ \E p \in Peers : ReadFrame(p)
  \/ \E p \in Peers : Detect(p)
  \/ \E p \in Peers : Synchronize(p)
  \/ Break
  \/ Silence
  \/ Reopen
  \/ SyncTimeout
  \/ Heartbeat
  \/ ReadHeartbeat
  \/ HandshakeTimeout

Spec == Init /\ [][Next]_vars

\* The tasks of both peers keep running, and timers expire: a synchronize that
\* can take a step takes one.  Nothing else has to happen.
FairSpec ==
  /\ Spec
  /\ \A p \in Peers : WF_vars(Synchronize(p))
  /\ \A p \in Peers : WF_vars(Flush(p))
  /\ \A p \in Peers : WF_vars(Detect(p))
  /\ \A p \in Peers : WF_vars(ReadFrame(p))
  /\ WF_vars(Silence)

-----------------------------------------------------------------------------
(* Properties *)

FramesOf(s) == {s[i] : i \in 1 .. Len(s)}

BackupType == [frames : Seq(Nat), sent_cnt : Nat, received_cnt : Nat,
               frozen : BOOLEAN]

TypeOK ==
  /\ backup \in [Peers -> BackupType]
  /\ phase \in [Peers -> {"up", "down"} \union Syncing]
  /\ link \in {"up", "broken"}
  /\ pipe \in [Peers -> Seq(Nat)]
  /\ inbuf \in [Peers -> Nat]
  /\ onwire \in [Peers -> Nat]
  /\ stats \in [Peers -> {<<>>} \union (Nat \X Nat \X Nat)]
  /\ swallowed \in [Peers -> BOOLEAN]
  /\ resend \in [Peers -> Seq(Nat)]
  /\ expected \in [Peers -> Nat]
  /\ written \in [Peers -> Nat]
  /\ delivered \in [Peers -> Seq(Nat)]
  /\ beats \in Nat
  /\ heard \in [0 .. MaxReopens -> Nat]
  /\ breaks \in Nat
  /\ reopens \in Nat
  /\ \A p \in Peers : inbuf[p] + onwire[p] <= Len(pipe[p])

(* The backup holds the newest frames the peer wrote, without a gap and in the
   order they were written, and its count is their number: whatever mix of
   evictions, truncations and failed synchronizations there was. *)
BackupIsSuffixOfWritten ==
  \A p \in Peers :
    /\ backup[p].sent_cnt = written[p]
    /\ Len(backup[p].frames) <= written[p]
    /\ \A i \in 1 .. Len(backup[p].frames) :
         backup[p].frames[i] = written[p] - Len(backup[p].frames) + i

(* No frame is handed to the caller of a transport twice, however often the
   connection is lost and frames are sent again. *)
AtMostOnce ==
  \A p \in Peers : \A i, j \in 1 .. Len(delivered[p]) :
    i # j => delivered[p][i] # delivered[p][j]

(* The received count is never behind the frames that were handed out: what a
   peer asks to be sent again, it has not had. *)
NeverUndercounts ==
  \A p \in Peers : \A i \in 1 .. Len(delivered[p]) :
    delivered[p][i] <= backup[p].received_cnt

(* While both connections are established, every frame written is delivered
   or on its way. *)
NothingLost ==
  (link = "up" /\ \A p \in Peers : phase[p] = "up") =>
    \A p \in Peers :
      1 .. written[p] \subseteq FramesOf(delivered[Other(p)]) \union FramesOf(pipe[p])

(* The heartbeats that the client has counted as frames when it reconnects for
   the first time are the only loss then: in each direction whose backup is
   large enough for what was written, synchronize restores every other frame.
   Lost are the frames of the server behind the last one the client has had, one
   for every heartbeat it has heard. *)
FirstReconnectLosesOnlyMiscounted ==
  reopens <= 1 /\ link = "up" /\ (\A p \in Peers : phase[p] = "up") =>
    \A p \in Peers : written[p] <= MaxBackup =>
      \A f \in 1 .. written[p] :
        \/ f \in FramesOf(delivered[Other(p)]) \union FramesOf(pipe[p])
        \/ /\ p = Server /\ reopens = 1
           /\ f \in stats[Client][2] - heard[0] + 1 .. stats[Client][2]

(* Empty frames are not tracked: what the client counts as received on its
   first link are the frames that it handed out. *)
EmptyFramesAreNotTracked ==
  reopens = 0 => backup[Client].received_cnt = Len(delivered[Client])

(* synchronize ends, with success or with an error: both peers agree on how
   many frames are sent again, and nobody waits for a frame that the other one
   does not send.  The only way for it to hang is a stats frame that clear()
   dropped unread. *)
SyncEndsUnlessSwallowed ==
  \A p \in Peers :
    phase[p] \in Syncing ~>
      (phase[p] \notin Syncing \/ \E q \in Peers : swallowed[q])

(* Frames are delivered in the order in which they were written. *)
InOrder ==
  \A p \in Peers : \A i, j \in 1 .. Len(delivered[p]) :
    i < j => delivered[p][i] < delivered[p][j]
-----------------------------------------------------------------------------
(* An inductive invariant for AtMostOnce, for a client without an attempt
   timeout.  q is a writer and Other(q) the reader of its frames. *)

NotFrozen == \A p \in Peers : backup[p].frozen = FALSE

\* A peer that waits for frames has read the other peer's stats.
StatsRead ==
  \A p \in Peers : phase[p] \in {"resend", "recv"} => stats[Other(p)] # <<>>

\* A peer that gave up its connection took the link with it.
LinkInv == link = "up" => \A p \in Peers : phase[p] # "down"

\* How far the synchronization of q has come.
PhaseInv(q) ==
  /\ phase[q] = "opened" => /\ stats[q] = <<>>
                            /\ phase[Other(q)] \in {"opened", "stats", "down"}
  /\ phase[q] \in {"opened", "stats"} => pipe[q] = <<>>
  /\ phase[q] = "stats" => stats[q][3] = Len(backup[q].frames)
  /\ phase[q] \in {"stats", "resend", "recv"} =>
       /\ stats[q] # <<>>
       /\ stats[q][1] = written[q]
       /\ stats[q][2] = backup[q].received_cnt
  /\ phase[q] = "up" /\ phase[Other(q)] \in Syncing =>
       /\ stats[q] # <<>>
       /\ phase[Other(q)] # "opened"

\* The received count p has, or will have when it is done synchronizing, and
\* the frames it still has to read until then.
Base(p) ==
  IF phase[p] = "up" THEN backup[p].received_cnt ELSE stats[Other(p)][1]

StillExpected(p) ==
  IF phase[p] = "up" THEN 0
  ELSE IF phase[p] \in {"resend", "recv"} THEN expected[p]
  ELSE ExpectedCnt(p)

\* What the reader of q's frames has had.
DeliveredInv(q) ==
  \A i \in 1 .. Len(delivered[Other(q)]) :
    LET f == delivered[Other(q)][i] IN
    /\ f \in 1 .. written[q]
    /\ phase[Other(q)] \in Syncing /\ stats[q] # <<>> => f <= stats[q][1]
    /\ link = "up" /\ phase[q] \in {"opened", "stats"} /\ stats[Other(q)] # <<>> =>
         f <= stats[Other(q)][2]
    /\ link = "up" /\ phase[q] = "resend" => f <= written[q] - Len(resend[q])

\* What is on the way from q to a reader that is going to read it.  The bound
\* on a frame's number in terms of its position is what keeps the received
\* count from falling behind, and it survives the rotation in SyncRead.
PipeInv(q) ==
  phase[Other(q)] # "down" =>
    \A i \in 1 .. Len(pipe[q]) :
      LET f == pipe[q][i] IN
      /\ f \in 1 .. written[q]
      /\ \A j \in 1 .. Len(pipe[q]) : i # j => pipe[q][j] # f
      /\ \A j \in 1 .. Len(delivered[Other(q)]) : delivered[Other(q)][j] # f
      /\ f <= Base(Other(q)) + SaturatingSub(i, StillExpected(Other(q)))
      /\ link = "up" /\ phase[q] = "resend" => f <= written[q] - Len(resend[q])

\* What q still has to send again.
ResendInv(q) ==
  /\ phase[q] = "resend" =>
       /\ Len(resend[q]) <= written[q]
       /\ \A i \in 1 .. Len(resend[q]) :
            resend[q][i] = written[q] - Len(resend[q]) + i
  /\ phase[q] = "recv" => resend[q] = <<>>

\* Both sides agree on how many frames are sent again.
AgreementInv(q) ==
  LET p == Other(q) IN
  link = "up" =>
    /\ phase[q] = "stats" /\ phase[p] \in {"resend", "recv"} =>
         expected[p] = Min(SaturatingSub(stats[q][1], stats[p][2]), stats[q][3])
    /\ phase[q] \in {"stats", "resend", "recv"} => stats[q][1] <= Base(p)
    /\ phase[q] \in {"resend", "recv"} =>
         StillExpected(p) <= Len(pipe[q]) + Len(resend[q])
    /\ phase[q] = "up" =>
         /\ StillExpected(p) <= Len(pipe[q])
         /\ written[q] + StillExpected(p) <= Base(p) + Len(pipe[q])

(* Why no frame is handed out twice: the counts that the peers exchange stay in
   step with what is in the buffers, the socket and the backups, so that both
   sides agree on how many frames are sent again, a frame that is on its way
   has not been delivered, and what is on its way will be counted by the time
   the reader asks again. *)
InductiveInvariant ==
  /\ TypeOK
  /\ NotFrozen
  /\ StatsRead
  /\ BackupIsSuffixOfWritten
  /\ AtMostOnce
  /\ NeverUndercounts
  /\ LinkInv
  /\ \A q \in Peers :
       /\ PhaseInv(q)
       /\ DeliveredInv(q)
       /\ PipeInv(q)
       /\ ResendInv(q)
       /\ AgreementInv(q)
-----------------------------------------------------------------------------
(* The transports implement the delivery their owners rely on. *)

Promise == INSTANCE Delivery
             WITH sent <- written, taken <- [p \in Peers |-> delivered[Other(p)]]

(* Every step of the two transports, of the link and of synchronize() is a step
   of Delivery: a frame is handed out by try_read_frame only if its peer wrote
   it and it has not been handed out before, over any number of replays. *)
ImplementsDelivery == Promise!Spec
=============================================================================
