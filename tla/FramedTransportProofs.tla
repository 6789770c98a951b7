------------------------ MODULE FramedTransportProofs ------------------------
(***************************************************************************)
(* Proofs about FramedTransport, for any number of frames, any sizes of    *)
(* the backup and the socket, and any number of disconnects.               *)
(***************************************************************************)
EXTENDS FramedTransport, SequenceTheorems, TLAPS

-----------------------------------------------------------------------------
(* Facts about the operators of the backup *)

LEMMA OtherPeer ==
  \A p \in Peers : /\ Other(p) \in Peers
                   /\ Other(p) # p
                   /\ Other(Other(p)) = p
                   /\ \A q \in Peers : q = p \/ q = Other(p)
BY PeersDiffer DEF Other, Peers

(* Freezing the backup around the connection logic leaves it as it was. *)
LEMMA ThroughReconnectIsIdentity ==
  ASSUME NEW b \in BackupType, b.frozen = FALSE
  PROVE  ThroughReconnect(b) = b
<1> DEFINE f == [b EXCEPT !.frozen = TRUE]
<1>1. f \in BackupType /\ f.frozen
  BY DEF BackupType
<1>2. CountReconnectFrames(Freeze(b)) = f
  BY <1>1 DEF CountReconnectFrames, Freeze, IncrementSentCnt, IncrementReceivedCnt
<1>3. [f EXCEPT !.frozen = FALSE] = b
  BY DEF BackupType
<1> QED
  BY <1>2, <1>3 DEF ThroughReconnect, Unfreeze

(* The newest k frames of a sequence. *)
LEMMA NewestFrames ==
  ASSUME NEW fs \in Seq(Nat), NEW k \in Nat
  PROVE  /\ Newest(fs, k) \in Seq(Nat)
         /\ Len(Newest(fs, k)) = Min(Len(fs), k)
         /\ Len(Newest(fs, k)) <= Len(fs)
         /\ \A i \in 1 .. Len(Newest(fs, k)) :
              Newest(fs, k)[i] = fs[Len(fs) - Len(Newest(fs, k)) + i]
<1> DEFINE m == Min(Len(fs), k)
<1>1. m \in Nat /\ m <= Len(fs)
  BY DEF Min
<1>2. \A i \in Len(fs) - m + 1 .. Len(fs) : fs[i] \in Nat
  BY <1>1
<1> HIDE DEF m
<1>3. /\ SubSeq(fs, Len(fs) - m + 1, Len(fs)) \in Seq(Nat)
      /\ Len(SubSeq(fs, Len(fs) - m + 1, Len(fs))) = m
      /\ \A i \in 1 .. m :
           SubSeq(fs, Len(fs) - m + 1, Len(fs))[i] = fs[Len(fs) - m + i]
  BY <1>1, <1>2, SubSeqProperties
<1> QED
  BY <1>1, <1>3 DEF Newest, m

LEMMA IncrementSentCntEffect ==
  ASSUME NEW b \in BackupType, b.frozen = FALSE
  PROVE  /\ IncrementSentCnt(b) \in BackupType
         /\ IncrementSentCnt(b).frozen = FALSE
         /\ IncrementSentCnt(b).sent_cnt = b.sent_cnt + 1
         /\ IncrementSentCnt(b).received_cnt = b.received_cnt
         /\ IncrementSentCnt(b).frames = b.frames
BY DEF IncrementSentCnt, BackupType

LEMMA IncrementReceivedCntEffect ==
  ASSUME NEW b \in BackupType, b.frozen = FALSE
  PROVE  /\ IncrementReceivedCnt(b) \in BackupType
         /\ IncrementReceivedCnt(b).frozen = FALSE
         /\ IncrementReceivedCnt(b).sent_cnt = b.sent_cnt
         /\ IncrementReceivedCnt(b).received_cnt = b.received_cnt + 1
         /\ IncrementReceivedCnt(b).frames = b.frames
BY DEF IncrementReceivedCnt, BackupType

LEMMA SetReceivedCntEffect ==
  ASSUME NEW b \in BackupType, b.frozen = FALSE, NEW n \in Nat
  PROVE  /\ SetReceivedCnt(b, n) \in BackupType
         /\ SetReceivedCnt(b, n).frozen = FALSE
         /\ SetReceivedCnt(b, n).sent_cnt = b.sent_cnt
         /\ SetReceivedCnt(b, n).received_cnt = n
         /\ SetReceivedCnt(b, n).frames = b.frames
BY DEF SetReceivedCnt, BackupType

LEMMA TruncateFrontEffect ==
  ASSUME NEW b \in BackupType, b.frozen = FALSE, NEW k \in Nat
  PROVE  /\ TruncateFront(b, k) \in BackupType
         /\ TruncateFront(b, k).frozen = FALSE
         /\ TruncateFront(b, k).sent_cnt = b.sent_cnt
         /\ TruncateFront(b, k).received_cnt = b.received_cnt
         /\ TruncateFront(b, k).frames = Newest(b.frames, k)
<1>1. Newest(b.frames, k) \in Seq(Nat)
  BY NewestFrames DEF BackupType
<1> QED
  BY <1>1 DEF TruncateFront, BackupType

LEMMA PushFrameEffect ==
  ASSUME NEW b \in BackupType, b.frozen = FALSE, NEW f \in Nat
  PROVE  /\ PushFrame(b, f) \in BackupType
         /\ PushFrame(b, f).frozen = FALSE
         /\ PushFrame(b, f).sent_cnt = b.sent_cnt
         /\ PushFrame(b, f).received_cnt = b.received_cnt
         /\ PushFrame(b, f).frames =
              IF MaxBackup > 0 THEN Newest(Append(b.frames, f), MaxBackup)
                               ELSE b.frames
<1>1. Append(b.frames, f) \in Seq(Nat)
  BY DEF BackupType
<1>2. Newest(Append(b.frames, f), MaxBackup) \in Seq(Nat)
  BY <1>1, NewestFrames, BoundsAreNaturals
<1> QED
  BY <1>2, BoundsAreNaturals DEF PushFrame, BackupType

LEMMA NewBackupType == NewBackup \in BackupType /\ NewBackup.frozen = FALSE
BY DEF NewBackup, BackupType

LEMMA MinIsNatural ==
  ASSUME NEW a \in Nat, NEW b \in Nat
  PROVE  Min(a, b) \in Nat /\ Min(a, b) <= a /\ Min(a, b) <= b
BY DEF Min

LEMMA SaturatingSubIsNatural ==
  ASSUME NEW a \in Nat, NEW b \in Nat
  PROVE  SaturatingSub(a, b) \in Nat
BY DEF SaturatingSub

LEMMA HeadIsFrame ==
  ASSUME NEW s \in Seq(Nat), s # <<>>
  PROVE  Head(s) \in Nat
OBVIOUS

(* Rotating a frame behind the k-th one. *)
LEMMA RotatedFrames ==
  ASSUME NEW s \in Seq(Nat), NEW k \in 1 .. Len(s)
  PROVE  /\ Rotated(s, k) \in Seq(Nat)
         /\ Len(Rotated(s, k)) = Len(s)
         /\ \A i \in 1 .. Len(s) :
              Rotated(s, k)[i] = IF i < k THEN s[i + 1]
                                 ELSE IF i = k THEN s[1] ELSE s[i]
<1> DEFINE a == SubSeq(s, 2, k)
           c == SubSeq(s, k + 1, Len(s))
           b == <<s[1]>>
<1>1. /\ a \in Seq(Nat)
      /\ Len(a) = k - 1
      /\ \A i \in 1 .. k - 1 : a[i] = s[i + 1]
  <2>1. \A i \in 2 .. k : s[i] \in Nat
    OBVIOUS
  <2> QED
    BY <2>1, SubSeqProperties
<1>2. /\ c \in Seq(Nat)
      /\ Len(c) = Len(s) - k
      /\ \A i \in 1 .. Len(s) - k : c[i] = s[k + i]
  <2>1. \A i \in k + 1 .. Len(s) : s[i] \in Nat
    OBVIOUS
  <2> QED
    BY <2>1, SubSeqProperties
<1>3. b \in Seq(Nat) /\ Len(b) = 1 /\ b[1] = s[1]
  OBVIOUS
<1> HIDE DEF a, b, c
<1>4. /\ a \o b \in Seq(Nat)
      /\ Len(a \o b) = k
      /\ \A i \in 1 .. k : (a \o b)[i] = IF i < k THEN s[i + 1] ELSE s[1]
  <2>1. /\ a \o b \in Seq(Nat)
        /\ Len(a \o b) = Len(a) + Len(b)
        /\ \A i \in 1 .. Len(a) + Len(b) :
             (a \o b)[i] = IF i <= Len(a) THEN a[i] ELSE b[i - Len(a)]
    BY <1>1, <1>3, ConcatProperties, Zenon
  <2> DEFINE d == a \o b
  <2> HIDE DEF d
  <2>2. d \in Seq(Nat) /\ Len(d) = k
    BY <1>1, <1>3, <2>1 DEF d
  <2>3. \A i \in 1 .. k : d[i] = IF i < k THEN a[i] ELSE b[1]
    BY <1>1, <1>3, <2>1 DEF d
  <2>4. \A i \in 1 .. k : d[i] = IF i < k THEN s[i + 1] ELSE s[1]
    BY <1>1, <1>3, <2>3
  <2> QED
    BY <2>2, <2>4 DEF d
<1> DEFINE d == a \o b
<1> HIDE DEF d
<1>5. /\ d \in Seq(Nat)
      /\ Len(d) = k
      /\ \A i \in 1 .. k : d[i] = IF i < k THEN s[i + 1] ELSE s[1]
  BY <1>4 DEF d
<1>6. /\ d \o c \in Seq(Nat)
      /\ Len(d \o c) = Len(d) + Len(c)
      /\ \A i \in 1 .. Len(d) + Len(c) :
           (d \o c)[i] = IF i <= Len(d) THEN d[i] ELSE c[i - Len(d)]
  BY <1>2, <1>5, ConcatProperties, Zenon
<1> DEFINE r == d \o c
<1> HIDE DEF r
<1>7. /\ r \in Seq(Nat)
      /\ Len(r) = Len(s)
      /\ \A i \in 1 .. Len(s) : r[i] = IF i <= k THEN d[i] ELSE c[i - k]
  <2>1. Len(s) \in Nat /\ k \in Nat /\ Len(d) + Len(c) = Len(s)
    BY <1>2, <1>5
  <2> QED
    BY <1>5, <1>6, <2>1, Zenon DEF r
<1>8. ASSUME NEW i \in 1 .. Len(s), i > k
      PROVE  c[i - k] = s[i]
  <2>1. i - k \in 1 .. Len(s) - k /\ k + (i - k) = i
    BY <1>8
  <2> QED
    BY <1>2, <2>1, Zenon
<1>9. ASSUME NEW i \in 1 .. Len(s)
      PROVE  r[i] = IF i < k THEN s[i + 1] ELSE IF i = k THEN s[1] ELSE s[i]
  <2>1. CASE i <= k
    <3>1. i \in 1 .. k /\ r[i] = d[i]
      BY <1>7, <2>1
    <3> QED
      BY <1>5, <2>1, <3>1
  <2>2. CASE i > k
    <3>1. r[i] = c[i - k]
      BY <1>7, <2>2
    <3> QED
      BY <1>8, <2>2, <3>1
  <2> QED
    BY <2>1, <2>2
<1>10. Rotated(s, k) = r
  BY DEF Rotated, a, b, c, d, r
<1> QED
  BY <1>7, <1>9, <1>10
-----------------------------------------------------------------------------
(* Type correctness *)

Typed == TypeOK /\ NotFrozen /\ StatsRead

LEMMA InitTyped == Init => Typed
<1>1. ASSUME Init PROVE heard \in [0 .. MaxReopens -> Nat]
  BY <1>1 DEF Init
<1> QED
  BY <1>1, NewBackupType DEF Init, Typed, TypeOK, NotFrozen, StatsRead, Syncing

\* What can be read from the socket in one go, and what stays there.
LEMMA BufferedFrames ==
  ASSUME TypeOK, NEW q \in Peers, NEW k \in Buffered(q)
  PROVE  /\ k \in 1 .. Len(pipe[q])
         /\ pipe[q] # <<>>
         /\ onwire[q] - (k - inbuf[q]) \in Nat
         /\ k + (onwire[q] - (k - inbuf[q])) <= Len(pipe[q])
BY DEF TypeOK, Buffered

LEMMA FlushedFrames ==
  ASSUME TypeOK, NEW q \in Peers, NEW n \in Nat, inbuf[q] <= n
  PROVE  /\ Flushed(q, n) \in Nat
         /\ inbuf[q] + Flushed(q, n) <= n
BY BoundsAreNaturals DEF TypeOK, Flushed, Min

LEMMA StatsFields ==
  ASSUME TypeOK, NEW p \in Peers, stats[p] # <<>>
  PROVE  stats[p][1] \in Nat /\ stats[p][2] \in Nat /\ stats[p][3] \in Nat
BY DEF TypeOK

LEMMA CountsAreNatural ==
  ASSUME TypeOK, NEW p \in Peers, stats[Other(p)] # <<>>
  PROVE  ResendCnt(p) \in Nat /\ ExpectedCnt(p) \in Nat
<1>1. /\ stats[Other(p)][1] \in Nat
      /\ stats[Other(p)][2] \in Nat
      /\ stats[Other(p)][3] \in Nat
  BY OtherPeer, StatsFields
<1>2. /\ backup[p].sent_cnt \in Nat
      /\ backup[p].received_cnt \in Nat
      /\ Len(backup[p].frames) \in Nat
  BY DEF TypeOK, BackupType
<1> QED
  BY <1>1, <1>2, MinIsNatural, SaturatingSubIsNatural DEF ResendCnt, ExpectedCnt

LEMMA HeardTypes ==
  ASSUME TypeOK
  PROVE  0 \in 0 .. MaxReopens /\ heard \in [0 .. MaxReopens -> Nat] /\ heard[0] \in Nat
<1>1. heard \in [0 .. MaxReopens -> Nat]
  BY DEF TypeOK
<1>2. 0 \in 0 .. MaxReopens
  BY BoundsAreNaturals
<1> QED
  BY <1>1, <1>2

(* The backup the transport has while synchronize runs is a backup. *)
LEMMA ScratchType ==
  ASSUME Typed, phase[Client] \in {"stats", "resend", "recv"}
  PROVE  Scratch(Client) \in BackupType /\ Scratch(Client).frozen = FALSE
<1> DEFINE resent == IF phase[Client] = "stats" THEN 0
                     ELSE SaturatingSub(Len(backup[Client].frames), Len(resend[Client]))
           read == IF phase[Client] = "stats" THEN 0
                   ELSE 1 + SaturatingSub(ExpectedCnt(Client), expected[Client])
           fs == <<ControlFrame>> \o SubSeq(backup[Client].frames, 1, resent)
<1>1. /\ Client \in Peers
      /\ backup[Client].frames \in Seq(Nat)
      /\ resend[Client] \in Seq(Nat)
      /\ expected[Client] \in Nat
  BY DEF Typed, TypeOK, BackupType, Peers
<1>2. resent \in Nat /\ resent <= Len(backup[Client].frames)
  <2>1. \A a, b \in Nat : SaturatingSub(a, b) \in Nat /\ SaturatingSub(a, b) <= a
    BY DEF SaturatingSub
  <2>2. Len(backup[Client].frames) \in Nat /\ Len(resend[Client]) \in Nat
    BY <1>1
  <2>3. CASE phase[Client] = "stats"
    BY <2>2, <2>3
  <2>4. CASE phase[Client] # "stats"
    BY <2>1, <2>2, <2>4
  <2> QED
    BY <2>3, <2>4
<1>3. read \in Nat
  <2>1. CASE phase[Client] = "stats"
    BY <2>1
  <2>2. CASE phase[Client] # "stats"
    <3>1. ExpectedCnt(Client) \in Nat
      BY <1>1, <2>2, CountsAreNatural DEF Typed, StatsRead
    <3> QED
      <4>1. SaturatingSub(ExpectedCnt(Client), expected[Client]) \in Nat
        BY <1>1, <3>1, SaturatingSubIsNatural
      <4> QED
        BY <2>2, <4>1
  <2> QED
    BY <2>1, <2>2
<1> HIDE DEF resent, read
<1>4. fs \in Seq(Nat)
  <2>1. SubSeq(backup[Client].frames, 1, resent) \in Seq(Nat)
    BY <1>1, <1>2
  <2> QED
    BY <2>1 DEF ControlFrame
<1> HIDE DEF fs
<1>5. Newest(fs, MaxBackup) \in Seq(Nat)
  BY <1>4, NewestFrames, BoundsAreNaturals
<1>6. Scratch(Client) = [frames |-> Newest(fs, MaxBackup), sent_cnt |-> 1 + resent,
                         received_cnt |-> read, frozen |-> FALSE]
  BY DEF Scratch, fs, resent, read
<1> QED
  BY <1>2, <1>3, <1>5, <1>6 DEF BackupType

(* So is the one it has during the codec handshake. *)
LEMMA HandshakeBackupsType ==
  ASSUME NEW b \in HandshakeBackups
  PROVE  b \in BackupType /\ b.frozen = FALSE
<1>1. ASSUME NEW n \in Nat
      PROVE  Newest([i \in 1 .. n |-> ControlFrame], MaxBackup) \in Seq(Nat)
  <2>1. [i \in 1 .. n |-> ControlFrame] \in Seq(Nat)
    BY DEF ControlFrame
  <2> QED
    BY <2>1, NewestFrames, BoundsAreNaturals
<1>2. PICK n \in {<<0, 0>>, <<0, 1>>, <<1, 1>>, <<2, 1>>} :
        b = [frames |-> Newest([i \in 1 .. n[1] |-> ControlFrame], MaxBackup),
             sent_cnt |-> n[1], received_cnt |-> n[2], frozen |-> FALSE]
  BY DEF HandshakeBackups
<1>3. n[1] \in Nat /\ n[2] \in Nat
  OBVIOUS
<1>4. Newest([i \in 1 .. n[1] |-> ControlFrame], MaxBackup) \in Seq(Nat)
  BY <1>1, <1>3
<1> QED
  BY <1>2, <1>3, <1>4 DEF BackupType

LEMMA NextTypeOK == Typed /\ [Next]_vars => TypeOK' /\ NotFrozen'
<1> SUFFICES ASSUME Typed, [Next]_vars PROVE TypeOK' /\ NotFrozen'
  OBVIOUS
<1> USE DEF Typed, beatVars
<1>1. ASSUME NEW p \in Peers, WriteFrame(p) PROVE TypeOK' /\ NotFrozen'
  <2> DEFINE f == written[p] + 1
  <2>1. f \in Nat /\ Len(pipe[p]) + 1 \in Nat /\ inbuf[p] <= Len(pipe[p]) + 1
    BY DEF TypeOK
  <2>2. /\ PushFrame(IncrementSentCnt(backup[p]), f) \in BackupType
        /\ PushFrame(IncrementSentCnt(backup[p]), f).frozen = FALSE
    BY <2>1, IncrementSentCntEffect, PushFrameEffect DEF TypeOK, NotFrozen
  <2>3. /\ backup' \in [Peers -> BackupType] /\ NotFrozen'
        /\ written' \in [Peers -> Nat]
    BY <1>1, <2>1, <2>2 DEF WriteFrame, TypeOK, NotFrozen
  <2>4. CASE link = "up"
    <3>1. /\ pipe' = [pipe EXCEPT ![p] = Append(@, f)]
          /\ onwire' = [onwire EXCEPT ![p] = Flushed(p, Len(pipe[p]) + 1)]
          /\ UNCHANGED <<phase, link, inbuf, syncVars, delivered, beatVars, breaks,
                         reopens>>
      BY <1>1, <2>4 DEF WriteFrame
    <3>2. /\ Flushed(p, Len(pipe[p]) + 1) \in Nat
          /\ inbuf[p] + Flushed(p, Len(pipe[p]) + 1) <= Len(pipe[p]) + 1
      BY <2>1, FlushedFrames
    <3>3. /\ pipe' \in [Peers -> Seq(Nat)]
          /\ onwire' \in [Peers -> Nat]
          /\ \A q \in Peers : inbuf'[q] + onwire'[q] <= Len(pipe'[q])
      BY <2>1, <3>1, <3>2 DEF TypeOK
    <3> QED
      BY <2>3, <3>1, <3>3 DEF TypeOK, syncVars
  <2>5. CASE link = "broken"
    BY <1>1, <2>3, <2>5 DEF WriteFrame, TypeOK, syncVars
  <2> QED
    BY <2>4, <2>5 DEF TypeOK
<1>2. ASSUME NEW p \in Peers, Flush(p) PROVE TypeOK' /\ NotFrozen'
  <2>1. Len(pipe[p]) \in Nat /\ inbuf[p] <= Len(pipe[p])
    BY DEF TypeOK
  <2>2. /\ Flushed(p, Len(pipe[p])) \in Nat
        /\ inbuf[p] + Flushed(p, Len(pipe[p])) <= Len(pipe[p])
    BY <2>1, FlushedFrames
  <2> QED
    BY <1>2, <2>2 DEF Flush, TypeOK, NotFrozen, syncVars
<1>3. ASSUME NEW p \in Peers, ReadFrame(p) PROVE TypeOK' /\ NotFrozen'
  <2> DEFINE q == Other(p)
  <2>1. q \in Peers
    BY OtherPeer
  <2>2. PICK k \in Buffered(q) :
          /\ inbuf' = [inbuf EXCEPT ![q] = k - 1]
          /\ onwire' = [onwire EXCEPT ![q] = @ - (k - inbuf[q])]
    BY <1>3 DEF ReadFrame
  <2>3. /\ k \in 1 .. Len(pipe[q])
        /\ pipe[q] # <<>>
        /\ onwire[q] - (k - inbuf[q]) \in Nat
        /\ k + (onwire[q] - (k - inbuf[q])) <= Len(pipe[q])
    BY <2>1, BufferedFrames
  <2>4. /\ delivered' = [delivered EXCEPT ![p] = Append(@, Head(pipe[q]))]
        /\ pipe' = [pipe EXCEPT ![q] = Tail(@)]
        /\ backup' = [backup EXCEPT ![p] = IncrementReceivedCnt(@)]
        /\ UNCHANGED <<phase, link, syncVars, written, beatVars, breaks, reopens>>
    BY <1>3 DEF ReadFrame
  <2> HIDE DEF q
  <2>5. /\ Head(pipe[q]) \in Nat
        /\ Tail(pipe[q]) \in Seq(Nat)
        /\ Len(Tail(pipe[q])) = Len(pipe[q]) - 1
    BY <2>1, <2>3, HeadTailProperties DEF TypeOK
  <2>6. /\ inbuf' \in [Peers -> Nat]
        /\ onwire' \in [Peers -> Nat]
        /\ pipe' \in [Peers -> Seq(Nat)]
        /\ delivered' \in [Peers -> Seq(Nat)]
    <3>1. inbuf \in [Peers -> Nat] /\ onwire \in [Peers -> Nat]
      BY DEF TypeOK
    <3>2. inbuf' \in [Peers -> Nat] /\ onwire' \in [Peers -> Nat]
      BY <2>1, <2>2, <2>3, <3>1
    <3>3. pipe' \in [Peers -> Seq(Nat)]
      BY <2>1, <2>4, <2>5 DEF TypeOK
    <3>4. delivered' \in [Peers -> Seq(Nat)]
      BY <2>4, <2>5 DEF TypeOK
    <3> QED
      BY <3>2, <3>3, <3>4
  <2>7. ASSUME NEW r \in Peers PROVE inbuf'[r] + onwire'[r] <= Len(pipe'[r])
    <3>1. CASE r = q
      <4>1. /\ inbuf'[q] = k - 1
            /\ onwire'[q] = onwire[q] - (k - inbuf[q])
            /\ pipe'[q] = Tail(pipe[q])
        BY <2>1, <2>2, <2>4 DEF TypeOK
      <4>2. Len(pipe[q]) \in Nat /\ inbuf[q] \in Nat /\ onwire[q] \in Nat
        BY <2>1 DEF TypeOK
      <4> QED
        BY <2>3, <2>5, <3>1, <4>1, <4>2
    <3>2. CASE r # q
      BY <2>2, <2>4, <3>2 DEF TypeOK
    <3> QED
      BY <3>1, <3>2
  <2>8. backup' \in [Peers -> BackupType] /\ NotFrozen'
    BY <2>4, IncrementReceivedCntEffect DEF TypeOK, NotFrozen
  <2> QED
    BY <2>4, <2>6, <2>7, <2>8 DEF TypeOK, syncVars
<1>4. ASSUME NEW p \in Peers, Detect(p) PROVE TypeOK' /\ NotFrozen'
  BY <1>4 DEF Detect, TypeOK, NotFrozen, syncVars
<1>5. ASSUME NEW p \in Peers, SyncStart(p) PROVE TypeOK' /\ NotFrozen'
  <2>1. /\ backup[p].sent_cnt \in Nat
        /\ backup[p].received_cnt \in Nat
        /\ Len(backup[p].frames) \in Nat
    BY DEF TypeOK, BackupType
  <2>2. stats' \in [Peers -> {<<>>} \union (Nat \X Nat \X Nat)]
    BY <1>5, <2>1 DEF SyncStart, TypeOK
  <2>3. swallowed' \in [Peers -> BOOLEAN]
    BY <1>5 DEF SyncStart, TypeOK
  <2> QED
    BY <1>5, <2>2, <2>3 DEF SyncStart, TypeOK, NotFrozen, Syncing
<1>6. ASSUME NEW p \in Peers, SyncStats(p) PROVE TypeOK' /\ NotFrozen'
  <2>1. ResendCnt(p) \in Nat /\ ExpectedCnt(p) \in Nat
    BY <1>6, CountsAreNatural DEF SyncStats
  <2>2. backup' \in [Peers -> BackupType] /\ NotFrozen'
    BY <1>6, <2>1, TruncateFrontEffect DEF SyncStats, TypeOK, NotFrozen
  <2>3. backup'[p].frames \in Seq(Nat)
    BY <2>2 DEF BackupType
  <2> QED
    BY <1>6, <2>1, <2>2, <2>3 DEF SyncStats, TypeOK, Syncing
<1>7. ASSUME NEW p \in Peers, SyncResend(p) PROVE TypeOK' /\ NotFrozen'
  <2>1. Head(resend[p]) \in Nat /\ Tail(resend[p]) \in Seq(Nat)
    BY <1>7, HeadTailProperties DEF SyncResend, TypeOK
  <2>2. CASE link = "up"
    <3>1. /\ pipe' = [pipe EXCEPT ![p] = Append(@, Head(resend[p]))]
          /\ onwire' = [onwire EXCEPT ![p] = @ + 1]
          /\ resend' = [resend EXCEPT ![p] = Tail(@)]
          /\ UNCHANGED <<backup, phase, link, inbuf, stats, swallowed, expected,
                         written, delivered, beatVars, breaks, reopens>>
      BY <1>7, <2>2 DEF SyncResend
    <3>2. /\ pipe' \in [Peers -> Seq(Nat)]
          /\ onwire' \in [Peers -> Nat]
          /\ resend' \in [Peers -> Seq(Nat)]
      <4>1. pipe' \in [Peers -> Seq(Nat)]
        BY <2>1, <3>1 DEF TypeOK
      <4>2. onwire' \in [Peers -> Nat]
        BY <3>1 DEF TypeOK
      <4>3. resend' \in [Peers -> Seq(Nat)]
        BY <2>1, <3>1 DEF TypeOK
      <4> QED
        BY <4>1, <4>2, <4>3
    <3>3. ASSUME NEW r \in Peers PROVE inbuf'[r] + onwire'[r] <= Len(pipe'[r])
      BY <2>1, <3>1 DEF TypeOK
    <3> QED
      BY <3>1, <3>2, <3>3 DEF TypeOK, NotFrozen
  <2>3. CASE link = "broken"
    BY <1>7, <2>1, <2>3 DEF SyncResend, TypeOK, NotFrozen
  <2> QED
    BY <2>2, <2>3 DEF TypeOK
<1>8. ASSUME NEW p \in Peers, SyncResent(p) PROVE TypeOK' /\ NotFrozen'
  BY <1>8 DEF SyncResent, TypeOK, NotFrozen, syncVars, Syncing
<1>9. ASSUME NEW p \in Peers, SyncRead(p) PROVE TypeOK' /\ NotFrozen'
  <2> DEFINE q == Other(p)
  <2>1. q \in Peers
    BY OtherPeer
  <2>2. PICK k \in Buffered(q) :
          /\ pipe' = [pipe EXCEPT ![q] = Rotated(@, k)]
          /\ inbuf' = [inbuf EXCEPT ![q] = k]
          /\ onwire' = [onwire EXCEPT ![q] = @ - (k - inbuf[q])]
    BY <1>9 DEF SyncRead
  <2>3. /\ k \in 1 .. Len(pipe[q])
        /\ onwire[q] - (k - inbuf[q]) \in Nat
        /\ k + (onwire[q] - (k - inbuf[q])) <= Len(pipe[q])
    BY <2>1, BufferedFrames
  <2>4. /\ expected[p] > 0
        /\ expected' = [expected EXCEPT ![p] = @ - 1]
        /\ UNCHANGED <<backup, phase, link, stats, swallowed, resend, written,
                       delivered, beatVars, breaks, reopens>>
    BY <1>9 DEF SyncRead
  <2> HIDE DEF q
  <2>5. Rotated(pipe[q], k) \in Seq(Nat) /\ Len(Rotated(pipe[q], k)) = Len(pipe[q])
    BY <2>1, <2>3, RotatedFrames DEF TypeOK
  <2> QED
    <3>1. /\ pipe' \in [Peers -> Seq(Nat)]
          /\ inbuf' \in [Peers -> Nat]
          /\ onwire' \in [Peers -> Nat]
      <4>1. pipe' \in [Peers -> Seq(Nat)]
        BY <2>1, <2>2, <2>5 DEF TypeOK
      <4>2. inbuf' \in [Peers -> Nat]
        BY <2>1, <2>2, <2>3 DEF TypeOK
      <4>3. onwire' \in [Peers -> Nat]
        BY <2>1, <2>2, <2>3 DEF TypeOK
      <4> QED
        BY <4>1, <4>2, <4>3
    <3>2. expected' \in [Peers -> Nat]
      BY <2>4 DEF TypeOK
    <3>3. ASSUME NEW r \in Peers PROVE inbuf'[r] + onwire'[r] <= Len(pipe'[r])
      <4>1. CASE r = q
        BY <2>1, <2>2, <2>3, <2>5, <4>1 DEF TypeOK
      <4>2. CASE r # q
        BY <2>2, <4>2 DEF TypeOK
      <4> QED
        BY <4>1, <4>2
    <3> QED
      BY <2>4, <3>1, <3>2, <3>3 DEF TypeOK, NotFrozen
<1>10. ASSUME NEW p \in Peers, SyncDone(p) PROVE TypeOK' /\ NotFrozen'
  <2>1. stats[Other(p)][1] \in Nat
    BY <1>10, OtherPeer, StatsFields DEF SyncDone, StatsRead
  <2>2. backup' \in [Peers -> BackupType] /\ NotFrozen'
    BY <1>10, <2>1, SetReceivedCntEffect DEF SyncDone, TypeOK, NotFrozen
  <2> QED
    BY <1>10, <2>2 DEF SyncDone, TypeOK, syncVars
<1>11. ASSUME NEW p \in Peers, SyncFail(p) PROVE TypeOK' /\ NotFrozen'
  BY <1>11 DEF SyncFail, TypeOK, NotFrozen, syncVars
<1>12. CASE Break
  <2>1. PICK m \in [Peers -> 0 .. LinkCap] :
          /\ \A p \in Peers : m[p] <= onwire[p]
          /\ onwire' = m
          /\ pipe' = [p \in Peers |-> SubSeq(pipe[p], 1, inbuf[p] + m[p])]
    BY <1>12 DEF Break
  <2>2. ASSUME NEW p \in Peers
        PROVE  /\ pipe'[p] \in Seq(Nat)
               /\ Len(pipe'[p]) = inbuf'[p] + onwire'[p]
    <3>1. /\ inbuf[p] + m[p] \in Nat
          /\ inbuf[p] + m[p] <= Len(pipe[p])
          /\ pipe[p] \in Seq(Nat)
      <4>1. m[p] \in Nat /\ m[p] <= onwire[p]
        BY <2>1, BoundsAreNaturals
      <4> QED
        BY <4>1 DEF TypeOK
    <3>2. \A i \in 1 .. inbuf[p] + m[p] : pipe[p][i] \in Nat
      BY <3>1
    <3>3. /\ SubSeq(pipe[p], 1, inbuf[p] + m[p]) \in Seq(Nat)
          /\ Len(SubSeq(pipe[p], 1, inbuf[p] + m[p])) = inbuf[p] + m[p]
      BY <3>1, <3>2, SubSeqProperties
    <3> QED
      BY <1>12, <2>1, <3>3 DEF Break
  <2>3. onwire' \in [Peers -> Nat] /\ pipe' \in [Peers -> Seq(Nat)]
    BY <2>1, <2>2, BoundsAreNaturals
  <2>4. beats' \in Nat
    BY <1>12 DEF Break, TypeOK
  <2> QED
    BY <1>12, <2>2, <2>3, <2>4 DEF Break, TypeOK, NotFrozen, syncVars
<1>13. CASE Silence
  BY <1>13 DEF Silence, TypeOK, NotFrozen, syncVars, Peers
<1>14. CASE Reopen
  <2>1. ThroughReconnect(backup[Client]) = backup[Client]
    BY ThroughReconnectIsIdentity DEF TypeOK, NotFrozen, Peers
  <2>2. backup' = backup
    BY <1>14, <2>1 DEF Reopen, TypeOK, Peers
  <2> QED
    <3>1. /\ phase' \in [Peers -> {"up", "down"} \union Syncing]
          /\ pipe' \in [Peers -> Seq(Nat)]
          /\ stats' \in [Peers -> {<<>>} \union (Nat \X Nat \X Nat)]
      BY <1>14 DEF Reopen, Syncing
    <3>2. /\ inbuf' \in [Peers -> Nat]
          /\ onwire' \in [Peers -> Nat]
          /\ swallowed' \in [Peers -> BOOLEAN]
          /\ \A p \in Peers : inbuf'[p] + onwire'[p] <= Len(pipe'[p])
      BY <1>14 DEF Reopen
    <3> QED
      <4>1. /\ link' = "up"
            /\ reopens' = reopens + 1
            /\ beats' = 0
            /\ UNCHANGED <<resend, expected, written, delivered, heard, breaks>>
        BY <1>14 DEF Reopen
      <4>2. NotFrozen'
        BY <2>2 DEF NotFrozen
      <4> QED
        BY <2>2, <3>1, <3>2, <4>1, <4>2 DEF TypeOK
<1>15. CASE SyncTimeout
  <2>1. Scratch(Client) \in BackupType /\ Scratch(Client).frozen = FALSE
    BY <1>15, ScratchType DEF SyncTimeout
  <2> QED
    BY <1>15, <2>1 DEF SyncTimeout, TypeOK, NotFrozen, syncVars, Peers
<1>16. CASE UNCHANGED vars
  BY <1>16 DEF vars, TypeOK, NotFrozen
<1>17. CASE Heartbeat
  BY <1>17 DEF Heartbeat, TypeOK, NotFrozen, syncVars
<1>18. CASE ReadHeartbeat
  <2>1. backup' \in [Peers -> BackupType] /\ NotFrozen'
    BY <1>18, IncrementReceivedCntEffect DEF ReadHeartbeat, TypeOK, NotFrozen, Peers
  <2>2. beats' \in Nat /\ heard' \in [0 .. MaxReopens -> Nat]
    <3>1. /\ beats > 0 /\ beats' = beats - 1 /\ beats \in Nat
          /\ heard' = [heard EXCEPT ![reopens] = heard[reopens] + 1]
      BY <1>18 DEF ReadHeartbeat, TypeOK
    <3>2. \A n \in 0 .. MaxReopens : heard[n] \in Nat /\ heard[n] + 1 \in Nat
      BY HeardTypes
    <3>3. heard' \in [0 .. MaxReopens -> Nat]
      BY <3>1, <3>2, HeardTypes
    <3> QED
      BY <3>1, <3>3
  <2> QED
    BY <1>18, <2>1, <2>2 DEF ReadHeartbeat, TypeOK, syncVars
<1>19. CASE HandshakeTimeout
  <2>1. backup' \in [Peers -> BackupType] /\ NotFrozen'
    BY <1>19, HandshakeBackupsType DEF HandshakeTimeout, TypeOK, NotFrozen, Peers
  <2> QED
    BY <1>19, <2>1 DEF HandshakeTimeout, TypeOK, syncVars
<1> QED
  BY <1>1, <1>2, <1>3, <1>4, <1>5, <1>6, <1>7, <1>8, <1>9, <1>10, <1>11, <1>12,
     <1>13, <1>14, <1>15, <1>16, <1>17, <1>18, <1>19 DEF Next, Synchronize

LEMMA NextStatsRead == Typed /\ [Next]_vars => StatsRead'
<1> SUFFICES ASSUME Typed, [Next]_vars, NEW p \in Peers,
                    phase'[p] \in {"resend", "recv"}
             PROVE  stats'[Other(p)] # <<>>
  BY DEF StatsRead
<1>0. phase \in [Peers -> {"up", "down"} \union Syncing]
  BY DEF Typed, TypeOK
<1>a. ASSUME UNCHANGED stats, phase[p] \in {"resend", "recv"}
      PROVE  stats'[Other(p)] # <<>>
  BY <1>a DEF Typed, StatsRead
<1>1. ASSUME NEW r \in Peers, SyncStart(r) PROVE stats'[Other(p)] # <<>>
  <2>1. p # r
    BY <1>0, <1>1 DEF SyncStart
  <2>2. stats'[Other(p)] = <<backup[r].sent_cnt, backup[r].received_cnt,
                             Len(backup[r].frames)>>
    BY <1>1, <2>1, OtherPeer DEF SyncStart, Typed, TypeOK
  <2> QED
    BY <2>2
<1>2. ASSUME NEW r \in Peers, SyncStats(r) PROVE stats'[Other(p)] # <<>>
  <2>1. CASE p = r
    BY <1>2, <2>1 DEF SyncStats
  <2>2. CASE p # r
    BY <1>a, <1>0, <1>2, <2>2 DEF SyncStats
  <2> QED
    BY <2>1, <2>2
<1>3. ASSUME NEW r \in Peers, SyncResend(r) PROVE stats'[Other(p)] # <<>>
  BY <1>a, <1>3 DEF SyncResend
<1>4. ASSUME NEW r \in Peers, SyncResent(r) PROVE stats'[Other(p)] # <<>>
  BY <1>a, <1>0, <1>4 DEF SyncResent, syncVars
<1>5. ASSUME NEW r \in Peers, SyncRead(r) PROVE stats'[Other(p)] # <<>>
  BY <1>a, <1>5 DEF SyncRead
<1>6. ASSUME NEW r \in Peers, SyncDone(r) PROVE stats'[Other(p)] # <<>>
  BY <1>a, <1>0, <1>6 DEF SyncDone, syncVars
<1>7. ASSUME NEW r \in Peers, SyncFail(r) PROVE stats'[Other(p)] # <<>>
  BY <1>a, <1>0, <1>7 DEF SyncFail, syncVars
<1>8. ASSUME NEW r \in Peers, WriteFrame(r) PROVE stats'[Other(p)] # <<>>
  <2>1. UNCHANGED stats
    BY <1>8 DEF WriteFrame, syncVars
  <2>2. phase' \in {phase, [phase EXCEPT ![Client] = "down"]}
    BY <1>0, <1>8 DEF WriteFrame
  <2> QED
    BY <1>a, <1>0, <2>1, <2>2
<1>9. ASSUME NEW r \in Peers, Flush(r) \/ ReadFrame(r) PROVE stats'[Other(p)] # <<>>
  BY <1>a, <1>9 DEF Flush, ReadFrame, syncVars
<1>10. ASSUME NEW r \in Peers, Detect(r) PROVE stats'[Other(p)] # <<>>
  BY <1>a, <1>0, <1>10 DEF Detect, syncVars
<1>11. CASE Break
  BY <1>a, <1>11 DEF Break, syncVars
<1>12. CASE Silence
  BY <1>a, <1>0, <1>12 DEF Silence, syncVars
<1>13. CASE SyncTimeout
  BY <1>a, <1>0, <1>13 DEF SyncTimeout, syncVars
<1>14. CASE Reopen
  BY <1>14 DEF Reopen
<1>15. CASE UNCHANGED vars
  BY <1>a, <1>15 DEF vars
<1>16. CASE Heartbeat \/ ReadHeartbeat \/ HandshakeTimeout
  BY <1>a, <1>16 DEF Heartbeat, ReadHeartbeat, HandshakeTimeout, syncVars
<1> QED
  BY <1>1, <1>2, <1>3, <1>4, <1>5, <1>6, <1>7, <1>8, <1>9, <1>10, <1>11, <1>12,
     <1>13, <1>14, <1>15, <1>16 DEF Next, Synchronize

(* The variables of two transports and their link have the types they are
   declared with, and the buffers and the socket never hold more frames than
   were written, for every number of frames, disconnects and reconnects. *)
THEOREM TypeCorrectness == Spec => []TypeOK
<1>1. Init => Typed
  BY InitTyped
<1>2. Typed /\ [Next]_vars => Typed'
  BY NextTypeOK, NextStatsRead DEF Typed
<1>3. Typed => TypeOK
  BY DEF Typed
<1> QED
  BY <1>1, <1>2, <1>3, PTL DEF Spec

-----------------------------------------------------------------------------
(* The backup holds the newest frames *)

\* b keeps at most MaxBackup frames, the newest of n.
Suffix(b, n) ==
  /\ b.sent_cnt = n
  /\ Len(b.frames) <= n
  /\ Len(b.frames) <= MaxBackup
  /\ \A i \in 1 .. Len(b.frames) : b.frames[i] = n - Len(b.frames) + i

\* The bound by MaxBackup is what makes BackupIsSuffixOfWritten inductive: without
\* it a backup of size 0 might hold frames, and would not take the next one.
SuffixInv == \A p \in Peers : Suffix(backup[p], written[p])

(* The newest k of the newest frames are the newest frames. *)
LEMMA NewestOfNewest ==
  ASSUME NEW fs \in Seq(Nat), NEW n \in Nat, NEW k \in Nat,
         Len(fs) <= n,
         \A i \in 1 .. Len(fs) : fs[i] = n - Len(fs) + i
  PROVE  /\ Len(Newest(fs, k)) <= n
         /\ Len(Newest(fs, k)) <= k
         /\ Len(Newest(fs, k)) <= Len(fs)
         /\ \A i \in 1 .. Len(Newest(fs, k)) :
              Newest(fs, k)[i] = n - Len(Newest(fs, k)) + i
<1> DEFINE g == Newest(fs, k)
<1>1. /\ g \in Seq(Nat)
      /\ Len(g) = Min(Len(fs), k)
      /\ Len(g) <= Len(fs)
      /\ \A i \in 1 .. Len(g) : g[i] = fs[Len(fs) - Len(g) + i]
  BY NewestFrames
<1>2. Len(fs) \in Nat /\ Len(g) \in Nat /\ Len(g) <= k
  BY <1>1 DEF Min
<1> HIDE DEF g
<1>3. ASSUME NEW i \in 1 .. Len(g) PROVE g[i] = n - Len(g) + i
  <2>1. Len(fs) - Len(g) + i \in 1 .. Len(fs)
    BY <1>1, <1>2
  <2>2. fs[Len(fs) - Len(g) + i] = n - Len(fs) + (Len(fs) - Len(g) + i)
    BY <2>1
  <2>3. n - Len(fs) + (Len(fs) - Len(g) + i) = n - Len(g) + i
    BY <1>2
  <2> QED
    BY <1>1, <2>2, <2>3
<1> QED
  BY <1>1, <1>2, <1>3 DEF g

LEMMA TruncateKeepsSuffix ==
  ASSUME NEW b \in BackupType, b.frozen = FALSE, NEW n \in Nat, NEW k \in Nat,
         Suffix(b, n)
  PROVE  Suffix(TruncateFront(b, k), n)
<1> DEFINE c == TruncateFront(b, k)
<1>1. c.sent_cnt = n /\ c.frames = Newest(b.frames, k)
  BY TruncateFrontEffect DEF Suffix
<1>2. /\ b.frames \in Seq(Nat)
      /\ Len(b.frames) <= n
      /\ Len(b.frames) <= MaxBackup
      /\ \A i \in 1 .. Len(b.frames) : b.frames[i] = n - Len(b.frames) + i
  BY DEF Suffix, BackupType
<1>3. Newest(b.frames, k) \in Seq(Nat)
  BY <1>2, NewestFrames
<1> HIDE DEF c
<1>4. /\ Len(c.frames) <= n
      /\ Len(c.frames) <= Len(b.frames)
      /\ \A i \in 1 .. Len(c.frames) : c.frames[i] = n - Len(c.frames) + i
  <2>1. /\ Len(Newest(b.frames, k)) <= n
        /\ Len(Newest(b.frames, k)) <= Len(b.frames)
        /\ \A i \in 1 .. Len(Newest(b.frames, k)) :
             Newest(b.frames, k)[i] = n - Len(Newest(b.frames, k)) + i
    BY <1>2, NewestOfNewest
  <2> QED
    BY <1>1, <2>1
<1>5. Len(c.frames) <= MaxBackup
  <2>1. Len(c.frames) \in Nat /\ Len(b.frames) \in Nat
    BY <1>1, <1>2, <1>3
  <2> QED
    BY <1>2, <1>4, <2>1, BoundsAreNaturals
<1>6. Suffix(c, n)
  BY <1>1, <1>4, <1>5 DEF Suffix
<1> QED
  BY <1>6 DEF c

LEMMA WriteKeepsSuffix ==
  ASSUME NEW b \in BackupType, b.frozen = FALSE, NEW n \in Nat, Suffix(b, n)
  PROVE  Suffix(PushFrame(IncrementSentCnt(b), n + 1), n + 1)
<1> DEFINE d == IncrementSentCnt(b)
           c == PushFrame(d, n + 1)
           fs == Append(b.frames, n + 1)
<1>1. d \in BackupType /\ d.frozen = FALSE /\ d.sent_cnt = n + 1 /\ d.frames = b.frames
  BY IncrementSentCntEffect DEF Suffix
<1> HIDE DEF d
<1>2. /\ c.sent_cnt = n + 1
      /\ c.frames = IF MaxBackup > 0 THEN Newest(fs, MaxBackup) ELSE b.frames
  <2>1. n + 1 \in Nat
    OBVIOUS
  <2>2. /\ c.sent_cnt = d.sent_cnt
        /\ c.frames = IF MaxBackup > 0 THEN Newest(Append(d.frames, n + 1), MaxBackup)
                      ELSE d.frames
    BY <1>1, <2>1, PushFrameEffect
  <2> QED
    BY <1>1, <2>2
<1>3. /\ b.frames \in Seq(Nat)
      /\ Len(b.frames) \in Nat
      /\ Len(b.frames) <= n
      /\ Len(b.frames) <= MaxBackup
      /\ \A i \in 1 .. Len(b.frames) : b.frames[i] = n - Len(b.frames) + i
  BY DEF Suffix, BackupType
<1> HIDE DEF c
<1>4. CASE MaxBackup > 0
  <2>1. /\ fs \in Seq(Nat)
        /\ Len(fs) = Len(b.frames) + 1
        /\ fs[Len(b.frames) + 1] = n + 1
        /\ \A i \in 1 .. Len(b.frames) : fs[i] = b.frames[i]
    BY <1>3
  <2> HIDE DEF fs
  <2>2. Len(fs) <= n + 1
    BY <1>3, <2>1
  <2>3. ASSUME NEW i \in 1 .. Len(fs) PROVE fs[i] = (n + 1) - Len(fs) + i
    <3>1. CASE i = Len(b.frames) + 1
      <4>1. (n + 1) - Len(fs) + i = n + 1
        <5>1. \A l \in Nat : (n + 1) - (l + 1) + (l + 1) = n + 1
          OBVIOUS
        <5>2. Len(b.frames) \in Nat /\ Len(fs) = Len(b.frames) + 1
          BY <1>3, <2>1
        <5> QED
          BY <3>1, <5>1, <5>2
      <4> QED
        BY <2>1, <3>1, <4>1
    <3>2. CASE i # Len(b.frames) + 1
      <4>1. i \in 1 .. Len(b.frames)
        BY <1>3, <2>1, <3>2
      <4>2. fs[i] = n - Len(b.frames) + i
        BY <1>3, <2>1, <4>1
      <4>3. (n + 1) - Len(fs) + i = n - Len(b.frames) + i
        BY <1>3, <2>1
      <4> QED
        BY <4>2, <4>3
    <3> QED
      BY <3>1, <3>2
  <2>4. /\ Len(c.frames) <= n + 1
        /\ Len(c.frames) <= MaxBackup
        /\ \A i \in 1 .. Len(c.frames) : c.frames[i] = (n + 1) - Len(c.frames) + i
    <3>1. n + 1 \in Nat /\ MaxBackup \in Nat /\ fs \in Seq(Nat)
      BY <2>1, BoundsAreNaturals
    <3>2. /\ Len(Newest(fs, MaxBackup)) <= n + 1
          /\ Len(Newest(fs, MaxBackup)) <= MaxBackup
          /\ \A i \in 1 .. Len(Newest(fs, MaxBackup)) :
               Newest(fs, MaxBackup)[i] = (n + 1) - Len(Newest(fs, MaxBackup)) + i
      BY <2>2, <2>3, <3>1, NewestOfNewest
    <3> QED
      BY <1>2, <1>4, <3>2
  <2>5. c.sent_cnt = n + 1
    BY <1>2
  <2>6. Suffix(c, n + 1)
    BY <2>4, <2>5 DEF Suffix
  <2> QED
    BY <2>6 DEF c, d
<1>5. CASE ~(MaxBackup > 0)
  <2>1. MaxBackup = 0 /\ Len(b.frames) = 0
    BY <1>3, <1>5, BoundsAreNaturals
  <2>2. c.frames = b.frames
    BY <1>2, <1>5
  <2>3. 1 .. Len(c.frames) = {}
    BY <2>1, <2>2
  <2>4. Len(c.frames) <= n + 1 /\ Len(c.frames) <= MaxBackup
    BY <2>1, <2>2
  <2>5. Suffix(c, n + 1)
    BY <1>2, <2>3, <2>4 DEF Suffix
  <2> QED
    BY <2>5 DEF c, d
<1> QED
  BY <1>4, <1>5

(* What is read off the backup is its frames and its count of sent frames. *)
LEMMA SameFramesSameSuffix ==
  ASSUME NEW b, NEW c, NEW n, Suffix(b, n),
         c.sent_cnt = b.sent_cnt, c.frames = b.frames
  PROVE  Suffix(c, n)
BY DEF Suffix

LEMMA SuffixInit == Init => SuffixInv
<1> SUFFICES ASSUME Init, NEW p \in Peers PROVE Suffix(backup[p], written[p])
  BY DEF SuffixInv
<1>1. backup[p] = NewBackup /\ written[p] = 0
  BY DEF Init
<1>2. NewBackup.sent_cnt = 0 /\ NewBackup.frames = <<>>
  BY DEF NewBackup
<1>3. Len(<<>>) = 0 /\ 1 .. 0 = {}
  OBVIOUS
<1> QED
  BY <1>1, <1>2, <1>3, BoundsAreNaturals DEF Suffix

LEMMA SuffixStep ==
  ASSUME AttemptTimeout = FALSE, Typed, SuffixInv, [Next]_vars
  PROVE  SuffixInv'
<1> SUFFICES ASSUME NEW q \in Peers PROVE Suffix(backup'[q], written'[q])
  BY DEF SuffixInv
<1>0. /\ backup \in [Peers -> BackupType]
      /\ written \in [Peers -> Nat]
      /\ backup[q] \in BackupType /\ backup[q].frozen = FALSE
      /\ written[q] \in Nat
      /\ Suffix(backup[q], written[q])
  BY DEF Typed, TypeOK, NotFrozen, SuffixInv
<1>a. ASSUME UNCHANGED <<backup, written>> PROVE Suffix(backup'[q], written'[q])
  BY <1>0, <1>a
<1>1. ASSUME NEW p \in Peers, WriteFrame(p) PROVE Suffix(backup'[q], written'[q])
  <2>1. CASE p = q
    <3>1. /\ written'[q] = written[q] + 1
          /\ backup'[q] = PushFrame(IncrementSentCnt(backup[q]), written[q] + 1)
      BY <1>0, <1>1, <2>1 DEF WriteFrame
    <3> QED
      BY <1>0, <3>1, WriteKeepsSuffix
  <2>2. CASE p # q
    BY <1>0, <1>1, <2>2 DEF WriteFrame
  <2> QED
    BY <2>1, <2>2
<1>2. ASSUME NEW p \in Peers, ReadFrame(p) PROVE Suffix(backup'[q], written'[q])
  <2>1. /\ written' = written
        /\ backup'[q] = IF p = q THEN IncrementReceivedCnt(backup[q]) ELSE backup[q]
    BY <1>0, <1>2 DEF ReadFrame
  <2> QED
    BY <1>0, <2>1, IncrementReceivedCntEffect, SameFramesSameSuffix
<1>3. CASE Reopen
  <2>1. /\ written' = written
        /\ backup'[q] = IF q = Client THEN ThroughReconnect(backup[q]) ELSE backup[q]
    BY <1>0, <1>3 DEF Reopen
  <2> QED
    BY <1>0, <2>1, ThroughReconnectIsIdentity
<1>4. ASSUME NEW p \in Peers, SyncStats(p) PROVE Suffix(backup'[q], written'[q])
  <2>1. ResendCnt(p) \in Nat
    BY <1>4, CountsAreNatural DEF SyncStats, Typed
  <2>2. /\ written' = written
        /\ backup'[q] = IF p = q THEN TruncateFront(backup[q],
             ResendCnt(p)) ELSE backup[q]
    BY <1>0, <1>4 DEF SyncStats
  <2> QED
    BY <1>0, <2>1, <2>2, TruncateKeepsSuffix
<1>5. ASSUME NEW p \in Peers, SyncDone(p) PROVE Suffix(backup'[q], written'[q])
  <2>1. stats[Other(p)][1] \in Nat
    BY <1>5, OtherPeer, StatsFields DEF SyncDone, Typed, StatsRead
  <2>2. /\ written' = written
        /\ backup'[q] = IF p = q THEN SetReceivedCnt(backup[q], stats[Other(p)][1])
                        ELSE backup[q]
    BY <1>0, <1>5 DEF SyncDone
  <2> DEFINE b == SetReceivedCnt(backup[q], stats[Other(p)][1])
  <2>3. b.sent_cnt = backup[q].sent_cnt /\ b.frames = backup[q].frames
    BY <1>0, <2>1, SetReceivedCntEffect
  <2>4. Suffix(b, written[q])
    BY <1>0, <2>3, SameFramesSameSuffix
  <2> QED
    BY <1>0, <2>2, <2>4
<1>6. ASSUME NEW p \in Peers,
             \/ Flush(p) \/ Detect(p) \/ SyncStart(p) \/ SyncResend(p)
             \/ SyncResent(p) \/ SyncRead(p) \/ SyncFail(p)
      PROVE  UNCHANGED <<backup, written>>
  BY <1>6 DEF Flush, Detect, SyncStart, SyncResend, SyncResent, SyncRead, SyncFail
<1>7. Break \/ Silence \/ Heartbeat \/ UNCHANGED vars => UNCHANGED <<backup, written>>
  BY DEF Break, Silence, Heartbeat, vars
<1>8. ~SyncTimeout /\ ~HandshakeTimeout
  BY DEF SyncTimeout, HandshakeTimeout
<1>9. CASE ReadHeartbeat
  <2>1. /\ written' = written
        /\ backup'[q] = IF q = Client THEN IncrementReceivedCnt(backup[q]) ELSE backup[q]
    BY <1>0, <1>9 DEF ReadHeartbeat
  <2> QED
    BY <1>0, <2>1, IncrementReceivedCntEffect, SameFramesSameSuffix
<1> QED
  BY <1>a, <1>1, <1>2, <1>3, <1>4, <1>5, <1>6, <1>7, <1>8, <1>9 DEF Next, Synchronize

(* If the reconnect strategy has no timeout, as in every configuration that is
   shipped, then the backup always holds the newest frames the peer wrote,
   without a gap and in order, and counts all of them: for every size of the
   backup and of the socket, and any number of frames and reconnects. *)
THEOREM BackupCorrectness ==
  ASSUME AttemptTimeout = FALSE
  PROVE  Spec => []BackupIsSuffixOfWritten
<1>1. Init => Typed /\ SuffixInv
  BY InitTyped, SuffixInit
<1>2. Typed /\ SuffixInv /\ [Next]_vars => (Typed /\ SuffixInv)'
  BY NextTypeOK, NextStatsRead, SuffixStep DEF Typed
<1>3. SuffixInv => BackupIsSuffixOfWritten
  BY DEF SuffixInv, Suffix, BackupIsSuffixOfWritten
<1> QED
  BY <1>1, <1>2, <1>3, PTL DEF Spec

-----------------------------------------------------------------------------
(* No frame is handed out twice *)

\* What is known of the frames that q writes and Other(q) reads.
Direction(q) ==
  PhaseInv(q) /\ DeliveredInv(q) /\ PipeInv(q) /\ ResendInv(q) /\ AgreementInv(q)

TransportInv ==
  /\ Typed /\ SuffixInv /\ AtMostOnce /\ NeverUndercounts /\ LinkInv
  /\ \A q \in Peers : Direction(q)

(* The numbers in what is known of a direction. *)
LEMMA DirectionTypes ==
  ASSUME TypeOK, NEW q \in Peers, NEW p \in Peers
  PROVE  /\ phase[q] \in {"up", "down"} \union Syncing
         /\ Len(pipe[q]) \in Nat /\ \A i \in 1 .. Len(pipe[q]) : pipe[q][i] \in Nat
         /\ Len(delivered[p]) \in Nat
         /\ \A i \in 1 .. Len(delivered[p]) : delivered[p][i] \in Nat
         /\ written[q] \in Nat /\ expected[p] \in Nat /\ Len(resend[q]) \in Nat
         /\ backup[q].received_cnt \in Nat /\ Len(backup[q].frames) \in Nat
         /\ stats[q] # <<>> =>
              stats[q][1] \in Nat /\ stats[q][2] \in Nat /\ stats[q][3] \in Nat
<1>1. /\ phase[q] \in {"up", "down"} \union Syncing
      /\ pipe[q] \in Seq(Nat) /\ delivered[p] \in Seq(Nat) /\ resend[q] \in Seq(Nat)
      /\ written[q] \in Nat /\ expected[p] \in Nat
      /\ backup[q] \in BackupType
  BY DEF TypeOK
<1>2. backup[q].received_cnt \in Nat /\ Len(backup[q].frames) \in Nat
  BY <1>1 DEF BackupType
<1>3. /\ Len(pipe[q]) \in Nat /\ \A i \in 1 .. Len(pipe[q]) : pipe[q][i] \in Nat
      /\ Len(delivered[p]) \in Nat
      /\ \A i \in 1 .. Len(delivered[p]) : delivered[p][i] \in Nat
      /\ Len(resend[q]) \in Nat
  BY <1>1
<1>4. stats[q] # <<>> =>
        stats[q][1] \in Nat /\ stats[q][2] \in Nat /\ stats[q][3] \in Nat
  BY StatsFields
<1> QED
  BY <1>1, <1>2, <1>3, <1>4

(* A step that leaves a direction alone. *)
LEMMA DirectionSame ==
  ASSUME TransportInv, NEW q \in Peers, NEW p \in Peers, p = Other(q),
         UNCHANGED <<link, phase, stats>>,
         pipe'[q] = pipe[q], resend'[q] = resend[q], expected'[p] = expected[p],
         written'[q] = written[q], delivered'[p] = delivered[p],
         backup'[p].received_cnt = backup[p].received_cnt,
         phase[q] # "up" => /\ backup'[q].received_cnt = backup[q].received_cnt
                            /\ Len(backup'[q].frames) = Len(backup[q].frames)
  PROVE  Direction(q)'
<1>1. PhaseInv(q) /\ DeliveredInv(q) /\ PipeInv(q) /\ ResendInv(q) /\ AgreementInv(q)
  BY DEF TransportInv, Direction
<1>2. Base(p)' = Base(p) /\ StillExpected(p)' = StillExpected(p)
  <2>1. q = Other(p)
    BY OtherPeer
  <2> QED
    BY <2>1 DEF Base, StillExpected, ExpectedCnt
<1>3. PhaseInv(q)'
  BY <1>1 DEF PhaseInv, Syncing
<1>4. DeliveredInv(q)'
  BY <1>1 DEF DeliveredInv
<1>5. PipeInv(q)'
  BY <1>1, <1>2 DEF PipeInv
<1>6. ResendInv(q)'
  BY <1>1 DEF ResendInv
<1>7. AgreementInv(q)'
  BY <1>1, <1>2 DEF AgreementInv
<1> QED
  BY <1>3, <1>4, <1>5, <1>6, <1>7 DEF Direction

(* A step after which the link is broken: peers give it up, and what was on the
   way may be cut short. *)
LEMMA DirectionBroken ==
  ASSUME TransportInv, NEW q \in Peers, NEW p \in Peers, p = Other(q),
         link' = "broken", UNCHANGED stats,
         phase'[q] \in {phase[q], "down"}, phase'[p] \in {phase[p], "down"},
         pipe'[q] \in Seq(Nat), Len(pipe'[q]) <= Len(pipe[q]),
         \A i \in 1 .. Len(pipe'[q]) : pipe'[q][i] = pipe[q][i],
         resend'[q] = resend[q], expected'[p] = expected[p],
         delivered'[p] = delivered[p],
         written'[q] \in Nat, written'[q] >= written[q],
         backup'[p].received_cnt = backup[p].received_cnt,
         phase[q] # "up" => /\ backup'[q].received_cnt = backup[q].received_cnt
                            /\ Len(backup'[q].frames) = Len(backup[q].frames)
                            /\ written'[q] = written[q]
  PROVE  Direction(q)'
<1>1. PhaseInv(q) /\ DeliveredInv(q) /\ PipeInv(q) /\ ResendInv(q)
  BY DEF TransportInv, Direction
<1>0. TypeOK
  BY DEF TransportInv, Typed
<1>2. phase'[p] # "down" => Base(p)' = Base(p) /\ StillExpected(p)' = StillExpected(p)
  <2>1. q = Other(p)
    BY OtherPeer
  <2> QED
    BY <2>1 DEF Base, StillExpected, ExpectedCnt
<1>3. PhaseInv(q)'
  <2>1. phase[q] \in {"opened", "stats"} => pipe[q] = <<>>
    BY <1>1 DEF PhaseInv
  <2>2. phase'[q] \in {"opened", "stats"} => pipe'[q] = <<>>
    BY <2>1
  <2> QED
    BY <1>1, <2>2 DEF PhaseInv, Syncing
<1>4. DeliveredInv(q)'
  <2>1. \A i \in 1 .. Len(delivered[p]) : delivered[p][i] \in Nat
    BY <1>0, DirectionTypes
  <2>2. written[q] \in Nat
    BY <1>0, DirectionTypes
  <2> QED
    BY <1>1, <2>1, <2>2 DEF DeliveredInv, Syncing
<1>5. PipeInv(q)'
  <2>2. written[q] \in Nat /\ Len(pipe[q]) \in Nat
    BY <1>0, DirectionTypes
  <2>3. \A i \in 1 .. Len(pipe'[q]) : i \in 1 .. Len(pipe[q])
    BY <2>2
  <2> SUFFICES ASSUME phase'[p] # "down", NEW i \in 1 .. Len(pipe'[q])
               PROVE  /\ pipe'[q][i] \in 1 .. written'[q]
                      /\ \A j \in 1 .. Len(pipe'[q]) : i # j =>
                           pipe'[q][j] # pipe'[q][i]
                      /\ \A j \in 1 .. Len(delivered'[p]) :
                           delivered'[p][j] # pipe'[q][i]
                      /\ pipe'[q][i] <= Base(p)' + SaturatingSub(i, StillExpected(p)')
    BY DEF PipeInv
  <2>4. /\ pipe[q][i] \in 1 .. written[q]
        /\ \A j \in 1 .. Len(pipe[q]) : i # j => pipe[q][j] # pipe[q][i]
        /\ \A j \in 1 .. Len(delivered[p]) : delivered[p][j] # pipe[q][i]
        /\ pipe[q][i] <= Base(p) + SaturatingSub(i, StillExpected(p))
    BY <1>1, <2>3 DEF PipeInv
  <2> QED
    BY <1>2, <2>2, <2>3, <2>4
<1>6. ResendInv(q)'
  BY <1>1 DEF ResendInv
<1>7. AgreementInv(q)'
  BY DEF AgreementInv
<1> QED
  BY <1>3, <1>4, <1>5, <1>6, <1>7 DEF Direction

-----------------------------------------------------------------------------
(* One step, one direction *)

(* The count a reader will have, and the frames it waits for, are numbers. *)
LEMMA BaseTypes ==
  ASSUME TypeOK, NEW q \in Peers, NEW p \in Peers, p = Other(q),
         phase[p] = "up" \/ stats[q] # <<>>
  PROVE  Base(p) \in Nat /\ StillExpected(p) \in Nat
<1>1. q = Other(p)
  BY OtherPeer
<1>2. backup[p].received_cnt \in Nat /\ expected[p] \in Nat
  BY DirectionTypes
<1>3. stats[q] # <<>> => stats[q][1] \in Nat /\ ExpectedCnt(p) \in Nat
  BY <1>1, StatsFields, CountsAreNatural
<1> QED
  BY <1>1, <1>2, <1>3 DEF Base, StillExpected

(* How many of the newest k of w frames are sent to a peer that has had r of
   them: what it has had is not among them. *)
LEMMA ResentNumber ==
  ASSUME NEW w \in Nat, NEW r \in Nat, NEW k \in Nat, NEW n,
         n = Min(SaturatingSub(w, r), k)
  PROVE  /\ n \in Nat
         /\ n <= w
         /\ Min(k, n) = n
         /\ \A f \in Nat : f <= w /\ f <= r => f <= w - n
BY DEF Min, SaturatingSub

(* A frame is written to a link that is up. *)
LEMMA WriteFrameKeeps ==
  ASSUME TransportInv, TypeOK', NEW q \in Peers, NEW p \in Peers, p = Other(q),
         WriteFrame(q), link = "up"
  PROVE  Direction(q)'
<1>0. TypeOK /\ q = Other(p) /\ p # q /\ LinkInv /\ StatsRead
  BY OtherPeer DEF TransportInv, Typed
<1>1. /\ PhaseInv(q) /\ DeliveredInv(q) /\ PipeInv(q) /\ ResendInv(q) /\ AgreementInv(q)
      /\ PhaseInv(p)
  BY DEF TransportInv, Direction
<1>2. /\ phase[q] \in {"up", "down"} \union Syncing
           /\ phase[p] \in {"up", "down"} \union Syncing
      /\ Len(pipe[q]) \in Nat /\ \A i \in 1 .. Len(pipe[q]) : pipe[q][i] \in Nat
      /\ Len(delivered[p]) \in Nat
      /\ \A i \in 1 .. Len(delivered[p]) : delivered[p][i] \in Nat
      /\ written[q] \in Nat /\ expected[p] \in Nat /\ Len(resend[q]) \in Nat
      /\ backup[p].received_cnt \in Nat /\ backup[q].received_cnt \in Nat
      /\ Len(backup[q].frames) \in Nat
  BY <1>0, DirectionTypes
<1>4. /\ phase[q] = "up" /\ UNCHANGED <<phase, link, stats, resend, expected,
                                        delivered>>
      /\ pipe'[q] = Append(pipe[q], written[q] + 1) /\ written'[q] = written[q] + 1
      /\ backup'[p] = backup[p]
  BY <1>0 DEF WriteFrame, syncVars, TypeOK
<1>5. Base(p)' = Base(p) /\ StillExpected(p)' = StillExpected(p)
  BY <1>0, <1>4 DEF Base, StillExpected, ExpectedCnt
<1>6. /\ Len(pipe'[q]) = Len(pipe[q]) + 1 /\ pipe'[q][Len(pipe[q]) + 1] = written[q] + 1
      /\ \A i \in 1 .. Len(pipe[q]) : pipe'[q][i] = pipe[q][i]
  <2>1. pipe[q] \in Seq(Nat)
    BY <1>0 DEF TypeOK
  <2> QED
    BY <1>2, <1>4, <2>1, AppendProperties
<1>7. Base(p) \in Nat /\ StillExpected(p) \in Nat
  <2>1. phase[p] = "up" \/ stats[q] # <<>>
    BY <1>0, <1>1, <1>2, <1>4 DEF LinkInv, PhaseInv, Syncing
  <2> QED
    BY <1>0, <2>1, BaseTypes
<1>8. StillExpected(p) <= Len(pipe[q])
        /\ written[q] + StillExpected(p) <= Base(p) + Len(pipe[q])
  BY <1>0, <1>1, <1>4 DEF AgreementInv
<1>9. \A i \in 1 .. Len(pipe'[q]) : i \in 1 .. Len(pipe[q]) \/ i = Len(pipe[q]) + 1
  BY <1>2, <1>6
<1>10. PhaseInv(q)'
  BY <1>1, <1>4 DEF PhaseInv, Syncing
<1>11. DeliveredInv(q)'
  BY <1>1, <1>2, <1>4 DEF DeliveredInv
<1>12. PipeInv(q)'
  <2> SUFFICES ASSUME phase'[p] # "down", NEW i \in 1 .. Len(pipe'[q])
               PROVE  /\ pipe'[q][i] \in 1 .. written'[q]
                      /\ \A j \in 1 .. Len(pipe'[q]) : i # j =>
                           pipe'[q][j] # pipe'[q][i]
                      /\ \A j \in 1 .. Len(delivered'[p]) :
                           delivered'[p][j] # pipe'[q][i]
                      /\ pipe'[q][i] <= Base(p)' + SaturatingSub(i, StillExpected(p)')
                      /\ link' = "up" /\ phase'[q] = "resend" =>
                           pipe'[q][i] <= written'[q] - Len(resend'[q])
    BY DEF PipeInv
  <2>1. \A n \in 1 .. Len(pipe[q]) :
          /\ pipe[q][n] \in 1 .. written[q]
          /\ \A j \in 1 .. Len(pipe[q]) : n # j => pipe[q][j] # pipe[q][n]
          /\ \A j \in 1 .. Len(delivered[p]) : delivered[p][j] # pipe[q][n]
          /\ pipe[q][n] <= Base(p) + SaturatingSub(n, StillExpected(p))
          /\ link = "up" /\ phase[q] = "resend" =>
               pipe[q][n] <= written[q] - Len(resend[q])
    BY <1>1, <1>4 DEF PipeInv
  <2>2. CASE i \in 1 .. Len(pipe[q])
    <3>1. pipe'[q][i] = pipe[q][i] /\ pipe[q][i] \in 1 .. written[q]
            /\ pipe[q][i] # written[q] + 1
      BY <1>2, <1>6, <2>1, <2>2
    <3>2. \A j \in 1 .. Len(pipe'[q]) : i # j => pipe'[q][j] # pipe'[q][i]
      BY <1>6, <1>9, <2>1, <2>2, <3>1
    <3>3. pipe'[q][i] \in 1 .. written'[q]
      BY <1>2, <1>4, <3>1
    <3>4. phase'[q] # "resend" /\ delivered' = delivered
      BY <1>4
    <3> QED
      BY <1>5, <2>1, <2>2, <3>1, <3>2, <3>3, <3>4
  <2>3. CASE i = Len(pipe[q]) + 1
    <3>1. \A j \in 1 .. Len(delivered[p]) : delivered[p][j] \in 1 .. written[q]
      BY <1>1 DEF DeliveredInv
    <3>2. written[q] + 1 <= Base(p) + SaturatingSub(Len(pipe[q]) + 1, StillExpected(p))
      BY <1>2, <1>7, <1>8 DEF SaturatingSub
    <3>3. /\ pipe'[q][i] = written[q] + 1
          /\ \A j \in 1 .. Len(pipe'[q]) : i # j => pipe'[q][j] \in 1 .. written[q]
      BY <1>6, <1>9, <2>1, <2>3
    <3>4. written[q] + 1 \notin 1 .. written[q]
            /\ written[q] + 1 \in 1 .. written[q] + 1
      BY <1>2
    <3>5. /\ pipe'[q][i] \in 1 .. written'[q]
          /\ \A j \in 1 .. Len(pipe'[q]) : i # j => pipe'[q][j] # pipe'[q][i]
      BY <1>4, <3>3, <3>4
    <3>6. \A j \in 1 .. Len(delivered'[p]) : delivered'[p][j] # pipe'[q][i]
      BY <1>4, <3>1, <3>3, <3>4
    <3>7. phase'[q] # "resend"
      BY <1>4
    <3> QED
      BY <1>5, <2>3, <3>2, <3>3, <3>5, <3>6, <3>7
  <2> QED
    BY <1>9, <2>2, <2>3
<1>13. ResendInv(q)'
  BY <1>1, <1>4 DEF ResendInv
<1>14. AgreementInv(q)'
  <2>1. StillExpected(p)' <= Len(pipe'[q])
          /\ written'[q] + StillExpected(p)' <= Base(p)' + Len(pipe'[q])
    BY <1>2, <1>4, <1>5, <1>6, <1>7, <1>8
  <2>2. phase'[q] = "up"
    BY <1>4
  <2> QED
    BY <1>0, <2>1, <2>2 DEF AgreementInv
<1> QED
  BY <1>10, <1>11, <1>12, <1>13, <1>14 DEF Direction

(* The reader hands out the first frame. *)
LEMMA ReadFrameKeeps ==
  ASSUME TransportInv, TypeOK', NEW q \in Peers, NEW p \in Peers, p = Other(q),
         ReadFrame(p)
  PROVE  Direction(q)'
<1>0. TypeOK /\ q = Other(p) /\ p # q /\ LinkInv /\ StatsRead
  BY OtherPeer DEF TransportInv, Typed
<1>1. /\ PhaseInv(q) /\ DeliveredInv(q) /\ PipeInv(q) /\ ResendInv(q) /\ AgreementInv(q)
      /\ PhaseInv(p)
  BY DEF TransportInv, Direction
<1>2. /\ phase[q] \in {"up", "down"} \union Syncing
           /\ phase[p] \in {"up", "down"} \union Syncing
      /\ Len(pipe[q]) \in Nat /\ \A i \in 1 .. Len(pipe[q]) : pipe[q][i] \in Nat
      /\ Len(delivered[p]) \in Nat
      /\ \A i \in 1 .. Len(delivered[p]) : delivered[p][i] \in Nat
      /\ written[q] \in Nat /\ expected[p] \in Nat /\ Len(resend[q]) \in Nat
      /\ backup[p].received_cnt \in Nat /\ backup[q].received_cnt \in Nat
      /\ Len(backup[q].frames) \in Nat
  BY <1>0, DirectionTypes
<1>3. /\ stats[q] # <<>> =>
           stats[q][1] \in Nat /\ stats[q][2] \in Nat /\ stats[q][3] \in Nat
      /\ stats[p] # <<>> =>
           stats[p][1] \in Nat /\ stats[p][2] \in Nat /\ stats[p][3] \in Nat
  BY <1>0, StatsFields
<1>4. /\ phase[p] = "up" /\ UNCHANGED <<phase, link, stats, resend, expected, written>>
      /\ pipe[q] # <<>> /\ pipe'[q] = Tail(pipe[q])
      /\ delivered'[p] = Append(delivered[p], Head(pipe[q]))
      /\ backup'[p].received_cnt = backup[p].received_cnt + 1
      /\ backup'[q] = backup[q]
  <2>1. pipe[q] # <<>>
    BY <1>0, BufferedFrames DEF ReadFrame
  <2>2. backup'[p] = IncrementReceivedCnt(backup[p]) /\ backup'[q] = backup[q]
    BY <1>0 DEF ReadFrame, TypeOK
  <2>3. backup'[p].received_cnt = backup[p].received_cnt + 1
    BY <1>0, <2>2, IncrementReceivedCntEffect DEF TransportInv, Typed, NotFrozen, TypeOK
  <2>4. pipe'[q] = Tail(pipe[q]) /\ delivered'[p] = Append(delivered[p], Head(pipe[q]))
    BY <1>0 DEF ReadFrame, TypeOK
  <2> QED
    BY <1>0, <2>1, <2>2, <2>3, <2>4 DEF ReadFrame, syncVars
<1>5. /\ Len(pipe'[q]) = Len(pipe[q]) - 1 /\ Head(pipe[q]) = pipe[q][1]
           /\ Len(pipe[q]) >= 1
      /\ \A i \in 1 .. Len(pipe'[q]) : pipe'[q][i] = pipe[q][i + 1]
           /\ i + 1 \in 1 .. Len(pipe[q])
  <2>1. pipe[q] \in Seq(Nat)
    BY <1>0 DEF TypeOK
  <2>2. Len(pipe[q]) >= 1
    BY <1>2, <1>4, <2>1, EmptySeq
  <2>3. /\ Len(pipe'[q]) = Len(pipe[q]) - 1 /\ Head(pipe[q]) = pipe[q][1]
        /\ \A i \in 1 .. Len(pipe'[q]) : pipe'[q][i] = pipe[q][i + 1]
    BY <1>4, <2>1, HeadTailProperties
  <2>4. \A i \in 1 .. Len(pipe[q]) - 1 : i + 1 \in 1 .. Len(pipe[q])
    BY <1>2
  <2> QED
    BY <2>2, <2>3, <2>4
<1>6. /\ Len(delivered'[p]) = Len(delivered[p]) + 1
      /\ \A i \in 1 .. Len(delivered[p]) : delivered'[p][i] = delivered[p][i]
      /\ delivered'[p][Len(delivered[p]) + 1] = pipe[q][1]
  <2>1. delivered[p] \in Seq(Nat)
    BY <1>0 DEF TypeOK
  <2>2. 1 \in 1 .. Len(pipe[q])
    BY <1>2, <1>5
  <2>3. Head(pipe[q]) \in Nat
    BY <1>2, <1>5, <2>2
  <2> QED
    BY <1>2, <1>4, <1>5, <2>1, <2>3, AppendProperties
<1>7. /\ Base(p)' = Base(p) + 1 /\ Base(p) \in Nat
      /\ StillExpected(p)' = 0 /\ StillExpected(p) = 0
  BY <1>2, <1>4 DEF Base, StillExpected
<1>8. \A i \in 1 .. Len(delivered'[p]) :
        i \in 1 .. Len(delivered[p]) \/ i = Len(delivered[p]) + 1
  BY <1>2, <1>6
<1>9. \A i \in 1 .. Len(pipe[q]) :
        /\ pipe[q][i] \in 1 .. written[q]
        /\ \A j \in 1 .. Len(pipe[q]) : i # j => pipe[q][j] # pipe[q][i]
        /\ \A j \in 1 .. Len(delivered[p]) : delivered[p][j] # pipe[q][i]
        /\ pipe[q][i] <= Base(p) + i
        /\ link = "up" /\ phase[q] = "resend" =>
             pipe[q][i] <= written[q] - Len(resend[q])
  <2>1. \A i \in 1 .. Len(pipe[q]) : SaturatingSub(i, 0) = i
    BY <1>2 DEF SaturatingSub
  <2>2. phase[p] # "down"
    BY <1>4
  <2> QED
    BY <1>1, <1>7, <2>1, <2>2 DEF PipeInv
<1>10. 1 \in 1 .. Len(pipe[q]) /\ phase[q] \notin {"opened", "stats"}
  BY <1>1, <1>2, <1>4, <1>5 DEF PhaseInv
<1>11. PhaseInv(q)'
  <2>1. phase[q] \in {"opened", "stats"} => pipe'[q] = <<>>
    BY <1>10
  <2> QED
    BY <1>1, <1>4, <2>1 DEF PhaseInv
<1>12. DeliveredInv(q)'
  <2> SUFFICES ASSUME NEW i \in 1 .. Len(delivered'[p])
               PROVE  /\ delivered'[p][i] \in 1 .. written[q]
                      /\ link = "up" /\ phase[q] = "resend" =>
                           delivered'[p][i] <= written[q] - Len(resend[q])
    BY <1>4, <1>10 DEF DeliveredInv, Syncing
  <2>1. CASE i \in 1 .. Len(delivered[p])
    BY <1>1, <1>6, <2>1 DEF DeliveredInv
  <2>2. CASE i = Len(delivered[p]) + 1
    BY <1>6, <1>9, <1>10, <2>2
  <2> QED
    BY <1>8, <2>1, <2>2
<1>13. PipeInv(q)'
  <2> SUFFICES ASSUME phase'[p] # "down", NEW i \in 1 .. Len(pipe'[q])
               PROVE  /\ pipe'[q][i] \in 1 .. written'[q]
                      /\ \A j \in 1 .. Len(pipe'[q]) : i # j =>
                           pipe'[q][j] # pipe'[q][i]
                      /\ \A j \in 1 .. Len(delivered'[p]) :
                           delivered'[p][j] # pipe'[q][i]
                      /\ pipe'[q][i] <= Base(p)' + SaturatingSub(i, StillExpected(p)')
                      /\ link' = "up" /\ phase'[q] = "resend" =>
                           pipe'[q][i] <= written'[q] - Len(resend'[q])
    BY DEF PipeInv
  <2>1. i + 1 \in 1 .. Len(pipe[q]) /\ pipe'[q][i] = pipe[q][i + 1]
    BY <1>5
  <2>2. /\ pipe'[q][i] \in 1 .. written'[q]
        /\ link' = "up" /\ phase'[q] = "resend" =>
             pipe'[q][i] <= written'[q] - Len(resend'[q])
    BY <1>4, <1>9, <2>1
  <2>3. \A j \in 1 .. Len(pipe'[q]) : i # j => pipe'[q][j] # pipe'[q][i]
    <3>1. \A j \in 1 .. Len(pipe'[q]) : i # j => i + 1 # j + 1
      BY <1>2, <1>5
    <3> QED
      BY <1>5, <1>9, <2>1, <3>1
  <2>4. \A j \in 1 .. Len(delivered'[p]) : delivered'[p][j] # pipe'[q][i]
    <3>1. 1 # i + 1
      BY <1>2, <1>5
    <3>2. pipe[q][1] # pipe[q][i + 1]
      BY <1>9, <1>10, <2>1, <3>1
    <3> SUFFICES ASSUME NEW j \in 1 .. Len(delivered'[p])
                 PROVE  delivered'[p][j] # pipe[q][i + 1]
      BY <2>1
    <3>3. CASE j \in 1 .. Len(delivered[p])
      <4>1. delivered'[p][j] = delivered[p][j]
        BY <1>6, <3>3
      <4>2. delivered[p][j] # pipe[q][i + 1]
        BY <1>9, <2>1, <3>3
      <4> QED
        BY <4>1, <4>2
    <3>4. CASE j = Len(delivered[p]) + 1
      BY <1>6, <3>2, <3>4
    <3> QED
      BY <1>8, <3>3, <3>4
  <2>5. pipe'[q][i] <= Base(p)' + SaturatingSub(i, StillExpected(p)')
    <3>1. pipe[q][i + 1] <= Base(p) + (i + 1) /\ pipe[q][i + 1] \in Nat
      BY <1>2, <1>9, <2>1
    <3>2. SaturatingSub(i, 0) = i
      BY <1>2, <1>5 DEF SaturatingSub
    <3> QED
      BY <1>2, <1>5, <1>7, <2>1, <3>1, <3>2
  <2> QED
    BY <2>2, <2>3, <2>4, <2>5
<1>14. ResendInv(q)'
  BY <1>1, <1>4 DEF ResendInv
<1>15. AgreementInv(q)'
  <2>1. link = "up" /\ phase[q] \in {"stats", "resend", "recv"} =>
          stats[q][1] <= Base(p) /\ stats[q] # <<>>
    BY <1>0, <1>1 DEF AgreementInv, PhaseInv
  <2>2. link = "up" /\ phase[q] = "up" => written[q] <= Base(p) + Len(pipe[q])
    BY <1>0, <1>1, <1>2, <1>7 DEF AgreementInv
  <2> SUFFICES ASSUME link = "up"
               PROVE  /\ phase[q] \in {"stats", "resend", "recv"} =>
                        stats[q][1] <= Base(p)'
                      /\ 0 <= Len(pipe'[q]) + Len(resend[q]) /\ 0 <= Len(pipe'[q])
                      /\ phase[q] = "up" => written[q] + 0 <= Base(p)' + Len(pipe'[q])
    BY <1>0, <1>4, <1>7 DEF AgreementInv
  <2>3. stats[q] # <<>> /\ stats[q][1] <= Base(p) => stats[q][1] <= Base(p) + 1
    BY <1>3, <1>7
  <2>4. Len(pipe'[q]) \in Nat /\ Len(pipe'[q]) = Len(pipe[q]) - 1
    BY <1>2, <1>5
  <2>5. written[q] <= Base(p) + Len(pipe[q]) =>
          written[q] + 0 <= Base(p) + 1 + Len(pipe'[q])
    BY <1>2, <1>7, <2>4
  <2>6. 0 <= Len(pipe'[q]) + Len(resend[q]) /\ 0 <= Len(pipe'[q])
    <3>1. \A a, b \in Nat : 0 <= a /\ 0 <= a + b
      OBVIOUS
    <3> QED
      BY <1>2, <2>4, <3>1
  <2> QED
    BY <1>7, <2>1, <2>2, <2>3, <2>5, <2>6
<1> QED
  BY <1>11, <1>12, <1>13, <1>14, <1>15 DEF Direction

(* A new link begins with nothing on it. *)
LEMMA ReopenKeeps ==
  ASSUME TransportInv, TypeOK', NEW q \in Peers, NEW p \in Peers, p = Other(q),
         Reopen
  PROVE  Direction(q)'
<1>0. TypeOK /\ q = Other(p) /\ p # q /\ LinkInv /\ StatsRead
  BY OtherPeer DEF TransportInv, Typed
<1>1. /\ PhaseInv(q) /\ DeliveredInv(q) /\ PipeInv(q) /\ ResendInv(q) /\ AgreementInv(q)
      /\ PhaseInv(p)
  BY DEF TransportInv, Direction
<1>4. /\ phase'[q] = "opened" /\ phase'[p] = "opened" /\ link' = "up"
      /\ pipe'[q] = <<>> /\ stats'[q] = <<>> /\ stats'[p] = <<>>
      /\ UNCHANGED <<written, delivered>>
  BY <1>0 DEF Reopen, TypeOK
<1>5. PhaseInv(q)'
  BY <1>0, <1>4 DEF PhaseInv
<1>6. DeliveredInv(q)'
  BY <1>0, <1>1, <1>4 DEF DeliveredInv
<1>7. PipeInv(q)'
  <2>1. Len(pipe'[q]) = 0 /\ 1 .. 0 = {}
    BY <1>4
  <2> QED
    BY <2>1 DEF PipeInv
<1>8. ResendInv(q)'
  BY <1>4 DEF ResendInv
<1>9. AgreementInv(q)'
  BY <1>0, <1>4 DEF AgreementInv
<1> QED
  BY <1>5, <1>6, <1>7, <1>8, <1>9 DEF Direction

(* The writer sends its stats. *)
LEMMA SyncStartKeepsOut ==
  ASSUME TransportInv, TypeOK', NEW q \in Peers, NEW p \in Peers, p = Other(q),
         SyncStart(q)
  PROVE  Direction(q)'
<1>0. TypeOK /\ q = Other(p) /\ p # q /\ LinkInv /\ StatsRead
  BY OtherPeer DEF TransportInv, Typed
<1>1. /\ PhaseInv(q) /\ DeliveredInv(q) /\ PipeInv(q) /\ ResendInv(q) /\ AgreementInv(q)
      /\ PhaseInv(p)
  BY DEF TransportInv, Direction
<1>2. /\ phase[q] \in {"up", "down"} \union Syncing
           /\ phase[p] \in {"up", "down"} \union Syncing
      /\ Len(pipe[q]) \in Nat /\ \A i \in 1 .. Len(pipe[q]) : pipe[q][i] \in Nat
      /\ Len(delivered[p]) \in Nat
      /\ \A i \in 1 .. Len(delivered[p]) : delivered[p][i] \in Nat
      /\ written[q] \in Nat /\ expected[p] \in Nat /\ Len(resend[q]) \in Nat
      /\ backup[p].received_cnt \in Nat /\ backup[q].received_cnt \in Nat
      /\ Len(backup[q].frames) \in Nat
  BY <1>0, DirectionTypes
<1>4. /\ phase[q] = "opened" /\ phase'[q] = "stats" /\ phase'[p] = phase[p]
      /\ link = "up" /\ UNCHANGED <<link, pipe, resend, expected, written, delivered,
                                    backup>>
      /\ stats'[q] = <<backup[q].sent_cnt, backup[q].received_cnt,
           Len(backup[q].frames)>>
      /\ stats'[p] = stats[p]
  BY <1>0 DEF SyncStart, TypeOK
<1>5. pipe'[q] = <<>> /\ phase[p] \in {"opened", "stats"}
  BY <1>0, <1>1, <1>4 DEF PhaseInv, LinkInv
<1>6. /\ stats'[q] # <<>> /\ stats'[q][1] = written[q]
      /\ stats'[q][2] = backup[q].received_cnt /\ stats'[q][3] = Len(backup[q].frames)
  BY <1>4 DEF TransportInv, SuffixInv, Suffix
<1>7. PhaseInv(q)'
  BY <1>0, <1>4, <1>5, <1>6 DEF PhaseInv
<1>8. DeliveredInv(q)'
  BY <1>0, <1>1, <1>2, <1>4, <1>6 DEF DeliveredInv
<1>9. PipeInv(q)'
  <2>1. Len(pipe'[q]) = 0 /\ 1 .. 0 = {}
    BY <1>5
  <2> QED
    BY <2>1 DEF PipeInv
<1>10. ResendInv(q)'
  BY <1>4 DEF ResendInv
<1>11. AgreementInv(q)'
  <2>1. Base(p)' = written[q]
    BY <1>0, <1>4, <1>5, <1>6 DEF Base
  <2>2. stats'[q][1] <= Base(p)'
    BY <1>2, <1>6, <2>1
  <2> QED
    BY <1>0, <1>4, <1>5, <2>2 DEF AgreementInv
<1> QED
  BY <1>7, <1>8, <1>9, <1>10, <1>11 DEF Direction

(* The reader sends its stats. *)
LEMMA SyncStartKeepsIn ==
  ASSUME TransportInv, TypeOK', NEW q \in Peers, NEW p \in Peers, p = Other(q),
         SyncStart(p)
  PROVE  Direction(q)'
<1>0. TypeOK /\ q = Other(p) /\ p # q /\ LinkInv /\ StatsRead
  BY OtherPeer DEF TransportInv, Typed
<1>1. /\ PhaseInv(q) /\ DeliveredInv(q) /\ PipeInv(q) /\ ResendInv(q) /\ AgreementInv(q)
      /\ PhaseInv(p)
  BY DEF TransportInv, Direction
<1>3. /\ stats[q] # <<>> =>
           stats[q][1] \in Nat /\ stats[q][2] \in Nat /\ stats[q][3] \in Nat
      /\ stats[p] # <<>> =>
           stats[p][1] \in Nat /\ stats[p][2] \in Nat /\ stats[p][3] \in Nat
  BY <1>0, StatsFields
<1>4. /\ phase[p] = "opened" /\ phase'[p] = "stats" /\ phase'[q] = phase[q]
      /\ link = "up" /\ UNCHANGED <<link, pipe, resend, expected, written, delivered,
                                    backup>>
      /\ stats'[p] = <<backup[p].sent_cnt, backup[p].received_cnt,
           Len(backup[p].frames)>>
      /\ stats'[q] = stats[q]
  BY <1>0 DEF SyncStart, TypeOK
<1>5. pipe'[q] = <<>> /\ phase[q] \in {"opened", "stats"}
  BY <1>0, <1>1, <1>4 DEF PhaseInv, LinkInv
<1>6. stats'[p] # <<>> /\ stats'[p][2] = backup[p].received_cnt
  BY <1>4
<1>7. \A i \in 1 .. Len(delivered[p]) : delivered[p][i] <= backup[p].received_cnt
  BY DEF TransportInv, NeverUndercounts
<1>8. PhaseInv(q)'
  BY <1>0, <1>1, <1>4, <1>5 DEF PhaseInv
<1>9. DeliveredInv(q)'
  BY <1>0, <1>1, <1>4, <1>5, <1>6, <1>7 DEF DeliveredInv, Syncing
<1>10. PipeInv(q)'
  <2>1. Len(pipe'[q]) = 0 /\ 1 .. 0 = {}
    BY <1>5
  <2> QED
    BY <2>1 DEF PipeInv
<1>11. ResendInv(q)'
  BY <1>1, <1>4, <1>5 DEF ResendInv
<1>12. AgreementInv(q)'
  <2>1. Base(p)' = stats[q][1]
    BY <1>0, <1>4 DEF Base
  <2>2. phase[q] = "stats" => stats[q] # <<>>
    BY <1>1 DEF PhaseInv
  <2>3. phase[q] = "stats" => stats'[q][1] <= Base(p)'
    BY <1>3, <1>4, <2>1, <2>2
  <2> QED
    BY <1>0, <1>4, <1>5, <2>3 DEF AgreementInv
<1> QED
  BY <1>8, <1>9, <1>10, <1>11, <1>12 DEF Direction

(* The writer decides what it sends again. *)
LEMMA SyncStatsKeepsOut ==
  ASSUME TransportInv, TypeOK', NEW q \in Peers, NEW p \in Peers, p = Other(q),
         SyncStats(q), SuffixInv'
  PROVE  Direction(q)'
<1>0. TypeOK /\ q = Other(p) /\ p # q /\ LinkInv /\ StatsRead
  BY OtherPeer DEF TransportInv, Typed
<1>1. /\ PhaseInv(q) /\ DeliveredInv(q) /\ PipeInv(q) /\ ResendInv(q) /\ AgreementInv(q)
      /\ PhaseInv(p)
  BY DEF TransportInv, Direction
<1>2. /\ phase[q] \in {"up", "down"} \union Syncing
           /\ phase[p] \in {"up", "down"} \union Syncing
      /\ Len(pipe[q]) \in Nat /\ \A i \in 1 .. Len(pipe[q]) : pipe[q][i] \in Nat
      /\ Len(delivered[p]) \in Nat
      /\ \A i \in 1 .. Len(delivered[p]) : delivered[p][i] \in Nat
      /\ written[q] \in Nat /\ expected[p] \in Nat /\ Len(resend[q]) \in Nat
      /\ backup[p].received_cnt \in Nat /\ backup[q].received_cnt \in Nat
      /\ Len(backup[q].frames) \in Nat
  BY <1>0, DirectionTypes
<1>3. /\ stats[q] # <<>> =>
           stats[q][1] \in Nat /\ stats[q][2] \in Nat /\ stats[q][3] \in Nat
      /\ stats[p] # <<>> =>
           stats[p][1] \in Nat /\ stats[p][2] \in Nat /\ stats[p][3] \in Nat
  BY <1>0, StatsFields
<1>4. /\ phase[q] = "stats" /\ phase'[q] = "resend" /\ phase'[p] = phase[p]
      /\ stats[p] # <<>> /\ UNCHANGED <<link, pipe, stats, written, delivered>>
      /\ resend'[q] = backup'[q].frames /\ expected'[p] = expected[p]
      /\ backup'[p] = backup[p] /\ backup'[q].received_cnt = backup[q].received_cnt
      /\ Len(resend'[q]) = Min(Len(backup[q].frames), ResendCnt(q))
  <2>1. ResendCnt(q) \in Nat
    BY <1>0, CountsAreNatural DEF SyncStats
  <2>2. backup'[q] = TruncateFront(backup[q], ResendCnt(q))
          /\ resend'[q] = backup'[q].frames
    BY <1>0 DEF SyncStats, TypeOK
  <2>3. backup[q] \in BackupType /\ backup[q].frozen = FALSE
    BY <1>0 DEF TransportInv, Typed, NotFrozen, TypeOK
  <2>4. /\ backup'[q].received_cnt = backup[q].received_cnt
        /\ backup'[q].frames = Newest(backup[q].frames, ResendCnt(q))
    BY <2>1, <2>2, <2>3, TruncateFrontEffect
  <2>5. Len(backup'[q].frames) = Min(Len(backup[q].frames), ResendCnt(q))
    BY <2>1, <2>3, <2>4, NewestFrames DEF BackupType
  <2> QED
    BY <1>0, <2>2, <2>4, <2>5 DEF SyncStats, TypeOK
<1>5. /\ pipe'[q] = <<>> /\ Len(pipe'[q]) = 0
      /\ stats[q] # <<>> /\ stats[q][1] = written[q]
           /\ stats[q][2] = backup[q].received_cnt
      /\ stats[q][3] = Len(backup[q].frames)
      /\ phase[p] # "opened"
  BY <1>0, <1>1, <1>4 DEF PhaseInv
<1>6. ResendCnt(q) = Min(SaturatingSub(written[q], stats[p][2]), Len(backup[q].frames))
  BY <1>0 DEF ResendCnt, TransportInv, SuffixInv, Suffix
<1>a. /\ written[q] \in Nat /\ stats[p][2] \in Nat /\ Len(backup[q].frames) \in Nat
  BY <1>2, <1>3, <1>4
<1>b. /\ ResendCnt(q) \in Nat /\ ResendCnt(q) <= written[q]
      /\ Min(Len(backup[q].frames), ResendCnt(q)) = ResendCnt(q)
      /\ \A f \in Nat : f <= written[q] /\ f <= stats[p][2] =>
           f <= written[q] - ResendCnt(q)
  <2> DEFINE w == written[q]
             r == stats[p][2]
             k == Len(backup[q].frames)
             n == ResendCnt(q)
  <2>1. w \in Nat /\ r \in Nat /\ k \in Nat /\ n = Min(SaturatingSub(w, r), k)
    BY <1>6, <1>a
  <2> HIDE DEF w, r, k, n
  <2>2. /\ n \in Nat /\ n <= w /\ Min(k, n) = n
        /\ \A f \in Nat : f <= w /\ f <= r => f <= w - n
    BY <2>1, ResentNumber
  <2> QED
    BY <2>2 DEF w, r, k, n
<1>7. Len(resend'[q]) = ResendCnt(q)
  BY <1>4, <1>b
<1>8. Len(resend'[q]) \in Nat /\ Len(resend'[q]) <= written[q]
  BY <1>7, <1>b
<1>9. PhaseInv(q)'
  BY <1>0, <1>4, <1>5 DEF PhaseInv
<1>10. DeliveredInv(q)'
  <2> SUFFICES ASSUME NEW i \in 1 .. Len(delivered[p])
               PROVE  /\ delivered[p][i] \in 1 .. written[q]
                      /\ phase[p] \in Syncing => delivered[p][i] <= stats[q][1]
                      /\ link = "up" => delivered[p][i] <= written[q] - Len(resend'[q])
    BY <1>0, <1>4 DEF DeliveredInv
  <2>1. /\ delivered[p][i] \in 1 .. written[q]
        /\ phase[p] \in Syncing => delivered[p][i] <= stats[q][1]
        /\ link = "up" => delivered[p][i] <= stats[p][2]
    BY <1>0, <1>1, <1>4, <1>5 DEF DeliveredInv
  <2>2. delivered[p][i] \in Nat /\ delivered[p][i] <= written[q]
    BY <1>2, <2>1
  <2>3. link = "up" => delivered[p][i] <= written[q] - Len(resend'[q])
    BY <1>7, <1>b, <2>1, <2>2
  <2> QED
    BY <2>1, <2>3
<1>11. PipeInv(q)'
  <2>1. Len(pipe'[q]) = 0 /\ 1 .. 0 = {}
    BY <1>5
  <2> QED
    BY <2>1 DEF PipeInv
<1>12. ResendInv(q)'
  <2>1. \A i \in 1 .. Len(backup'[q].frames) :
          backup'[q].frames[i] = written'[q] - Len(backup'[q].frames) + i
    BY DEF SuffixInv, Suffix
  <2> QED
    BY <1>4, <1>8, <2>1 DEF ResendInv
<1>13. AgreementInv(q)'
  <2>1. Base(p)' = Base(p) /\ StillExpected(p)' = StillExpected(p)
    BY <1>0, <1>4 DEF Base, StillExpected, ExpectedCnt
  <2>2. link = "up" => stats[q][1] <= Base(p)
    BY <1>0, <1>1, <1>4 DEF AgreementInv
  <2>3. link = "up" => StillExpected(p) <= Len(resend'[q])
    <3>1. CASE phase[p] = "up"
      BY <1>8, <3>1 DEF StillExpected
    <3>2. CASE link = "up" /\ phase[p] \in {"resend", "recv"}
      <4>1. expected[p] = Min(SaturatingSub(stats[q][1], stats[p][2]), stats[q][3])
        BY <1>0, <1>1, <1>4, <3>2 DEF AgreementInv
      <4>2. StillExpected(p) = Len(resend'[q])
        BY <1>5, <1>6, <1>7, <3>2, <4>1 DEF StillExpected
      <4> QED
        BY <1>8, <4>2
    <3>3. CASE phase[p] = "stats"
      <4>1. stats[p][2] = backup[p].received_cnt
        BY <1>1, <3>3 DEF PhaseInv
      <4>2. StillExpected(p) = Len(resend'[q])
        BY <1>0, <1>5, <1>6, <1>7, <3>3, <4>1 DEF StillExpected, ExpectedCnt
      <4> QED
        BY <1>8, <4>2
    <3> QED
      BY <1>0, <1>2, <1>5, <3>1, <3>2, <3>3 DEF LinkInv, Syncing
  <2>4. Len(pipe'[q]) + Len(resend'[q]) = Len(resend'[q])
    BY <1>5, <1>8
  <2> QED
    BY <1>0, <1>4, <2>1, <2>2, <2>3, <2>4 DEF AgreementInv
<1> QED
  BY <1>9, <1>10, <1>11, <1>12, <1>13 DEF Direction

(* The reader decides what it waits for. *)
LEMMA SyncStatsKeepsIn ==
  ASSUME TransportInv, TypeOK', NEW q \in Peers, NEW p \in Peers, p = Other(q),
         SyncStats(p)
  PROVE  Direction(q)'
<1>0. TypeOK /\ q = Other(p) /\ p # q /\ LinkInv /\ StatsRead
  BY OtherPeer DEF TransportInv, Typed
<1>1. /\ PhaseInv(q) /\ DeliveredInv(q) /\ PipeInv(q) /\ ResendInv(q) /\ AgreementInv(q)
      /\ PhaseInv(p)
  BY DEF TransportInv, Direction
<1>4. /\ phase[p] = "stats" /\ phase'[p] = "resend" /\ phase'[q] = phase[q]
      /\ stats[q] # <<>> /\ UNCHANGED <<link, pipe, stats, written, delivered>>
      /\ resend'[q] = resend[q] /\ expected'[p] = ExpectedCnt(p)
      /\ backup'[q] = backup[q] /\ backup'[p].received_cnt = backup[p].received_cnt
  <2>1. ResendCnt(p) \in Nat
    BY <1>0, CountsAreNatural DEF SyncStats
  <2>2. backup'[p] = TruncateFront(backup[p], ResendCnt(p))
          /\ resend'[p] = backup'[p].frames
    BY <1>0 DEF SyncStats, TypeOK
  <2>3. backup[p] \in BackupType /\ backup[p].frozen = FALSE
    BY <1>0 DEF TransportInv, Typed, NotFrozen, TypeOK
  <2>4. backup'[p].received_cnt = backup[p].received_cnt
    <3>1. \A b \in BackupType, k \in Nat :
            b.frozen = FALSE => TruncateFront(b, k).received_cnt = b.received_cnt
      BY TruncateFrontEffect
    <3> QED
      BY <2>1, <2>2, <2>3, <3>1
  <2> QED
    BY <1>0, <2>2, <2>4 DEF SyncStats, TypeOK
<1>5. Base(p)' = Base(p) /\ StillExpected(p)' = StillExpected(p)
  BY <1>0, <1>4 DEF Base, StillExpected, ExpectedCnt
<1>6. stats[p][2] = backup[p].received_cnt
  BY <1>1, <1>4 DEF PhaseInv
<1>7. PhaseInv(q)'
  <2>1. phase[q] # "opened"
    BY <1>1, <1>4 DEF PhaseInv
  <2> QED
    BY <1>0, <1>1, <1>4, <2>1 DEF PhaseInv, Syncing
<1>8. DeliveredInv(q)'
  BY <1>0, <1>1, <1>4 DEF DeliveredInv, Syncing
<1>9. PipeInv(q)'
  BY <1>1, <1>4, <1>5 DEF PipeInv
<1>10. ResendInv(q)'
  BY <1>1, <1>4 DEF ResendInv
<1>11. AgreementInv(q)'
  BY <1>0, <1>1, <1>4, <1>5, <1>6 DEF AgreementInv, ExpectedCnt
<1> QED
  BY <1>7, <1>8, <1>9, <1>10, <1>11 DEF Direction

(* The writer sends a frame again, and the link takes it. *)
LEMMA SyncResendKeepsUp ==
  ASSUME TransportInv, TypeOK', NEW q \in Peers, NEW p \in Peers, p = Other(q),
         SyncResend(q), link = "up"
  PROVE  Direction(q)'
<1>0. TypeOK /\ q = Other(p) /\ p # q /\ LinkInv /\ StatsRead
  BY OtherPeer DEF TransportInv, Typed
<1>1. /\ PhaseInv(q) /\ DeliveredInv(q) /\ PipeInv(q) /\ ResendInv(q) /\ AgreementInv(q)
      /\ PhaseInv(p)
  BY DEF TransportInv, Direction
<1>2. /\ phase[q] \in {"up", "down"} \union Syncing
           /\ phase[p] \in {"up", "down"} \union Syncing
      /\ Len(pipe[q]) \in Nat /\ \A i \in 1 .. Len(pipe[q]) : pipe[q][i] \in Nat
      /\ Len(delivered[p]) \in Nat
      /\ \A i \in 1 .. Len(delivered[p]) : delivered[p][i] \in Nat
      /\ written[q] \in Nat /\ expected[p] \in Nat /\ Len(resend[q]) \in Nat
      /\ backup[p].received_cnt \in Nat /\ backup[q].received_cnt \in Nat
      /\ Len(backup[q].frames) \in Nat
  BY <1>0, DirectionTypes
<1>4. /\ phase[q] = "resend" /\ resend[q] # <<>>
      /\ UNCHANGED <<phase, link, stats, expected, written, delivered, backup>>
      /\ pipe'[q] = Append(pipe[q], Head(resend[q]))
      /\ resend'[q] = Tail(resend[q])
  BY <1>0 DEF SyncResend, TypeOK
<1>5. Base(p)' = Base(p) /\ StillExpected(p)' = StillExpected(p)
  BY <1>0, <1>4 DEF Base, StillExpected, ExpectedCnt
<1>6. /\ Len(resend[q]) >= 1 /\ Len(resend[q]) <= written[q]
      /\ Head(resend[q]) = written[q] - Len(resend[q]) + 1
      /\ Len(resend'[q]) = Len(resend[q]) - 1
      /\ \A i \in 1 .. Len(resend'[q]) :
           resend'[q][i] = written[q] - Len(resend[q]) + (i + 1)
  <2>1. resend[q] \in Seq(Nat) /\ resend[q] # <<>>
    BY <1>0, <1>4 DEF TypeOK
  <2>2. Len(resend[q]) >= 1
    BY <1>2, <2>1, EmptySeq
  <2>3. /\ Len(resend'[q]) = Len(resend[q]) - 1 /\ Head(resend[q]) = resend[q][1]
        /\ \A i \in 1 .. Len(resend'[q]) : resend'[q][i] = resend[q][i + 1]
    BY <1>4, <2>1, HeadTailProperties
  <2>4. /\ Len(resend[q]) <= written[q]
        /\ \A i \in 1 .. Len(resend[q]) : resend[q][i] = written[q] - Len(resend[q]) + i
    BY <1>1, <1>4 DEF ResendInv
  <2>5. /\ 1 \in 1 .. Len(resend[q])
        /\ \A i \in 1 .. Len(resend[q]) - 1 : i + 1 \in 1 .. Len(resend[q])
    BY <1>2, <2>2
  <2> QED
    BY <2>2, <2>3, <2>4, <2>5
<1> DEFINE first == written[q] - Len(resend[q]) + 1
<1>7. first \in 1 .. written[q] /\ first \in Nat
  BY <1>2, <1>6
<1>8. /\ Len(pipe'[q]) = Len(pipe[q]) + 1 /\ pipe'[q][Len(pipe[q]) + 1] = first
      /\ \A i \in 1 .. Len(pipe[q]) : pipe'[q][i] = pipe[q][i]
  <2>1. pipe[q] \in Seq(Nat)
    BY <1>0 DEF TypeOK
  <2>2. pipe'[q] = Append(pipe[q], first)
    BY <1>4, <1>6
  <2> HIDE DEF first
  <2> QED
    BY <1>2, <1>7, <2>1, <2>2, AppendProperties
<1>9. /\ Base(p) \in Nat /\ StillExpected(p) \in Nat /\ written[q] <= Base(p)
      /\ StillExpected(p) <= Len(pipe[q]) + Len(resend[q])
      /\ stats[q][1] <= Base(p) /\ phase[p] # "down"
  <2>1. stats[q] # <<>> /\ stats[q][1] = written[q]
    BY <1>1, <1>4 DEF PhaseInv
  <2>2. Base(p) \in Nat /\ StillExpected(p) \in Nat
    BY <1>0, <2>1, BaseTypes
  <2>3. stats[q][1] <= Base(p) /\ StillExpected(p) <= Len(pipe[q]) + Len(resend[q])
    BY <1>0, <1>1, <1>4 DEF AgreementInv
  <2> QED
    BY <1>0, <2>1, <2>2, <2>3 DEF LinkInv
<1>10. \A i \in 1 .. Len(pipe'[q]) : i \in 1 .. Len(pipe[q]) \/ i = Len(pipe[q]) + 1
  BY <1>2, <1>8
<1>11. /\ first - 1 = written[q] - Len(resend[q])
       /\ written'[q] - Len(resend'[q]) = first
       /\ \A f \in Nat : f <= written[q] - Len(resend[q]) =>
            f < first /\ f <= first /\ f # first
  <2> DEFINE w == written[q]
             n == Len(resend[q])
  <2>1. /\ w \in Nat /\ n \in Nat /\ first = w - n + 1
        /\ written'[q] = w /\ Len(resend'[q]) = n - 1
    BY <1>2, <1>4, <1>6
  <2> HIDE DEF w, n, first
  <2>2. /\ first - 1 = w - n /\ w - (n - 1) = first
        /\ \A f \in Nat : f <= w - n => f < first /\ f <= first /\ f # first
    BY <2>1
  <2>3. written'[q] - Len(resend'[q]) = w - (n - 1)
    BY <2>1
  <2> QED
    BY <2>2, <2>3 DEF w, n
<1>12. PhaseInv(q)'
  BY <1>1, <1>4 DEF PhaseInv, Syncing
<1>13. DeliveredInv(q)'
  <2>1. \A i \in 1 .. Len(delivered[p]) :
          /\ delivered[p][i] \in Nat
          /\ delivered[p][i] \in 1 .. written[q]
          /\ phase[p] \in Syncing /\ stats[q] # <<>> => delivered[p][i] <= stats[q][1]
          /\ delivered[p][i] <= written[q] - Len(resend[q])
    BY <1>1, <1>2, <1>4 DEF DeliveredInv
  <2>2. \A i \in 1 .. Len(delivered[p]) :
          delivered[p][i] <= written'[q] - Len(resend'[q])
    BY <1>11, <2>1
  <2> QED
    BY <1>4, <2>1, <2>2 DEF DeliveredInv
<1>14. PipeInv(q)'
  <2> SUFFICES ASSUME phase'[p] # "down", NEW i \in 1 .. Len(pipe'[q])
               PROVE  /\ pipe'[q][i] \in 1 .. written'[q]
                      /\ \A j \in 1 .. Len(pipe'[q]) : i # j =>
                           pipe'[q][j] # pipe'[q][i]
                      /\ \A j \in 1 .. Len(delivered'[p]) :
                           delivered'[p][j] # pipe'[q][i]
                      /\ pipe'[q][i] <= Base(p)' + SaturatingSub(i, StillExpected(p)')
                      /\ link' = "up" /\ phase'[q] = "resend" =>
                           pipe'[q][i] <= written'[q] - Len(resend'[q])
    BY DEF PipeInv
  <2>1. \A n \in 1 .. Len(pipe[q]) :
          /\ pipe[q][n] \in 1 .. written[q]
          /\ \A j \in 1 .. Len(pipe[q]) : n # j => pipe[q][j] # pipe[q][n]
          /\ \A j \in 1 .. Len(delivered[p]) : delivered[p][j] # pipe[q][n]
          /\ pipe[q][n] <= Base(p) + SaturatingSub(n, StillExpected(p))
          /\ link = "up" /\ phase[q] = "resend" =>
               pipe[q][n] <= written[q] - Len(resend[q])
    BY <1>1, <1>9 DEF PipeInv
  <2>2. \A n \in 1 .. Len(pipe[q]) : pipe[q][n] \in Nat /\ pipe[q][n] <= first
          /\ pipe[q][n] # first
    BY <1>2, <1>4, <1>11, <2>1
  <2>3. \A j \in 1 .. Len(delivered[p]) : delivered[p][j] # first
    <3>1. \A j \in 1 .. Len(delivered[p]) :
            delivered[p][j] \in Nat /\ delivered[p][j] <= written[q] - Len(resend[q])
      BY <1>1, <1>2, <1>4 DEF DeliveredInv
    <3> QED
      BY <1>11, <3>1
  <2> HIDE DEF first
  <2>4. CASE i \in 1 .. Len(pipe[q])
    <3>1. pipe'[q][i] = pipe[q][i]
      BY <1>8, <2>4
    <3>2. \A j \in 1 .. Len(pipe'[q]) : i # j => pipe'[q][j] # pipe'[q][i]
      BY <1>8, <1>10, <2>1, <2>2, <2>4
    <3>3. /\ pipe'[q][i] \in 1 .. written'[q]
          /\ \A j \in 1 .. Len(delivered'[p]) : delivered'[p][j] # pipe'[q][i]
          /\ pipe'[q][i] <= Base(p)' + SaturatingSub(i, StillExpected(p)')
      BY <1>4, <1>5, <2>1, <2>4, <3>1
    <3>4. pipe'[q][i] <= written'[q] - Len(resend'[q])
      BY <1>11, <2>2, <2>4, <3>1
    <3> QED
      BY <3>2, <3>3, <3>4
  <2>5. CASE i = Len(pipe[q]) + 1
    <3>1. pipe'[q][i] = first
      BY <1>8, <2>5
    <3>2. \A j \in 1 .. Len(pipe'[q]) : i # j => pipe'[q][j] # pipe'[q][i]
      BY <1>8, <1>10, <2>2, <2>5, <3>1
    <3>3. /\ pipe'[q][i] \in 1 .. written'[q]
          /\ \A j \in 1 .. Len(delivered'[p]) : delivered'[p][j] # pipe'[q][i]
      BY <1>4, <1>7, <2>3, <3>1
    <3>4. pipe'[q][i] <= Base(p)' + SaturatingSub(i, StillExpected(p)')
      <4>1. first <= written[q] /\ i \in Nat
        BY <1>2, <1>7, <2>5
      <4>2. SaturatingSub(i, StillExpected(p)) \in Nat
        BY <1>9, <4>1, SaturatingSubIsNatural
      <4>3. \A f, w, b, e \in Nat : f <= w /\ w <= b => f <= b + e
        OBVIOUS
      <4>4. first <= Base(p) + SaturatingSub(i, StillExpected(p))
        BY <1>2, <1>7, <1>9, <4>1, <4>2, <4>3
      <4> QED
        BY <1>5, <3>1, <4>4
    <3>5. first <= first
      BY <1>7
    <3> QED
      BY <1>11, <3>1, <3>2, <3>3, <3>4, <3>5
  <2> QED
    BY <1>10, <2>4, <2>5
<1>15. ResendInv(q)'
  <2>1. Len(resend'[q]) <= written'[q]
    BY <1>2, <1>4, <1>6
  <2>2. \A i \in 1 .. Len(resend'[q]) :
          resend'[q][i] = written'[q] - Len(resend'[q]) + i
    <3> SUFFICES ASSUME NEW i \in 1 .. Len(resend'[q])
                 PROVE  written[q] - Len(resend[q]) + (i + 1) =
                          written[q] - (Len(resend[q]) - 1) + i
      BY <1>4, <1>6
    <3>1. \A w, n \in Nat, m \in Int : w - n + (m + 1) = w - (n - 1) + m
      OBVIOUS
    <3>2. i \in Int
      OBVIOUS
    <3>3. written[q] \in Nat /\ Len(resend[q]) \in Nat
      BY <1>2
    <3> QED
      BY <3>1, <3>2, <3>3, Zenon
  <2>3. phase'[q] = "resend"
    BY <1>4
  <2> QED
    BY <2>1, <2>2, <2>3 DEF ResendInv
<1>16. AgreementInv(q)'
  <2>1. Len(pipe'[q]) + Len(resend'[q]) = Len(pipe[q]) + Len(resend[q])
    <3>1. \A m, n \in Nat : (m + 1) + (n - 1) = m + n
      OBVIOUS
    <3>2. Len(pipe[q]) \in Nat /\ Len(resend[q]) \in Nat
      BY <1>2
    <3>3. Len(pipe'[q]) = Len(pipe[q]) + 1 /\ Len(resend'[q]) = Len(resend[q]) - 1
      BY <1>6, <1>8
    <3> QED
      BY <3>1, <3>2, <3>3, Zenon
  <2>2. stats'[q][1] <= Base(p)' /\ StillExpected(p)' <= Len(pipe'[q]) + Len(resend'[q])
    BY <1>4, <1>5, <1>9, <2>1
  <2>3. phase'[q] = "resend"
    BY <1>4
  <2> QED
    BY <1>0, <2>2, <2>3 DEF AgreementInv
<1> QED
  BY <1>12, <1>13, <1>14, <1>15, <1>16 DEF Direction

(* The writer sends a frame again on a link that is broken. *)
LEMMA SyncResendKeepsBroken ==
  ASSUME TransportInv, TypeOK', NEW q \in Peers, NEW p \in Peers, p = Other(q),
         SyncResend(q), link = "broken"
  PROVE  Direction(q)'
<1>0. TypeOK /\ q = Other(p) /\ p # q /\ LinkInv /\ StatsRead
  BY OtherPeer DEF TransportInv, Typed
<1>1. /\ PhaseInv(q) /\ DeliveredInv(q) /\ PipeInv(q) /\ ResendInv(q) /\ AgreementInv(q)
      /\ PhaseInv(p)
  BY DEF TransportInv, Direction
<1>2. /\ phase[q] \in {"up", "down"} \union Syncing
           /\ phase[p] \in {"up", "down"} \union Syncing
      /\ Len(pipe[q]) \in Nat /\ \A i \in 1 .. Len(pipe[q]) : pipe[q][i] \in Nat
      /\ Len(delivered[p]) \in Nat
      /\ \A i \in 1 .. Len(delivered[p]) : delivered[p][i] \in Nat
      /\ written[q] \in Nat /\ expected[p] \in Nat /\ Len(resend[q]) \in Nat
      /\ backup[p].received_cnt \in Nat /\ backup[q].received_cnt \in Nat
      /\ Len(backup[q].frames) \in Nat
  BY <1>0, DirectionTypes
<1>4. /\ phase[q] = "resend" /\ resend[q] # <<>>
      /\ UNCHANGED <<phase, link, stats, expected, written, delivered, backup, pipe>>
      /\ resend'[q] = Tail(resend[q])
  BY <1>0 DEF SyncResend, TypeOK
<1>5. Base(p)' = Base(p) /\ StillExpected(p)' = StillExpected(p)
  BY <1>0, <1>4 DEF Base, StillExpected, ExpectedCnt
<1>6. /\ Len(resend[q]) >= 1 /\ Len(resend[q]) <= written[q]
      /\ Len(resend'[q]) = Len(resend[q]) - 1
      /\ \A i \in 1 .. Len(resend'[q]) :
           resend'[q][i] = written[q] - Len(resend[q]) + (i + 1)
  <2>1. resend[q] \in Seq(Nat) /\ resend[q] # <<>>
    BY <1>0, <1>4 DEF TypeOK
  <2>2. Len(resend[q]) >= 1
    BY <1>2, <2>1, EmptySeq
  <2>3. /\ Len(resend'[q]) = Len(resend[q]) - 1
        /\ \A i \in 1 .. Len(resend'[q]) : resend'[q][i] = resend[q][i + 1]
    BY <1>4, <2>1, HeadTailProperties
  <2>4. /\ Len(resend[q]) <= written[q]
        /\ \A i \in 1 .. Len(resend[q]) : resend[q][i] = written[q] - Len(resend[q]) + i
    BY <1>1, <1>4 DEF ResendInv
  <2>5. \A i \in 1 .. Len(resend[q]) - 1 : i + 1 \in 1 .. Len(resend[q])
    BY <1>2, <2>2
  <2> QED
    BY <2>2, <2>3, <2>4, <2>5
<1>7. PhaseInv(q)'
  BY <1>1, <1>4 DEF PhaseInv, Syncing
<1>8. DeliveredInv(q)'
  BY <1>1, <1>4 DEF DeliveredInv
<1>9. PipeInv(q)'
  BY <1>1, <1>4, <1>5 DEF PipeInv
<1>10. ResendInv(q)'
  <2>1. Len(resend'[q]) <= written'[q]
    BY <1>2, <1>4, <1>6
  <2>2. \A i \in 1 .. Len(resend'[q]) :
          resend'[q][i] = written'[q] - Len(resend'[q]) + i
    <3> SUFFICES ASSUME NEW i \in 1 .. Len(resend'[q])
                 PROVE  written[q] - Len(resend[q]) + (i + 1) =
                          written[q] - (Len(resend[q]) - 1) + i
      BY <1>4, <1>6
    <3>1. \A w, n \in Nat, m \in Int : w - n + (m + 1) = w - (n - 1) + m
      OBVIOUS
    <3>2. i \in Int
      OBVIOUS
    <3>3. written[q] \in Nat /\ Len(resend[q]) \in Nat
      BY <1>2
    <3> QED
      BY <3>1, <3>2, <3>3, Zenon
  <2>3. phase'[q] = "resend"
    BY <1>4
  <2> QED
    BY <2>1, <2>2, <2>3 DEF ResendInv
<1>11. AgreementInv(q)'
  BY <1>4 DEF AgreementInv
<1> QED
  BY <1>7, <1>8, <1>9, <1>10, <1>11 DEF Direction

(* The writer has sent everything again. *)
LEMMA SyncResentKeepsOut ==
  ASSUME TransportInv, TypeOK', NEW q \in Peers, NEW p \in Peers, p = Other(q),
         SyncResent(q)
  PROVE  Direction(q)'
<1>0. TypeOK /\ q = Other(p) /\ p # q /\ LinkInv /\ StatsRead
  BY OtherPeer DEF TransportInv, Typed
<1>1. /\ PhaseInv(q) /\ DeliveredInv(q) /\ PipeInv(q) /\ ResendInv(q) /\ AgreementInv(q)
      /\ PhaseInv(p)
  BY DEF TransportInv, Direction
<1>4. /\ phase[q] = "resend" /\ phase'[q] = "recv" /\ phase'[p] = phase[p]
      /\ resend[q] = <<>>
      /\ UNCHANGED <<link, stats, expected, resend, written, delivered, backup, pipe>>
  BY <1>0 DEF SyncResent, syncVars, TypeOK
<1>5. Base(p)' = Base(p) /\ StillExpected(p)' = StillExpected(p)
  BY <1>0, <1>4 DEF Base, StillExpected, ExpectedCnt
<1>6. PhaseInv(q)'
  BY <1>0, <1>1, <1>4 DEF PhaseInv
<1>7. DeliveredInv(q)'
  BY <1>0, <1>1, <1>4 DEF DeliveredInv
<1>8. PipeInv(q)'
  BY <1>0, <1>1, <1>4, <1>5 DEF PipeInv
<1>9. ResendInv(q)'
  BY <1>4 DEF ResendInv
<1>10. AgreementInv(q)'
  BY <1>0, <1>1, <1>4, <1>5 DEF AgreementInv
<1> QED
  BY <1>6, <1>7, <1>8, <1>9, <1>10 DEF Direction

(* The reader has sent everything again, and waits. *)
LEMMA SyncResentKeepsIn ==
  ASSUME TransportInv, TypeOK', NEW q \in Peers, NEW p \in Peers, p = Other(q),
         SyncResent(p)
  PROVE  Direction(q)'
<1>0. TypeOK /\ q = Other(p) /\ p # q /\ LinkInv /\ StatsRead
  BY OtherPeer DEF TransportInv, Typed
<1>1. /\ PhaseInv(q) /\ DeliveredInv(q) /\ PipeInv(q) /\ ResendInv(q) /\ AgreementInv(q)
      /\ PhaseInv(p)
  BY DEF TransportInv, Direction
<1>4. /\ phase[p] = "resend" /\ phase'[p] = "recv" /\ phase'[q] = phase[q]
      /\ UNCHANGED <<link, stats, expected, resend, written, delivered, backup, pipe>>
  BY <1>0 DEF SyncResent, syncVars, TypeOK
<1>5. Base(p)' = Base(p) /\ StillExpected(p)' = StillExpected(p)
  BY <1>0, <1>4 DEF Base, StillExpected
<1>6. PhaseInv(q)'
  BY <1>0, <1>1, <1>4 DEF PhaseInv, Syncing
<1>7. DeliveredInv(q)'
  BY <1>0, <1>1, <1>4 DEF DeliveredInv, Syncing
<1>8. PipeInv(q)'
  BY <1>0, <1>1, <1>4, <1>5 DEF PipeInv
<1>9. ResendInv(q)'
  BY <1>1, <1>4 DEF ResendInv
<1>10. AgreementInv(q)'
  BY <1>0, <1>1, <1>4, <1>5 DEF AgreementInv
<1> QED
  BY <1>6, <1>7, <1>8, <1>9, <1>10 DEF Direction

(* What is left to the bound on a frame's number when a frame is read and put
   behind the k-th one. *)
LEMMA RotatedBound ==
  ASSUME NEW i \in Nat, NEW e \in Nat, i >= 1, e >= 1
  PROVE  /\ SaturatingSub(i + 1, e) = SaturatingSub(i, e - 1)
         /\ SaturatingSub(1, e) = 0
         /\ SaturatingSub(i, e) <= SaturatingSub(i, e - 1)
         /\ SaturatingSub(i, e) \in Nat /\ SaturatingSub(i, e - 1) \in Nat
BY DEF SaturatingSub

(* The reader reads a frame that was sent again, and queues it. *)
LEMMA SyncReadKeeps ==
  ASSUME TransportInv, TypeOK', NEW q \in Peers, NEW p \in Peers, p = Other(q),
         SyncRead(p)
  PROVE  Direction(q)'
<1>0. TypeOK /\ q = Other(p) /\ p # q /\ LinkInv /\ StatsRead
  BY OtherPeer DEF TransportInv, Typed
<1>1. /\ PhaseInv(q) /\ DeliveredInv(q) /\ PipeInv(q) /\ ResendInv(q) /\ AgreementInv(q)
      /\ PhaseInv(p)
  BY DEF TransportInv, Direction
<1>2. /\ phase[q] \in {"up", "down"} \union Syncing
           /\ phase[p] \in {"up", "down"} \union Syncing
      /\ Len(pipe[q]) \in Nat /\ \A i \in 1 .. Len(pipe[q]) : pipe[q][i] \in Nat
      /\ Len(delivered[p]) \in Nat
      /\ \A i \in 1 .. Len(delivered[p]) : delivered[p][i] \in Nat
      /\ written[q] \in Nat /\ expected[p] \in Nat /\ Len(resend[q]) \in Nat
      /\ backup[p].received_cnt \in Nat /\ backup[q].received_cnt \in Nat
      /\ Len(backup[q].frames) \in Nat
  BY <1>0, DirectionTypes
<1>4. /\ phase[p] = "recv" /\ expected[p] > 0 /\ expected'[p] = expected[p] - 1
      /\ UNCHANGED <<phase, link, stats, resend, written, delivered, backup>>
  BY <1>0 DEF SyncRead, TypeOK
<1>5. PICK k \in Buffered(q) : pipe'[q] = Rotated(pipe[q], k)
  BY <1>0 DEF SyncRead, TypeOK
<1>6. k \in 1 .. Len(pipe[q]) /\ pipe[q] # <<>>
  BY <1>0, BufferedFrames
<1>7. /\ Len(pipe'[q]) = Len(pipe[q])
      /\ \A i \in 1 .. Len(pipe[q]) :
           pipe'[q][i] = IF i < k THEN pipe[q][i + 1]
                         ELSE IF i = k THEN pipe[q][1] ELSE pipe[q][i]
  <2>1. pipe[q] \in Seq(Nat)
    BY <1>0 DEF TypeOK
  <2> DEFINE s == pipe[q]
             t == pipe'[q]
  <2>2. s \in Seq(Nat) /\ k \in 1 .. Len(s) /\ t = Rotated(s, k)
    BY <1>5, <1>6, <2>1
  <2> HIDE DEF s, t
  <2>3. /\ Len(Rotated(s, k)) = Len(s)
        /\ \A i \in 1 .. Len(s) :
             Rotated(s, k)[i] = IF i < k THEN s[i + 1]
                                ELSE IF i = k THEN s[1] ELSE s[i]
    BY <2>2, RotatedFrames
  <2>4. /\ Len(t) = Len(s)
        /\ \A i \in 1 .. Len(s) :
             t[i] = IF i < k THEN s[i + 1] ELSE IF i = k THEN s[1] ELSE s[i]
    BY <2>2, <2>3
  <2> QED
    BY <2>4 DEF s, t
<1>8. /\ Base(p)' = Base(p) /\ Base(p) \in Nat
      /\ StillExpected(p)' = StillExpected(p) - 1
      /\ StillExpected(p) = expected[p] /\ StillExpected(p) >= 1
           /\ StillExpected(p) \in Nat
  <2>1. stats[q] # <<>>
    BY <1>0, <1>4 DEF StatsRead
  <2>2. Base(p) \in Nat
    BY <1>0, <2>1, BaseTypes
  <2>3. Base(p)' = Base(p) /\ StillExpected(p) = expected[p]
          /\ StillExpected(p)' = expected'[p]
    BY <1>0, <1>4 DEF Base, StillExpected
  <2> QED
    BY <1>2, <1>4, <2>2, <2>3
<1>9. phase[q] \notin {"opened", "stats"} /\ phase[p] # "down"
  BY <1>1, <1>4, <1>6 DEF PhaseInv
<1>10. PhaseInv(q)'
  BY <1>1, <1>4, <1>9 DEF PhaseInv
<1>11. DeliveredInv(q)'
  BY <1>1, <1>4 DEF DeliveredInv
<1>12. PipeInv(q)'
  <2> SUFFICES ASSUME phase'[p] # "down", NEW i \in 1 .. Len(pipe'[q])
               PROVE  /\ pipe'[q][i] \in 1 .. written'[q]
                      /\ \A j \in 1 .. Len(pipe'[q]) : i # j =>
                           pipe'[q][j] # pipe'[q][i]
                      /\ \A j \in 1 .. Len(delivered'[p]) :
                           delivered'[p][j] # pipe'[q][i]
                      /\ pipe'[q][i] <= Base(p)' + SaturatingSub(i, StillExpected(p)')
                      /\ link' = "up" /\ phase'[q] = "resend" =>
                           pipe'[q][i] <= written'[q] - Len(resend'[q])
    BY DEF PipeInv
  <2>1. \A n \in 1 .. Len(pipe[q]) :
          /\ pipe[q][n] \in 1 .. written[q]
          /\ \A j \in 1 .. Len(pipe[q]) : n # j => pipe[q][j] # pipe[q][n]
          /\ \A j \in 1 .. Len(delivered[p]) : delivered[p][j] # pipe[q][n]
          /\ pipe[q][n] <= Base(p) + SaturatingSub(n, StillExpected(p))
          /\ link = "up" /\ phase[q] = "resend" =>
               pipe[q][n] <= written[q] - Len(resend[q])
    BY <1>1, <1>9 DEF PipeInv
  <2> DEFINE from(n) == IF n < k THEN n + 1 ELSE IF n = k THEN 1 ELSE n
  <2>2. \A n \in 1 .. Len(pipe[q]) :
          from(n) \in 1 .. Len(pipe[q]) /\ pipe'[q][n] = pipe[q][from(n)]
    <3>1. \A n \in 1 .. Len(pipe[q]) : from(n) \in 1 .. Len(pipe[q])
      BY <1>2, <1>6
    <3> QED
      BY <1>7, <3>1
  <2>3. \A n, j \in 1 .. Len(pipe[q]) : n # j => from(n) # from(j)
    BY <1>2, <1>6
  <2>4. i \in 1 .. Len(pipe[q])
    BY <1>7
  <2>5. SaturatingSub(from(i), StillExpected(p)) <= SaturatingSub(i,
          StillExpected(p) - 1)
    <3>1. /\ SaturatingSub(i + 1, StillExpected(p)) = SaturatingSub(i,
               StillExpected(p) - 1)
          /\ SaturatingSub(1, StillExpected(p)) = 0
          /\ SaturatingSub(i, StillExpected(p)) <= SaturatingSub(i,
               StillExpected(p) - 1)
          /\ SaturatingSub(i, StillExpected(p) - 1) \in Nat
      <4>1. i \in Nat /\ i >= 1
        BY <1>2, <2>4
      <4> QED
        BY <1>8, <4>1, RotatedBound
    <3>2. \A n \in Nat : n <= n /\ 0 <= n
      OBVIOUS
    <3> QED
      BY <3>1, <3>2
  <2>6. SaturatingSub(from(i), StillExpected(p)) \in Nat
          /\ SaturatingSub(i, StillExpected(p) - 1) \in Nat
    <3>1. from(i) \in Nat /\ i \in Nat /\ StillExpected(p) - 1 \in Nat
      BY <1>2, <1>6, <1>8, <2>2, <2>4
    <3> QED
      BY <1>8, <3>1, SaturatingSubIsNatural
  <2> HIDE DEF from
  <2>7. /\ pipe'[q][i] \in 1 .. written'[q]
        /\ \A j \in 1 .. Len(delivered'[p]) : delivered'[p][j] # pipe'[q][i]
        /\ link' = "up" /\ phase'[q] = "resend" =>
             pipe'[q][i] <= written'[q] - Len(resend'[q])
    BY <1>4, <2>1, <2>2, <2>4
  <2>8. \A j \in 1 .. Len(pipe'[q]) : i # j => pipe'[q][j] # pipe'[q][i]
    BY <1>7, <2>1, <2>2, <2>3, <2>4
  <2>9. pipe'[q][i] <= Base(p)' + SaturatingSub(i, StillExpected(p)')
    <3>1. \A f, b, c, d \in Nat : f <= b + c /\ c <= d => f <= b + d
      OBVIOUS
    <3>2. pipe[q][from(i)] \in Nat
      BY <1>2, <2>2, <2>4
    <3>3. pipe[q][from(i)] <= Base(p) + SaturatingSub(from(i), StillExpected(p))
      BY <2>1, <2>2, <2>4
    <3>4. pipe[q][from(i)] <= Base(p) + SaturatingSub(i, StillExpected(p) - 1)
      BY <1>8, <2>5, <2>6, <3>1, <3>2, <3>3
    <3> QED
      BY <1>8, <2>2, <2>4, <3>4
  <2> QED
    BY <2>7, <2>8, <2>9
<1>13. ResendInv(q)'
  BY <1>1, <1>4 DEF ResendInv
<1>14. AgreementInv(q)'
  <2>1. \A a, b, c \in Nat : a <= b => a - 1 <= b /\ (c + a <= b => c + (a - 1) <= b)
    OBVIOUS
  <2>2. /\ StillExpected(p) <= Len(pipe[q]) + Len(resend[q]) =>
             StillExpected(p)' <= Len(pipe'[q]) + Len(resend[q])
        /\ StillExpected(p) <= Len(pipe[q]) => StillExpected(p)' <= Len(pipe'[q])
        /\ written[q] + StillExpected(p) <= Base(p) + Len(pipe[q]) =>
             written[q] + StillExpected(p)' <= Base(p)' + Len(pipe'[q])
    <3> DEFINE e == StillExpected(p)
               b == Base(p)
               n == Len(pipe[q])
               r == Len(resend[q])
               w == written[q]
    <3>1. e \in Nat /\ b \in Nat /\ n \in Nat /\ r \in Nat /\ w \in Nat
      BY <1>2, <1>8
    <3>2. StillExpected(p)' = e - 1 /\ Base(p)' = b /\ Len(pipe'[q]) = n
      BY <1>7, <1>8
    <3> HIDE DEF e, b, n, r, w
    <3>3. /\ e <= n + r => e - 1 <= n + r
          /\ e <= n => e - 1 <= n
          /\ w + e <= b + n => w + (e - 1) <= b + n
      BY <3>1
    <3> QED
      BY <3>2, <3>3 DEF e, b, n, r, w
  <2> QED
    BY <1>0, <1>1, <1>4, <1>8, <1>9, <2>2 DEF AgreementInv
<1> QED
  BY <1>10, <1>11, <1>12, <1>13, <1>14 DEF Direction

(* The writer is done synchronizing. *)
LEMMA SyncDoneKeepsOut ==
  ASSUME TransportInv, TypeOK', NEW q \in Peers, NEW p \in Peers, p = Other(q),
         SyncDone(q)
  PROVE  Direction(q)'
<1>0. TypeOK /\ q = Other(p) /\ p # q /\ LinkInv /\ StatsRead
  BY OtherPeer DEF TransportInv, Typed
<1>1. /\ PhaseInv(q) /\ DeliveredInv(q) /\ PipeInv(q) /\ ResendInv(q) /\ AgreementInv(q)
      /\ PhaseInv(p)
  BY DEF TransportInv, Direction
<1>2. /\ phase[q] \in {"up", "down"} \union Syncing
           /\ phase[p] \in {"up", "down"} \union Syncing
      /\ Len(pipe[q]) \in Nat /\ \A i \in 1 .. Len(pipe[q]) : pipe[q][i] \in Nat
      /\ Len(delivered[p]) \in Nat
      /\ \A i \in 1 .. Len(delivered[p]) : delivered[p][i] \in Nat
      /\ written[q] \in Nat /\ expected[p] \in Nat /\ Len(resend[q]) \in Nat
      /\ backup[p].received_cnt \in Nat /\ backup[q].received_cnt \in Nat
      /\ Len(backup[q].frames) \in Nat
  BY <1>0, DirectionTypes
<1>4. /\ phase[q] = "recv" /\ phase'[q] = "up" /\ phase'[p] = phase[p]
      /\ UNCHANGED <<link, stats, expected, resend, written, delivered, pipe>>
      /\ backup'[p] = backup[p]
  BY <1>0 DEF SyncDone, syncVars, TypeOK
<1>5. Base(p)' = Base(p) /\ StillExpected(p)' = StillExpected(p)
  BY <1>0, <1>4 DEF Base, StillExpected, ExpectedCnt
<1>6. stats[p] # <<>> /\ stats[q] # <<>> /\ stats[q][1] = written[q] /\ resend[q] = <<>>
  BY <1>0, <1>1, <1>4 DEF StatsRead, PhaseInv, ResendInv
<1>7. PhaseInv(q)'
  <2>1. phase[p] # "opened"
    BY <1>1, <1>6 DEF PhaseInv
  <2> QED
    BY <1>0, <1>4, <1>6, <2>1 DEF PhaseInv
<1>8. DeliveredInv(q)'
  BY <1>0, <1>1, <1>4 DEF DeliveredInv
<1>9. PipeInv(q)'
  BY <1>0, <1>1, <1>4, <1>5 DEF PipeInv
<1>10. ResendInv(q)'
  BY <1>4 DEF ResendInv
<1>11. AgreementInv(q)'
  <2> SUFFICES ASSUME link = "up"
               PROVE  /\ StillExpected(p) <= Len(pipe[q])
                      /\ written[q] + StillExpected(p) <= Base(p) + Len(pipe[q])
    BY <1>0, <1>4, <1>5 DEF AgreementInv
  <2>1. written[q] <= Base(p) /\ StillExpected(p) <= Len(pipe[q]) + Len(resend[q])
    BY <1>0, <1>1, <1>4, <1>6 DEF AgreementInv
  <2>2. Len(resend[q]) = 0
    BY <1>6
  <2>3. Base(p) \in Nat /\ StillExpected(p) \in Nat
    BY <1>0, <1>6, BaseTypes
  <2>4. \A w, b, e, n \in Nat : w <= b /\ e <= n + 0 => e <= n /\ w + e <= b + n
    OBVIOUS
  <2> QED
    BY <1>2, <2>1, <2>2, <2>3, <2>4
<1> QED
  BY <1>7, <1>8, <1>9, <1>10, <1>11 DEF Direction

(* The reader is done synchronizing. *)
LEMMA SyncDoneKeepsIn ==
  ASSUME TransportInv, TypeOK', NEW q \in Peers, NEW p \in Peers, p = Other(q),
         SyncDone(p)
  PROVE  Direction(q)'
<1>0. TypeOK /\ q = Other(p) /\ p # q /\ LinkInv /\ StatsRead
  BY OtherPeer DEF TransportInv, Typed
<1>1. /\ PhaseInv(q) /\ DeliveredInv(q) /\ PipeInv(q) /\ ResendInv(q) /\ AgreementInv(q)
      /\ PhaseInv(p)
  BY DEF TransportInv, Direction
<1>3. /\ stats[q] # <<>> =>
           stats[q][1] \in Nat /\ stats[q][2] \in Nat /\ stats[q][3] \in Nat
      /\ stats[p] # <<>> =>
           stats[p][1] \in Nat /\ stats[p][2] \in Nat /\ stats[p][3] \in Nat
  BY <1>0, StatsFields
<1>4. /\ phase[p] = "recv" /\ phase'[p] = "up" /\ phase'[q] = phase[q]
      /\ UNCHANGED <<link, stats, expected, resend, written, delivered, pipe>>
      /\ backup'[q] = backup[q] /\ expected[p] = 0
      /\ backup'[p] = SetReceivedCnt(backup[p], stats[q][1])
  BY <1>0 DEF SyncDone, syncVars, TypeOK
<1>5. backup'[p].received_cnt = stats[q][1]
  <2>1. backup[p] \in BackupType /\ backup[p].frozen = FALSE /\ stats[q][1] \in Nat
    BY <1>0, <1>3, <1>4 DEF TransportInv, Typed, NotFrozen, TypeOK, StatsRead
  <2>2. \A b \in BackupType, n \in Nat :
          b.frozen = FALSE => SetReceivedCnt(b, n).received_cnt = n
    BY SetReceivedCntEffect
  <2> QED
    BY <1>4, <2>1, <2>2
<1>6. Base(p)' = Base(p) /\ StillExpected(p)' = StillExpected(p)
  BY <1>0, <1>4, <1>5 DEF Base, StillExpected
<1>7. PhaseInv(q)'
  <2>1. phase[q] # "opened"
    BY <1>1, <1>4 DEF PhaseInv
  <2> QED
    BY <1>0, <1>1, <1>4, <2>1 DEF PhaseInv, Syncing
<1>8. DeliveredInv(q)'
  BY <1>0, <1>1, <1>4 DEF DeliveredInv, Syncing
<1>9. PipeInv(q)'
  BY <1>0, <1>1, <1>4, <1>6 DEF PipeInv
<1>10. ResendInv(q)'
  BY <1>1, <1>4 DEF ResendInv
<1>11. AgreementInv(q)'
  BY <1>0, <1>1, <1>4, <1>6 DEF AgreementInv
<1> QED
  BY <1>7, <1>8, <1>9, <1>10, <1>11 DEF Direction

-----------------------------------------------------------------------------
(* Every step *)

(* Writing a frame does not count one as received. *)
LEMMA WriteFrameCounts ==
  ASSUME Typed, NEW r \in Peers, WriteFrame(r), NEW s \in Peers
  PROVE  /\ backup'[s].received_cnt = backup[s].received_cnt
         /\ s # r => backup'[s] = backup[s]
<1>1. /\ backup' = [backup EXCEPT ![r] = PushFrame(IncrementSentCnt(@), written[r] + 1)]
      /\ backup \in [Peers -> BackupType] /\ backup[r] \in BackupType
      /\ backup[r].frozen = FALSE /\ written[r] + 1 \in Nat
  BY DEF Typed, TypeOK, NotFrozen, WriteFrame
<1>2. /\ IncrementSentCnt(backup[r]) \in BackupType
      /\ IncrementSentCnt(backup[r]).frozen = FALSE
      /\ IncrementSentCnt(backup[r]).received_cnt = backup[r].received_cnt
  BY <1>1, IncrementSentCntEffect
<1>3. PushFrame(IncrementSentCnt(backup[r]),
        written[r] + 1).received_cnt = backup[r].received_cnt
  BY <1>1, <1>2, PushFrameEffect
<1> QED
  BY <1>1, <1>3

(* Reading a heartbeat counts one frame too many, for the client. *)
LEMMA HeartbeatCounts ==
  ASSUME Typed, ReadHeartbeat
  PROVE  /\ phase[Client] = "up"
         /\ UNCHANGED <<phase, link, pipe, inbuf, onwire, stats, swallowed, resend,
                        expected, written, delivered, breaks, reopens>>
         /\ \A s \in Peers :
              /\ backup'[s].received_cnt = backup[s].received_cnt +
                                             (IF s = Client THEN 1 ELSE 0)
              /\ backup'[s].received_cnt >= backup[s].received_cnt
              /\ backup'[s].received_cnt \in Nat
              /\ backup'[s].frames = backup[s].frames
              /\ backup'[s].sent_cnt = backup[s].sent_cnt
<1>1. /\ backup' = [backup EXCEPT ![Client] = IncrementReceivedCnt(@)]
      /\ backup \in [Peers -> BackupType] /\ Client \in Peers
      /\ backup[Client] \in BackupType /\ backup[Client].frozen = FALSE
  BY DEF ReadHeartbeat, Typed, TypeOK, NotFrozen, Peers
<1>2. ASSUME NEW s \in Peers
      PROVE  /\ backup'[s].received_cnt = backup[s].received_cnt +
                                            (IF s = Client THEN 1 ELSE 0)
             /\ backup'[s].received_cnt >= backup[s].received_cnt
             /\ backup'[s].received_cnt \in Nat
             /\ backup'[s].frames = backup[s].frames
             /\ backup'[s].sent_cnt = backup[s].sent_cnt
  <2>1. backup[s].received_cnt \in Nat
    BY <1>1 DEF BackupType
  <2>2. CASE s = Client
    <3>1. backup'[s] = IncrementReceivedCnt(backup[s])
      BY <1>1, <2>2
    <3>2. /\ backup'[s].received_cnt = backup[s].received_cnt + 1
          /\ backup'[s].frames = backup[s].frames
          /\ backup'[s].sent_cnt = backup[s].sent_cnt
      BY <1>1, <2>2, <3>1, IncrementReceivedCntEffect
    <3> QED
      BY <2>1, <2>2, <3>2
  <2>3. CASE s # Client
    BY <1>1, <2>1, <2>3
  <2> QED
    BY <2>2, <2>3
<1> QED
  BY <1>2 DEF ReadHeartbeat, syncVars

(* The bounds on what is on its way are bounds from above: a count that is too
   large keeps them. *)
LEMMA HeartbeatKeeps ==
  ASSUME TransportInv, ReadHeartbeat, NEW q \in Peers, NEW p \in Peers, p = Other(q)
  PROVE  Direction(q)'
<1>0. Typed /\ TypeOK /\ q = Other(p) /\ p # q
  BY OtherPeer DEF TransportInv, Typed
<1>1. PhaseInv(q) /\ DeliveredInv(q) /\ PipeInv(q) /\ ResendInv(q) /\ AgreementInv(q)
  BY DEF TransportInv, Direction
<1>2. /\ phase[Client] = "up"
      /\ UNCHANGED <<phase, link, pipe, stats, resend, expected, written, delivered>>
      /\ backup'[q].frames = backup[q].frames
      /\ q # Client => backup'[q].received_cnt = backup[q].received_cnt
      /\ p # Client => backup'[p].received_cnt = backup[p].received_cnt
      /\ backup'[p].received_cnt >= backup[p].received_cnt
      /\ backup'[p].received_cnt \in Nat /\ backup[p].received_cnt \in Nat
      /\ backup[q].received_cnt \in Nat
  <2>1. backup[p].received_cnt \in Nat /\ backup[q].received_cnt \in Nat
    BY <1>0, DirectionTypes
  <2>2. \A n \in Nat : n + 0 = n
    OBVIOUS
  <2> QED
    BY <1>0, <2>1, <2>2, HeartbeatCounts
<1>3. CASE p # Client
  <2>1. phase[q] = "up"
    BY <1>2, <1>3 DEF Peers, Other
  <2> QED
    BY <1>2, <1>3, <2>1, DirectionSame
<1>4. CASE p = Client
  <2>0. q # Client /\ phase[p] = "up"
    BY <1>0, <1>2, <1>4
  <2>1. /\ Base(p) = backup[p].received_cnt /\ Base(p)' = backup'[p].received_cnt
        /\ StillExpected(p) = 0 /\ StillExpected(p)' = 0
    BY <1>2, <2>0 DEF Base, StillExpected
  <2>2. Base(p) \in Nat /\ Base(p)' \in Nat /\ Base(p) <= Base(p)'
    BY <1>2, <2>1
  <2>3. PhaseInv(q)'
    BY <1>1, <1>2, <2>0 DEF PhaseInv, Syncing
  <2>4. DeliveredInv(q)'
    BY <1>1, <1>2 DEF DeliveredInv
  <2>5. PipeInv(q)'
    <3> SUFFICES ASSUME NEW i \in 1 .. Len(pipe[q])
                 PROVE  /\ pipe[q][i] \in 1 .. written[q]
                        /\ \A j \in 1 .. Len(pipe[q]) : i # j => pipe[q][j] # pipe[q][i]
                        /\ \A j \in 1 .. Len(delivered[p]) :
                             delivered[p][j] # pipe[q][i]
                        /\ pipe[q][i] <= Base(p)' + SaturatingSub(i, StillExpected(p)')
                        /\ link = "up" /\ phase[q] = "resend" =>
                             pipe[q][i] <= written[q] - Len(resend[q])
      BY <1>2 DEF PipeInv
    <3>1. /\ pipe[q][i] \in 1 .. written[q]
          /\ \A j \in 1 .. Len(pipe[q]) : i # j => pipe[q][j] # pipe[q][i]
          /\ \A j \in 1 .. Len(delivered[p]) : delivered[p][j] # pipe[q][i]
          /\ pipe[q][i] <= Base(p) + SaturatingSub(i, StillExpected(p))
          /\ link = "up" /\ phase[q] = "resend" =>
               pipe[q][i] <= written[q] - Len(resend[q])
      BY <1>1, <2>0 DEF PipeInv
    <3>2. SaturatingSub(i, 0) \in Nat /\ pipe[q][i] \in Nat
      BY <1>0, SaturatingSubIsNatural, DirectionTypes
    <3>3. pipe[q][i] <= Base(p)' + SaturatingSub(i, StillExpected(p)')
      <4>1. pipe[q][i] <= Base(p) + SaturatingSub(i, 0)
        BY <2>1, <3>1
      <4>2. pipe[q][i] <= Base(p)' + SaturatingSub(i, 0)
        BY <2>2, <3>2, <4>1
      <4> QED
        BY <2>1, <4>2
    <3> QED
      BY <3>1, <3>3
  <2>6. ResendInv(q)'
    BY <1>1, <1>2 DEF ResendInv
  <2>7. AgreementInv(q)'
    <3>1. /\ written[q] \in Nat /\ Len(pipe[q]) \in Nat
          /\ stats[q] # <<>> => stats[q][1] \in Nat
      BY <1>0, DirectionTypes
    <3>2. link = "up" =>
            /\ phase[q] \in {"stats", "resend", "recv"} => stats[q][1] <= Base(p)
            /\ phase[q] \in {"resend", "recv"} =>
                 StillExpected(p) <= Len(pipe[q]) + Len(resend[q])
            /\ phase[q] = "up" =>
                 /\ StillExpected(p) <= Len(pipe[q])
                 /\ written[q] + StillExpected(p) <= Base(p) + Len(pipe[q])
      BY <1>1 DEF AgreementInv
    <3>3. phase[q] \in {"stats", "resend", "recv"} => stats[q] # <<>>
      BY <1>1 DEF PhaseInv
    <3>4. link = "up" /\ phase[q] \in {"stats", "resend", "recv"} =>
            stats[q][1] <= Base(p)'
      BY <2>2, <3>1, <3>2, <3>3
    <3>5. link = "up" /\ phase[q] = "up" =>
            written[q] + StillExpected(p)' <= Base(p)' + Len(pipe[q])
      <4>1. link = "up" /\ phase[q] = "up" => written[q] + 0 <= Base(p) + Len(pipe[q])
        BY <2>1, <3>2
      <4>2. link = "up" /\ phase[q] = "up" => written[q] + 0 <= Base(p)' + Len(pipe[q])
        BY <2>2, <3>1, <4>1
      <4> QED
        BY <2>1, <4>2
    <3> QED
      BY <1>2, <2>0, <2>1, <3>2, <3>4, <3>5 DEF AgreementInv
  <2> QED
    BY <2>3, <2>4, <2>5, <2>6, <2>7 DEF Direction
<1> QED
  BY <1>3, <1>4

(* Only reading a frame or a heartbeat and the end of synchronize change a received
   count, and only reading a frame hands one out. *)
LEMMA CountsKept ==
  ASSUME AttemptTimeout = FALSE, Typed, [Next]_vars,
         \A r \in Peers : ~ReadFrame(r) /\ ~SyncDone(r), ~ReadHeartbeat
  PROVE  /\ UNCHANGED delivered
         /\ \A s \in Peers : backup'[s].received_cnt = backup[s].received_cnt
<1> DEFINE Kept == /\ UNCHANGED delivered
                   /\ \A s \in Peers : backup'[s].received_cnt = backup[s].received_cnt
<1>1. ASSUME NEW r \in Peers, WriteFrame(r) PROVE Kept
  <2>1. \A s \in Peers : backup'[s].received_cnt = backup[s].received_cnt
    BY <1>1, WriteFrameCounts
  <2>2. UNCHANGED delivered
    BY <1>1 DEF WriteFrame
  <2> QED
    BY <2>1, <2>2
<1>2. ASSUME NEW r \in Peers, SyncStats(r) PROVE Kept
  <2>1. ResendCnt(r) \in Nat
    BY <1>2, CountsAreNatural DEF Typed, SyncStats
  <2>2. /\ backup' = [backup EXCEPT ![r] = TruncateFront(@, ResendCnt(r))]
        /\ backup \in [Peers -> BackupType] /\ backup[r] \in BackupType
        /\ backup[r].frozen = FALSE
    BY <1>2 DEF Typed, TypeOK, NotFrozen, SyncStats
  <2>3. TruncateFront(backup[r], ResendCnt(r)).received_cnt = backup[r].received_cnt
    BY <2>1, <2>2, TruncateFrontEffect
  <2>4. \A s \in Peers : backup'[s].received_cnt = backup[s].received_cnt
    BY <2>2, <2>3
  <2>5. UNCHANGED delivered
    BY <1>2 DEF SyncStats
  <2> QED
    BY <2>4, <2>5
<1>3. ASSUME Reopen PROVE Kept
  <2>1. /\ backup' = [backup EXCEPT ![Client] = ThroughReconnect(@)]
        /\ backup \in [Peers -> BackupType] /\ backup[Client] \in BackupType
        /\ backup[Client].frozen = FALSE
    BY <1>3 DEF Typed, TypeOK, NotFrozen, Reopen, Peers
  <2>2. ThroughReconnect(backup[Client]) = backup[Client]
    BY <2>1, ThroughReconnectIsIdentity
  <2>3. \A s \in Peers : backup'[s].received_cnt = backup[s].received_cnt
    BY <2>1, <2>2
  <2>4. UNCHANGED delivered
    BY <1>3 DEF Reopen
  <2> QED
    BY <2>3, <2>4
<1>4. ASSUME UNCHANGED <<backup, delivered>> PROVE Kept
  BY <1>4
<1>5. ASSUME NEW r \in Peers,
             Flush(r) \/ Detect(r) \/ SyncStart(r) \/ SyncResend(r) \/ SyncResent(r)
               \/ SyncRead(r) \/ SyncFail(r)
      PROVE  Kept
  <2>1. UNCHANGED <<backup, delivered>>
    BY <1>5 DEF Flush, Detect, SyncStart, SyncResend, SyncResent, SyncRead, SyncFail
  <2> QED
    BY <1>4, <2>1
<1>6. ASSUME Break \/ Silence \/ Heartbeat \/ UNCHANGED vars PROVE Kept
  <2>1. UNCHANGED <<backup, delivered>>
    BY <1>6 DEF Break, Silence, Heartbeat, vars
  <2> QED
    BY <1>4, <2>1
<1>7. ~SyncTimeout /\ ~HandshakeTimeout
  BY DEF SyncTimeout, HandshakeTimeout
<1> HIDE DEF Kept
<1>8. Kept
  <2>1. ASSUME NEW r \in Peers, Synchronize(r) PROVE Kept
    BY <1>2, <1>5, <2>1 DEF Synchronize
  <2>2. ASSUME Next PROVE Kept
    BY <1>1, <1>3, <1>5, <1>6, <1>7, <2>1, <2>2 DEF Next
  <2> QED
    BY <1>6, <2>2
<1> QED
  BY <1>8 DEF Kept

(* A peer gives up its connection and the link together. *)
LEMMA LinkStep ==
  ASSUME TypeOK, LinkInv, [Next]_vars
  PROVE  LinkInv'
<1> SUFFICES ASSUME link' = "up", NEW s \in Peers PROVE phase'[s] # "down"
  BY DEF LinkInv
<1>0. phase \in [Peers -> {"up", "down"} \union Syncing]
        /\ (link = "up" => phase[s] # "down")
  BY DEF TypeOK, LinkInv
<1>1. ASSUME NEW r \in Peers, WriteFrame(r) PROVE phase'[s] # "down"
  BY <1>0, <1>1 DEF WriteFrame
<1>2. ASSUME NEW r \in Peers, Flush(r) \/ ReadFrame(r) \/ SyncResend(r) \/ SyncRead(r)
      PROVE  phase'[s] # "down"
  <2>1. UNCHANGED <<phase, link>>
    BY <1>2 DEF Flush, ReadFrame, SyncResend, SyncRead
  <2> QED
    BY <1>0, <2>1
<1>3. ASSUME NEW r \in Peers, SyncStart(r) \/ SyncStats(r) \/ SyncResent(r)
             \/ SyncDone(r)
      PROVE  phase'[s] # "down"
  <2>1. /\ link' = link
        /\ \E x \in {"stats", "resend", "recv", "up"} : phase' = [phase EXCEPT ![r] = x]
    BY <1>3 DEF SyncStart, SyncStats, SyncResent, SyncDone
  <2> QED
    BY <1>0, <2>1
<1>4. ASSUME NEW r \in Peers, Detect(r) \/ SyncFail(r) PROVE FALSE
  BY <1>4 DEF Detect, SyncFail
<1>5. CASE Break \/ Silence
  BY <1>5 DEF Break, Silence
<1>6. CASE Reopen
  BY <1>6 DEF Reopen
<1>7. CASE Heartbeat \/ ReadHeartbeat \/ HandshakeTimeout \/ UNCHANGED vars
  BY <1>0, <1>7 DEF Heartbeat, ReadHeartbeat, HandshakeTimeout, vars
<1>8. ~SyncTimeout
  BY DEF SyncTimeout
<1> QED
  BY <1>1, <1>2, <1>3, <1>4, <1>5, <1>6, <1>7, <1>8 DEF Next, Synchronize

(* No step hands out a frame twice, and the counts keep up. *)
LEMMA DeliveredStep ==
  ASSUME AttemptTimeout = FALSE, TransportInv, [Next]_vars
  PROVE  AtMostOnce' /\ NeverUndercounts'
<1>0. Typed /\ TypeOK /\ AtMostOnce /\ NeverUndercounts
  BY DEF TransportInv, Typed
<1>a. \A s \in Peers : /\ Len(delivered[s]) \in Nat /\ backup[s].received_cnt \in Nat
                       /\ \A i \in 1 .. Len(delivered[s]) : delivered[s][i] \in Nat
  BY <1>0, DirectionTypes
<1>1. ASSUME NEW r \in Peers, ReadFrame(r) PROVE AtMostOnce' /\ NeverUndercounts'
  <2> SUFFICES ASSUME NEW q \in Peers, q = Other(r)
               PROVE  AtMostOnce' /\ NeverUndercounts'
    BY OtherPeer
  <2>1. /\ r = Other(q) /\ phase[r] = "up"
        /\ backup' = [backup EXCEPT ![r] = IncrementReceivedCnt(@)]
        /\ delivered' = [delivered EXCEPT ![r] = Append(@, Head(pipe[q]))]
        /\ pipe[q] # <<>>
    BY <1>0, <1>1, OtherPeer, BufferedFrames DEF ReadFrame
  <2>2. /\ backup \in [Peers -> BackupType] /\ backup[r] \in BackupType
        /\ backup[r].frozen = FALSE /\ delivered \in [Peers -> Seq(Nat)]
             /\ pipe[q] \in Seq(Nat)
    BY <1>0 DEF Typed, NotFrozen, TypeOK
  <2>3. /\ backup'[r].received_cnt = backup[r].received_cnt + 1
        /\ \A s \in Peers : s # r =>
             backup'[s] = backup[s] /\ delivered'[s] = delivered[s]
    BY <2>1, <2>2, IncrementReceivedCntEffect
  <2>4. 1 \in 1 .. Len(pipe[q]) /\ Head(pipe[q]) = pipe[q][1] /\ pipe[q][1] \in Nat
    BY <2>1, <2>2
  <2>5. /\ Len(delivered'[r]) = Len(delivered[r]) + 1
        /\ \A i \in 1 .. Len(delivered[r]) : delivered'[r][i] = delivered[r][i]
        /\ delivered'[r][Len(delivered[r]) + 1] = pipe[q][1]
    <3>1. delivered'[r] = Append(delivered[r], pipe[q][1]) /\ delivered[r] \in Seq(Nat)
      BY <2>1, <2>2, <2>4
    <3> QED
      BY <2>4, <3>1, AppendProperties
  <2>6. \A i \in 1 .. Len(delivered'[r]) : i \in 1 .. Len(delivered[r])
          \/ i = Len(delivered[r]) + 1
    BY <1>a, <2>5
  <2>7. /\ \A j \in 1 .. Len(delivered[r]) : delivered[r][j] # pipe[q][1]
        /\ pipe[q][1] <= backup[r].received_cnt + 1
    <3>1. PipeInv(q)
      BY DEF TransportInv, Direction
    <3>2. SaturatingSub(1, 0) = 1
      BY DEF SaturatingSub
    <3>3. Base(r) = backup[r].received_cnt /\ StillExpected(r) = 0
      BY <2>1 DEF Base, StillExpected
    <3> QED
      BY <2>1, <2>4, <3>1, <3>2, <3>3 DEF PipeInv
  <2>8. AtMostOnce'
    <3> SUFFICES ASSUME NEW s \in Peers, NEW i \in 1 .. Len(delivered'[s]),
                        NEW j \in 1 .. Len(delivered'[s]), i # j
                 PROVE  delivered'[s][i] # delivered'[s][j]
      BY DEF AtMostOnce
    <3>1. CASE s # r
      BY <1>0, <2>3, <3>1 DEF AtMostOnce
    <3>2. CASE s = r
      <4>1. i \in 1 .. Len(delivered[r]) \/ i = Len(delivered[r]) + 1
        BY <2>6, <3>2
      <4>2. j \in 1 .. Len(delivered[r]) \/ j = Len(delivered[r]) + 1
        BY <2>6, <3>2
      <4>3. \A m, n \in 1 .. Len(delivered[r]) : m # n =>
              delivered[r][m] # delivered[r][n]
        BY <1>0 DEF AtMostOnce
      <4> QED
        BY <2>5, <2>7, <3>2, <4>1, <4>2, <4>3
    <3> QED
      BY <3>1, <3>2
  <2>9. NeverUndercounts'
    <3> SUFFICES ASSUME NEW s \in Peers, NEW i \in 1 .. Len(delivered'[s])
                 PROVE  delivered'[s][i] <= backup'[s].received_cnt
      BY DEF NeverUndercounts
    <3>1. CASE s # r
      BY <1>0, <2>3, <3>1 DEF NeverUndercounts
    <3>2. CASE s = r
      <4>1. \A m \in 1 .. Len(delivered[r]) :
              delivered[r][m] <= backup[r].received_cnt /\ delivered[r][m] \in Nat
        BY <1>0, <1>a DEF NeverUndercounts
      <4>2. \A m \in 1 .. Len(delivered[r]) :
              delivered[r][m] <= backup[r].received_cnt + 1
        BY <1>a, <4>1
      <4> QED
        BY <2>3, <2>5, <2>6, <2>7, <3>2, <4>2
    <3> QED
      BY <3>1, <3>2
  <2> QED
    BY <2>8, <2>9
<1>2. ASSUME NEW r \in Peers, SyncDone(r) PROVE AtMostOnce' /\ NeverUndercounts'
  <2> SUFFICES ASSUME NEW q \in Peers, q = Other(r)
               PROVE  AtMostOnce' /\ NeverUndercounts'
    BY OtherPeer
  <2>1. /\ r = Other(q) /\ phase[r] = "recv" /\ UNCHANGED delivered
        /\ backup' = [backup EXCEPT ![r] = SetReceivedCnt(@, stats[q][1])]
        /\ stats[q] # <<>>
    BY <1>0, <1>2, OtherPeer DEF SyncDone, Typed, StatsRead
  <2>2. /\ backup \in [Peers -> BackupType] /\ backup[r] \in BackupType
        /\ backup[r].frozen = FALSE /\ stats[q][1] \in Nat
    BY <1>0, <2>1, StatsFields DEF Typed, NotFrozen, TypeOK
  <2>3. /\ backup'[r].received_cnt = stats[q][1]
        /\ \A s \in Peers : s # r => backup'[s] = backup[s]
    BY <2>1, <2>2, SetReceivedCntEffect
  <2>4. \A i \in 1 .. Len(delivered[r]) : delivered[r][i] <= stats[q][1]
    BY <2>1 DEF TransportInv, Direction, DeliveredInv, Syncing
  <2>5. AtMostOnce'
    BY <1>0, <2>1 DEF AtMostOnce
  <2>6. NeverUndercounts'
    BY <1>0, <2>1, <2>3, <2>4 DEF NeverUndercounts
  <2> QED
    BY <2>5, <2>6
<1>3. CASE (\A r \in Peers : ~ReadFrame(r) /\ ~SyncDone(r)) /\ ~ReadHeartbeat
  <2>1. /\ UNCHANGED delivered
        /\ \A s \in Peers : backup'[s].received_cnt = backup[s].received_cnt
    BY <1>0, <1>3, CountsKept
  <2> QED
    BY <1>0, <2>1 DEF AtMostOnce, NeverUndercounts
<1>4. CASE ReadHeartbeat
  <2>1. /\ UNCHANGED delivered
        /\ \A s \in Peers : backup'[s].received_cnt >= backup[s].received_cnt
                           /\ backup'[s].received_cnt \in Nat
    BY <1>0, <1>4, HeartbeatCounts
  <2> QED
    BY <1>0, <1>a, <2>1 DEF AtMostOnce, NeverUndercounts
<1> QED
  BY <1>1, <1>2, <1>3, <1>4

(* Every step, one direction. *)
LEMMA DirectionStep ==
  ASSUME AttemptTimeout = FALSE, TransportInv, Typed', SuffixInv', [Next]_vars,
         NEW q \in Peers, NEW p \in Peers, p = Other(q)
  PROVE  Direction(q)'
<1>0. /\ Typed /\ TypeOK /\ TypeOK' /\ q = Other(p) /\ p # q
      /\ \A r \in Peers : r = q \/ r = p
  BY OtherPeer DEF TransportInv, Typed
<1>a. /\ pipe \in [Peers -> Seq(Nat)] /\ written \in [Peers -> Nat]
      /\ phase \in [Peers -> {"up", "down"} \union Syncing]
      /\ backup \in [Peers -> BackupType] /\ delivered \in [Peers -> Seq(Nat)]
      /\ resend \in [Peers -> Seq(Nat)] /\ expected \in [Peers -> Nat]
      /\ link \in {"up", "broken"}
      /\ pipe[q] \in Seq(Nat) /\ Len(pipe[q]) <= Len(pipe[q])
      /\ written[q] \in Nat /\ written[q] >= written[q]
  <2>1. /\ pipe \in [Peers -> Seq(Nat)] /\ written \in [Peers -> Nat]
        /\ phase \in [Peers -> {"up", "down"} \union Syncing]
        /\ backup \in [Peers -> BackupType] /\ delivered \in [Peers -> Seq(Nat)]
        /\ resend \in [Peers -> Seq(Nat)] /\ expected \in [Peers -> Nat]
        /\ link \in {"up", "broken"}
    BY <1>0 DEF TypeOK
  <2>2. /\ pipe[q] \in Seq(Nat) /\ Len(pipe[q]) \in Nat /\ written[q] \in Nat
    BY <2>1
  <2>3. \A n \in Nat : n <= n /\ n >= n
    OBVIOUS
  <2> QED
    BY <2>1, <2>2, <2>3
<1>b. ASSUME UNCHANGED <<stats, pipe, resend, expected, delivered, written, backup>>,
             link' = "broken",
             phase'[q] \in {phase[q], "down"}, phase'[p] \in {phase[p], "down"}
      PROVE  Direction(q)'
  BY <1>a, <1>b, DirectionBroken
<1>1. ASSUME NEW r \in Peers, WriteFrame(r) PROVE Direction(q)'
  <2>1. /\ phase[r] = "up" /\ UNCHANGED <<link, stats, resend, expected, delivered>>
        /\ written' = [written EXCEPT ![r] = written[r] + 1]
    BY <1>1 DEF WriteFrame, syncVars
  <2>2. /\ backup'[q].received_cnt = backup[q].received_cnt
        /\ backup'[p].received_cnt = backup[p].received_cnt
        /\ q # r => backup'[q] = backup[q]
    BY <1>0, <1>1, WriteFrameCounts
  <2>3. CASE link = "up" /\ r = q
    BY <1>0, <1>1, <2>3, WriteFrameKeeps
  <2>4. CASE link = "up" /\ r = p
    <3>1. UNCHANGED phase /\ pipe'[q] = pipe[q] /\ written'[q] = written[q]
      BY <1>0, <1>1, <1>a, <2>1, <2>4 DEF WriteFrame
    <3>2. backup'[q] = backup[q]
      BY <1>0, <2>2, <2>4
    <3> QED
      BY <2>1, <2>2, <3>1, <3>2, DirectionSame
  <2>5. CASE link = "broken"
    <3>1. /\ UNCHANGED pipe
          /\ phase'[q] \in {phase[q], "down"} /\ phase'[p] \in {phase[p], "down"}
      BY <1>1, <1>a, <2>5 DEF WriteFrame
    <3>2. written'[q] \in Nat /\ written'[q] >= written[q]
      BY <1>a, <2>1
    <3>3. phase[q] # "up" => backup'[q] = backup[q] /\ written'[q] = written[q]
      BY <1>0, <1>a, <2>1, <2>2
    <3>4. link' = "broken"
      BY <2>1, <2>5
    <3>5. /\ Len(pipe'[q]) <= Len(pipe[q]) /\ pipe'[q] \in Seq(Nat)
          /\ \A i \in 1 .. Len(pipe'[q]) : pipe'[q][i] = pipe[q][i]
      BY <1>a, <3>1
    <3> QED
      BY <2>1, <2>2, <3>1, <3>2, <3>3, <3>4, <3>5, DirectionBroken
  <2> QED
    BY <1>0, <1>a, <2>3, <2>4, <2>5
<1>2. ASSUME NEW r \in Peers, Flush(r) PROVE Direction(q)'
  <2>1. UNCHANGED <<link, phase, stats, pipe, resend, expected, written, delivered,
                    backup>>
    BY <1>2 DEF Flush, syncVars
  <2> QED
    BY <2>1, DirectionSame
<1>3. ASSUME NEW r \in Peers, ReadFrame(r) PROVE Direction(q)'
  <2>1. CASE r = p
    BY <1>0, <1>3, <2>1, ReadFrameKeeps
  <2>2. CASE r = q
    <3>1. /\ phase[q] = "up" /\ UNCHANGED <<link, phase, stats, resend, expected,
                                            written>>
          /\ pipe'[q] = pipe[q] /\ delivered'[p] = delivered[p]
               /\ backup'[p] = backup[p]
      BY <1>0, <1>3, <1>a, <2>2 DEF ReadFrame, syncVars
    <3> QED
      BY <3>1, DirectionSame
  <2> QED
    BY <1>0, <2>1, <2>2
<1>4. ASSUME NEW r \in Peers, Detect(r) PROVE Direction(q)'
  <2>1. /\ UNCHANGED <<stats, pipe, resend, expected, delivered, written, backup>>
        /\ link' = "broken"
        /\ phase'[q] \in {phase[q], "down"} /\ phase'[p] \in {phase[p], "down"}
    BY <1>4, <1>a DEF Detect, syncVars
  <2> QED
    BY <1>b, <2>1
<1>5. ASSUME NEW r \in Peers, SyncStart(r) PROVE Direction(q)'
  BY <1>0, <1>5, SyncStartKeepsOut, SyncStartKeepsIn
<1>6. ASSUME NEW r \in Peers, SyncStats(r) PROVE Direction(q)'
  BY <1>0, <1>6, SyncStatsKeepsOut, SyncStatsKeepsIn
<1>7. ASSUME NEW r \in Peers, SyncResend(r) PROVE Direction(q)'
  <2>1. CASE r = q
    BY <1>0, <1>7, <1>a, <2>1, SyncResendKeepsUp, SyncResendKeepsBroken
  <2>2. CASE r = p
    <3>1. /\ UNCHANGED <<link, phase, stats, expected, written, delivered, backup>>
          /\ pipe'[q] = pipe[q] /\ resend'[q] = resend[q]
      BY <1>0, <1>7, <1>a, <2>2 DEF SyncResend
    <3> QED
      BY <3>1, DirectionSame
  <2> QED
    BY <1>0, <2>1, <2>2
<1>8. ASSUME NEW r \in Peers, SyncResent(r) PROVE Direction(q)'
  BY <1>0, <1>8, SyncResentKeepsOut, SyncResentKeepsIn
<1>9. ASSUME NEW r \in Peers, SyncRead(r) PROVE Direction(q)'
  <2>1. CASE r = p
    BY <1>0, <1>9, <2>1, SyncReadKeeps
  <2>2. CASE r = q
    <3>1. /\ UNCHANGED <<link, phase, stats, resend, written, delivered, backup>>
          /\ pipe'[q] = pipe[q] /\ expected'[p] = expected[p]
      BY <1>0, <1>9, <1>a, <2>2 DEF SyncRead
    <3> QED
      BY <3>1, DirectionSame
  <2> QED
    BY <1>0, <2>1, <2>2
<1>10. ASSUME NEW r \in Peers, SyncDone(r) PROVE Direction(q)'
  BY <1>0, <1>10, SyncDoneKeepsOut, SyncDoneKeepsIn
<1>11. ASSUME NEW r \in Peers, SyncFail(r) PROVE Direction(q)'
  <2>1. /\ UNCHANGED <<stats, pipe, resend, expected, delivered, written, backup>>
        /\ link' = "broken"
        /\ phase'[q] \in {phase[q], "down"} /\ phase'[p] \in {phase[p], "down"}
    BY <1>11, <1>a DEF SyncFail, syncVars
  <2> QED
    BY <1>b, <2>1
<1>12. CASE Break
  <2>1. /\ UNCHANGED <<phase, stats, resend, expected, delivered, written, backup>>
        /\ link' = "broken"
    BY <1>12 DEF Break, syncVars
  <2>2. PICK m \in [Peers -> 0 .. LinkCap] :
          /\ m[q] <= onwire[q]
          /\ pipe'[q] = SubSeq(pipe[q], 1, inbuf[q] + m[q])
    BY <1>12 DEF Break
  <2>3. inbuf[q] + m[q] \in 0 .. Len(pipe[q])
    <3>1. inbuf[q] \in Nat /\ onwire[q] \in Nat /\ inbuf[q] + onwire[q] <= Len(pipe[q])
      BY <1>0 DEF TypeOK
    <3>2. m[q] \in Nat
      BY BoundsAreNaturals
    <3>3. Len(pipe[q]) \in Nat
      BY <1>a
    <3> QED
      BY <2>2, <3>1, <3>2, <3>3
  <2>4. /\ pipe'[q] \in Seq(Nat) /\ Len(pipe'[q]) <= Len(pipe[q])
        /\ \A i \in 1 .. Len(pipe'[q]) : pipe'[q][i] = pipe[q][i]
    <3> DEFINE n == inbuf[q] + m[q]
    <3>1. n \in 0 .. Len(pipe[q]) /\ pipe'[q] = SubSeq(pipe[q], 1, n)
            /\ pipe[q] \in Seq(Nat)
      BY <1>a, <2>2, <2>3
    <3> HIDE DEF n
    <3> QED
      BY <3>1
  <2> QED
    BY <1>a, <2>1, <2>4, DirectionBroken
<1>13. CASE Silence
  <2>1. /\ UNCHANGED <<stats, pipe, resend, expected, delivered, written, backup>>
        /\ link' = "broken"
        /\ phase'[q] \in {phase[q], "down"} /\ phase'[p] \in {phase[p], "down"}
    BY <1>13, <1>a DEF Silence, syncVars
  <2> QED
    BY <1>b, <2>1
<1>14. CASE Reopen
  BY <1>0, <1>14, ReopenKeeps
<1>15. CASE Heartbeat \/ UNCHANGED vars
  <2>1. UNCHANGED <<link, phase, stats, pipe, resend, expected, written, delivered,
                    backup>>
    BY <1>15 DEF Heartbeat, syncVars, vars
  <2> QED
    BY <2>1, DirectionSame
<1>16. ~SyncTimeout /\ ~HandshakeTimeout
  BY DEF SyncTimeout, HandshakeTimeout
<1>17. CASE ReadHeartbeat
  BY <1>17, HeartbeatKeeps
<1> QED
  BY <1>1, <1>2, <1>3, <1>4, <1>5, <1>6, <1>7, <1>8, <1>9, <1>10, <1>11, <1>12,
     <1>13, <1>14, <1>15, <1>16, <1>17 DEF Next, Synchronize

(* Both peers begin with an established connection and nothing on the way. *)
LEMMA TransportInit == Init => TransportInv
<1> SUFFICES ASSUME Init PROVE TransportInv
  OBVIOUS
<1>1. Typed /\ SuffixInv
  BY InitTyped, SuffixInit
<1>2. Len(<<>>) = 0 /\ 1 .. 0 = {}
  OBVIOUS
<1>3. AtMostOnce /\ NeverUndercounts
  BY <1>2 DEF Init, AtMostOnce, NeverUndercounts
<1>4. LinkInv
  BY DEF Init, LinkInv
<1>5. ASSUME NEW q \in Peers, NEW p \in Peers, p = Other(q) PROVE Direction(q)
  <2>1. /\ phase[q] = "up" /\ phase[p] = "up" /\ pipe[q] = <<>> /\ written[q] = 0
        /\ delivered[p] = <<>> /\ backup[p].received_cnt = 0
    BY DEF Init, NewBackup
  <2>2. Base(p) = 0 /\ StillExpected(p) = 0 /\ Len(pipe[q]) = 0
    BY <2>1, <1>2 DEF Base, StillExpected
  <2>3. PhaseInv(q)
    BY <1>5, <2>1 DEF PhaseInv, Syncing
  <2>4. DeliveredInv(q)
    BY <1>2, <1>5, <2>1 DEF DeliveredInv
  <2>5. PipeInv(q)
    BY <1>2, <1>5, <2>1 DEF PipeInv
  <2>6. ResendInv(q)
    BY <2>1 DEF ResendInv
  <2>7. AgreementInv(q)
    <3>1. 0 <= 0 /\ 0 + 0 <= 0 + 0
      OBVIOUS
    <3> QED
      BY <1>5, <2>1, <2>2, <3>1 DEF AgreementInv
  <2> QED
    BY <2>3, <2>4, <2>5, <2>6, <2>7 DEF Direction
<1>6. \A q \in Peers : Direction(q)
  BY <1>5, OtherPeer
<1> QED
  BY <1>1, <1>3, <1>4, <1>6 DEF TransportInv

LEMMA TransportStep ==
  ASSUME AttemptTimeout = FALSE, TransportInv, [Next]_vars
  PROVE  TransportInv'
<1>0. Typed /\ SuffixInv /\ TypeOK /\ LinkInv
  BY DEF TransportInv, Typed
<1>1. Typed' /\ SuffixInv'
  BY <1>0, NextTypeOK, NextStatsRead, SuffixStep DEF Typed
<1>2. AtMostOnce' /\ NeverUndercounts'
  BY DeliveredStep
<1>3. LinkInv'
  BY <1>0, LinkStep
<1>4. \A q \in Peers : Direction(q)'
  BY <1>1, DirectionStep, OtherPeer
<1> QED
  BY <1>1, <1>2, <1>3, <1>4 DEF TransportInv

(* The invariant behind the promise that no frame is handed out twice holds in
   every state of a client without an attempt timeout, however often the link
   breaks, whatever the sizes of backups and sockets, and wherever a
   synchronize() fails. *)
THEOREM TheCountsStayInStep ==
  ASSUME AttemptTimeout = FALSE
  PROVE  Spec => []InductiveInvariant
<1>1. Init => TransportInv
  BY TransportInit
<1>2. TransportInv /\ [Next]_vars => TransportInv'
  BY TransportStep
<1>3. TransportInv => InductiveInvariant
  BY DEF TransportInv, Typed, SuffixInv, Suffix, BackupIsSuffixOfWritten, Direction,
         InductiveInvariant
<1> QED
  BY <1>1, <1>2, <1>3, PTL DEF Spec

(* No frame is handed to the caller of a transport twice, and what a peer asks
   to be sent again, it has not had. *)
THEOREM NoFrameIsDeliveredTwice ==
  ASSUME AttemptTimeout = FALSE
  PROVE  Spec => [](AtMostOnce /\ NeverUndercounts)
<1>1. InductiveInvariant => AtMostOnce /\ NeverUndercounts
  BY DEF InductiveInvariant
<1> QED
  BY <1>1, TheCountsStayInStep, PTL

-----------------------------------------------------------------------------
(* The transports implement Delivery *)

(* One step of the transports is one step of what they promise: a frame is
   written, or one that was written and not handed out yet is handed out, or
   nothing that the owners see happens. *)
LEMMA DeliveryStep ==
  ASSUME AttemptTimeout = FALSE, TransportInv, [Next]_vars
  PROVE  [Promise!Next]_(Promise!vars)
<1> DEFINE taken == [r \in Peers |-> delivered[Other(r)]]
           takenNext == [r \in Peers |-> delivered'[Other(r)]]
<1>0. Typed /\ TypeOK /\ delivered \in [Peers -> Seq(Nat)] /\ written \in [Peers -> Nat]
  BY DEF TransportInv, Typed, TypeOK
<1>1. ASSUME NEW q \in Peers, WriteFrame(q) PROVE [Promise!Next]_(Promise!vars)
  <2>1. written' = [written EXCEPT ![q] = @ + 1] /\ UNCHANGED delivered
    BY <1>1 DEF WriteFrame
  <2>2. Promise!Send(q)
    BY <2>1 DEF Promise!Send
  <2> QED
    BY <2>2 DEF Promise!Next
<1>2. ASSUME NEW p \in Peers, ReadFrame(p) PROVE [Promise!Next]_(Promise!vars)
  <2> SUFFICES ASSUME NEW q \in Peers, q = Other(p)
               PROVE  [Promise!Next]_(Promise!vars)
    BY OtherPeer
  <2>1. p = Other(q) /\ p # q /\ \A r \in Peers : r = p \/ r = q
    BY OtherPeer
  <2>2. /\ phase[p] = "up" /\ UNCHANGED written
        /\ delivered' = [delivered EXCEPT ![p] = Append(@, Head(pipe[q]))]
        /\ pipe[q] # <<>> /\ pipe[q] \in Seq(Nat)
    BY <1>0, <1>2, BufferedFrames DEF ReadFrame, TypeOK
  <2>3. 1 \in 1 .. Len(pipe[q]) /\ Head(pipe[q]) = pipe[q][1]
    BY <2>2
  <2>4. /\ pipe[q][1] \in 1 .. written[q]
        /\ \A j \in 1 .. Len(delivered[p]) : delivered[p][j] # pipe[q][1]
    BY <2>1, <2>2, <2>3 DEF TransportInv, Direction, PipeInv
  <2>5. Head(pipe[q]) \in 1 .. written[q] /\ Head(pipe[q]) \notin Promise!Taken(q)
    BY <2>1, <2>3, <2>4 DEF Promise!Taken
  <2>6. takenNext = [taken EXCEPT ![q] = Append(@, Head(pipe[q]))]
    <3>1. takenNext[p] = taken[p]
      BY <1>0, <2>1, <2>2
    <3>2. takenNext[q] = Append(taken[q], Head(pipe[q]))
      BY <1>0, <2>1, <2>2
    <3> QED
      BY <2>1, <3>1, <3>2
  <2>7. Promise!HandOut(q)
    BY <2>2, <2>5, <2>6 DEF Promise!HandOut
  <2> QED
    BY <2>7 DEF Promise!Next
<1>3. CASE UNCHANGED <<written, delivered>>
  BY <1>3 DEF Promise!vars
<1>4. ASSUME NEW r \in Peers, Flush(r) \/ Detect(r) \/ Synchronize(r)
      PROVE  UNCHANGED <<written, delivered>>
  BY <1>4 DEF Flush, Detect, Synchronize, SyncStart, SyncStats, SyncResend, SyncResent,
              SyncRead, SyncDone, SyncFail
<1>5. CASE \/ Break \/ Silence \/ Reopen \/ SyncTimeout \/ Heartbeat
           \/ ReadHeartbeat \/ HandshakeTimeout \/ UNCHANGED vars
  BY <1>3, <1>5 DEF Break, Silence, Reopen, SyncTimeout, Heartbeat, ReadHeartbeat,
                    HandshakeTimeout, vars
<1> QED
  BY <1>1, <1>2, <1>3, <1>4, <1>5 DEF Next

(* Two transports with their backups and synchronize() implement the delivery
   their owners rely on: every frame that is handed out was written by the
   other peer and has not been handed out before. *)
THEOREM TransportsImplementDelivery ==
  ASSUME AttemptTimeout = FALSE
  PROVE  Spec => ImplementsDelivery
<1>1. Init => TransportInv
  BY TransportInit
<1>2. TransportInv /\ [Next]_vars => TransportInv'
  BY TransportStep
<1>3. Init => Promise!Init
  BY OtherPeer DEF Init, Promise!Init
<1>4. TransportInv /\ [Next]_vars => [Promise!Next]_(Promise!vars)
  BY DeliveryStep
<1> QED
  BY <1>1, <1>2, <1>3, <1>4, PTL DEF Spec, ImplementsDelivery, Promise!Spec

-----------------------------------------------------------------------------
(* What the first reconnect loses *)

\* Heartbeats that p has counted on the first link, and frames it has had there.
Heard(p) == IF p = Client THEN heard[0] ELSE 0
Had(p) == backup[p].received_cnt - Heard(p)

\* Frames of q that its reader claims to have because of the heartbeats.
Miscounted(q) ==
  LET p == Other(q) IN
  IF reopens = 1 /\ stats[p] # <<>>
  THEN stats[p][2] - Heard(p) + 1 .. stats[p][2]
  ELSE {}

\* Everything else q wrote was handed out, is on its way or is about to be sent
\* again.
Covered(q) ==
  \A f \in 1 .. written[q] :
    \/ f \in FramesOf(delivered[Other(q)]) \/ f \in FramesOf(pipe[q])
    \/ phase[q] = "resend" /\ f \in FramesOf(resend[q])
    \/ f \in Miscounted(q)

\* Before the first reconnect the received count of the reader is exact but for
\* the heartbeats, and what is on its way are the next frames.
FirstLink(q) ==
  LET p == Other(q) IN
  reopens = 0 =>
    /\ phase[q] \in {"up", "down"} /\ stats[p] = <<>>
    /\ Had(p) \in Nat
    /\ 1 .. Had(p) \subseteq FramesOf(delivered[p])
    /\ \A i \in 1 .. Len(pipe[q]) : pipe[q][i] = Had(p) + i
    /\ link = "up" => written[q] = Had(p) + Len(pipe[q])

\* What the reader claims to have in the first synchronize, it has, but for as
\* many frames as it heard heartbeats.
ClaimsAreTrue(q) ==
  LET p == Other(q) IN
  reopens = 1 =>
    /\ phase[p] = "opened" =>
         /\ stats[p] = <<>>
         /\ 1 .. Had(p) \subseteq FramesOf(delivered[p])
    /\ stats[p] # <<>> => 1 .. stats[p][2] - Heard(p) \subseteq FramesOf(delivered[p])

\* Until the writer has read them, it has kept everything it can.
AllKept(q) ==
  reopens = 0 \/ (reopens = 1 /\ phase[q] \in {"opened", "stats"}) =>
    /\ Suffix(backup[q], written[q])
    /\ written[q] <= MaxBackup => Len(backup[q].frames) = written[q]

AllCovered(q) ==
  /\ reopens <= 1 /\ written[q] <= MaxBackup
  /\ link = "up" /\ phase[q] \in {"resend", "recv", "up"}
  => Covered(q)

FirstReconnectInv ==
  \A q \in Peers : FirstLink(q) /\ ClaimsAreTrue(q) /\ AllKept(q) /\ AllCovered(q)

(* The frames of a sequence, as it grows, shrinks and is rotated. *)
LEMMA FramesOfAppend ==
  ASSUME NEW s \in Seq(Nat), NEW f \in Nat
  PROVE  FramesOf(Append(s, f)) = FramesOf(s) \union {f}
<1> DEFINE t == Append(s, f)
<1>1. /\ Len(t) = Len(s) + 1 /\ t[Len(s) + 1] = f /\ Len(s) \in Nat
      /\ \A i \in 1 .. Len(s) : t[i] = s[i]
  BY AppendProperties
<1>2. 1 .. Len(t) = (1 .. Len(s)) \union {Len(s) + 1}
  BY <1>1
<1> HIDE DEF t
<1>3. FramesOf(t) = FramesOf(s) \union {f}
  BY <1>1, <1>2 DEF FramesOf
<1> QED
  BY <1>3 DEF t

LEMMA FramesOfTail ==
  ASSUME NEW s \in Seq(Nat), s # <<>>
  PROVE  FramesOf(s) = {Head(s)} \union FramesOf(Tail(s))
<1> DEFINE t == Tail(s)
<1>1. /\ Len(s) \in Nat /\ Len(s) >= 1 /\ Len(t) = Len(s) - 1 /\ Head(s) = s[1]
      /\ \A i \in 1 .. Len(t) : t[i] = s[i + 1]
  <2>1. Len(s) \in Nat /\ Len(s) # 0
    BY EmptySeq
  <2> QED
    BY <2>1, HeadTailProperties
<1>2. /\ \A i \in 1 .. Len(t) : i + 1 \in 1 .. Len(s)
      /\ \A i \in 1 .. Len(s) : i = 1 \/ (i - 1 \in 1 .. Len(t) /\ (i - 1) + 1 = i)
      /\ 1 \in 1 .. Len(s)
  BY <1>1
<1> HIDE DEF t
<1>3. ASSUME NEW i \in 1 .. Len(s) PROVE s[i] \in {Head(s)} \union FramesOf(t)
  <2>1. CASE i = 1
    BY <1>1, <2>1
  <2>2. CASE i - 1 \in 1 .. Len(t) /\ (i - 1) + 1 = i
    <3>1. t[i - 1] = s[i]
      BY <1>1, <2>2
    <3> QED
      BY <2>2, <3>1 DEF FramesOf
  <2> QED
    BY <1>2, <2>1, <2>2
<1>4. \A i \in 1 .. Len(t) : t[i] \in FramesOf(s)
  BY <1>1, <1>2 DEF FramesOf
<1>5. Head(s) \in FramesOf(s)
  BY <1>1, <1>2 DEF FramesOf
<1>6. FramesOf(s) = {Head(s)} \union FramesOf(t)
  BY <1>3, <1>4, <1>5 DEF FramesOf
<1> QED
  BY <1>6 DEF t

LEMMA FramesOfRotated ==
  ASSUME NEW s \in Seq(Nat), NEW k \in 1 .. Len(s)
  PROVE  FramesOf(s) \subseteq FramesOf(Rotated(s, k))
<1> DEFINE t == Rotated(s, k)
<1>1. /\ Len(t) = Len(s) /\ Len(s) \in Nat
      /\ \A i \in 1 .. Len(s) :
           t[i] = IF i < k THEN s[i + 1] ELSE IF i = k THEN s[1] ELSE s[i]
  BY RotatedFrames
<1> HIDE DEF t
<1>2. ASSUME NEW i \in 1 .. Len(s) PROVE s[i] \in FramesOf(t)
  <2>1. CASE i = 1
    BY <1>1, <2>1 DEF FramesOf
  <2>2. CASE i # 1 /\ i <= k
    <3>1. i - 1 \in 1 .. Len(s) /\ i - 1 < k /\ (i - 1) + 1 = i
      BY <1>1, <2>2
    <3>2. t[i - 1] = s[i]
      BY <1>1, <3>1
    <3> QED
      BY <1>1, <3>1, <3>2 DEF FramesOf
  <2>3. CASE i # 1 /\ ~(i <= k)
    <3>1. t[i] = s[i]
      BY <1>1, <2>3
    <3> QED
      BY <1>1, <3>1 DEF FramesOf
  <2> QED
    BY <2>1, <2>2, <2>3
<1>3. FramesOf(s) \subseteq FramesOf(t)
  BY <1>2 DEF FramesOf
<1> QED
  BY <1>3 DEF t

-----------------------------------------------------------------------------
(* Every step keeps it *)

(* What an established connection and a new one do to what was handed out, to
   the stats and to a received count that has not been sent yet. *)
LEMMA SameAttempt ==
  ASSUME Typed, [Next]_vars, ~Reopen, ~HandshakeTimeout, NEW p \in Peers
  PROVE  /\ reopens' = reopens
         /\ reopens = 1 => Heard(p)' = Heard(p)
         /\ FramesOf(delivered[p]) \subseteq FramesOf(delivered'[p])
         /\ phase'[p] = "opened" => /\ phase[p] = "opened"
                                    /\ stats'[p] = stats[p]
                                    /\ backup'[p].received_cnt = backup[p].received_cnt
         /\ \/ stats'[p] = stats[p]
            \/ /\ phase[p] = "opened" /\ stats'[p][2] = backup[p].received_cnt
               /\ delivered'[p] = delivered[p]
<1> DEFINE Same == /\ reopens' = reopens
                   /\ FramesOf(delivered[p]) \subseteq FramesOf(delivered'[p])
                   /\ phase'[p] = "opened" =>
                        /\ phase[p] = "opened"
                        /\ stats'[p] = stats[p]
                        /\ backup'[p].received_cnt = backup[p].received_cnt
                   /\ \/ stats'[p] = stats[p]
                      \/ /\ phase[p] = "opened" /\ stats'[p][2] = backup[p].received_cnt
                         /\ delivered'[p] = delivered[p]
<1>0. /\ TypeOK /\ phase \in [Peers -> {"up", "down"} \union Syncing]
      /\ backup \in [Peers -> BackupType]
           /\ stats \in [Peers -> {<<>>} \union (Nat \X Nat \X Nat)]
      /\ delivered \in [Peers -> Seq(Nat)]
  BY DEF Typed, TypeOK
<1>1. ASSUME NEW r \in Peers, WriteFrame(r) PROVE Same
  <2>1. UNCHANGED <<delivered, stats, reopens>> /\ phase[r] = "up"
    BY <1>1 DEF WriteFrame, syncVars
  <2>2. phase'[p] = "opened" => phase[p] = "opened"
    BY <1>0, <1>1 DEF WriteFrame
  <2>3. backup'[p].received_cnt = backup[p].received_cnt
    BY <1>1, WriteFrameCounts
  <2> QED
    BY <2>1, <2>2, <2>3
<1>2. ASSUME NEW r \in Peers, ReadFrame(r) PROVE Same
  <2>1. UNCHANGED <<phase, stats, reopens>> /\ phase[r] = "up"
    BY <1>2 DEF ReadFrame, syncVars
  <2>2. p # r => backup'[p] = backup[p] /\ delivered'[p] = delivered[p]
    BY <1>0, <1>2 DEF ReadFrame
  <2>3. p = r => FramesOf(delivered[p]) \subseteq FramesOf(delivered'[p])
    <3> SUFFICES ASSUME p = r
                 PROVE  FramesOf(delivered[p]) \subseteq FramesOf(delivered'[p])
      OBVIOUS
    <3>1. PICK k \in Buffered(Other(p)) : TRUE
      BY <1>2 DEF ReadFrame
    <3>2. Other(p) \in Peers /\ pipe[Other(p)] # <<>>
      BY <1>0, OtherPeer, BufferedFrames
    <3>3. Head(pipe[Other(p)]) \in Nat
      <4>1. pipe[Other(p)] \in Seq(Nat)
        BY <1>0, <3>2 DEF TypeOK
      <4> QED
        BY <3>2, <4>1, HeadIsFrame
    <3>4. delivered'[p] = Append(delivered[p], Head(pipe[Other(p)]))
            /\ delivered[p] \in Seq(Nat)
      BY <1>0, <1>2 DEF ReadFrame
    <3> QED
      BY <3>3, <3>4, FramesOfAppend
  <2> QED
    BY <2>1, <2>2, <2>3
<1>3. ASSUME NEW r \in Peers, SyncStart(r) PROVE Same
  <2>1. UNCHANGED <<delivered, backup, reopens>> /\ phase[r] = "opened"
    BY <1>3 DEF SyncStart
  <2>2. phase'[p] = "opened" => phase[p] = "opened" /\ p # r
    BY <1>0, <1>3 DEF SyncStart
  <2>3. stats'[p] = IF p = r THEN <<backup[r].sent_cnt, backup[r].received_cnt,
                                    Len(backup[r].frames)>>
                    ELSE stats[p]
    BY <1>0, <1>3 DEF SyncStart
  <2> QED
    BY <2>1, <2>2, <2>3
<1>4. ASSUME NEW r \in Peers, SyncStats(r) \/ SyncDone(r) PROVE Same
  <2>1. UNCHANGED <<delivered, stats,
                    reopens>> /\ phase[r] # "opened" /\ phase'[r] # "opened"
    BY <1>0, <1>4 DEF SyncStats, SyncDone, syncVars
  <2>2. p # r => phase'[p] = phase[p] /\ backup'[p] = backup[p]
    BY <1>0, <1>4 DEF SyncStats, SyncDone
  <2> QED
    BY <2>1, <2>2
<1>5. ASSUME NEW r \in Peers, Flush(r) \/ SyncResend(r) \/ SyncRead(r) PROVE Same
  <2>1. UNCHANGED <<delivered, stats, reopens, backup, phase>>
    BY <1>5 DEF Flush, SyncResend, SyncRead, syncVars
  <2> QED
    BY <2>1
<1>6. ASSUME NEW r \in Peers, Detect(r) \/ SyncResent(r) \/ SyncFail(r) PROVE Same
  <2>1. UNCHANGED <<delivered, stats, reopens, backup>>
    BY <1>6 DEF Detect, SyncResent, SyncFail, syncVars
  <2>2. phase'[p] = "opened" => phase[p] = "opened"
    BY <1>0, <1>6 DEF Detect, SyncResent, SyncFail
  <2> QED
    BY <2>1, <2>2
<1>7. ASSUME Break \/ Silence \/ Heartbeat \/ UNCHANGED vars PROVE Same
  <2>1. UNCHANGED <<delivered, stats, reopens, backup>>
    BY <1>7 DEF Break, Silence, Heartbeat, vars, syncVars
  <2>2. phase'[p] = "opened" => phase[p] = "opened"
    BY <1>0, <1>7 DEF Break, Silence, Heartbeat, vars
  <2> QED
    BY <2>1, <2>2
<1>8. ASSUME SyncTimeout PROVE Same
  <2>1. UNCHANGED <<delivered, stats, reopens>> /\ phase'[Client] # "opened"
    BY <1>0, <1>8 DEF SyncTimeout, syncVars, Peers
  <2>2. p # Client => phase'[p] = phase[p] /\ backup'[p] = backup[p]
    BY <1>0, <1>8 DEF SyncTimeout
  <2> QED
    BY <2>1, <2>2
<1>9. ASSUME ReadHeartbeat PROVE Same
  <2>1. UNCHANGED <<delivered, stats, reopens, phase>> /\ phase[Client] = "up"
    BY <1>9 DEF ReadHeartbeat, syncVars
  <2>2. p # Client => backup'[p] = backup[p]
    BY <1>0, <1>9 DEF ReadHeartbeat
  <2> QED
    BY <2>1, <2>2
<1>10. reopens = 1 => heard'[0] = heard[0]
  <2> SUFFICES ASSUME reopens = 1 PROVE heard'[0] = heard[0]
    OBVIOUS
  <2>1. CASE ReadHeartbeat
    <3>1. heard' = [heard EXCEPT ![reopens] = @ + 1] /\ 0 # reopens
      BY <2>1 DEF ReadHeartbeat
    <3>2. 0 \in 0 .. MaxReopens /\ heard \in [0 .. MaxReopens -> Nat]
      BY <1>0, HeardTypes
    <3> QED
      BY <3>1, <3>2
  <2>2. CASE ~ReadHeartbeat
    <3>1. ASSUME NEW r \in Peers,
                 WriteFrame(r) \/ Flush(r) \/ ReadFrame(r) \/ Detect(r) \/ Synchronize(r)
          PROVE  UNCHANGED heard
      BY <3>1 DEF WriteFrame, Flush, ReadFrame, Detect, Synchronize, SyncStart,
                  SyncStats, SyncResend, SyncResent, SyncRead, SyncDone, SyncFail, beatVars
    <3>2. ASSUME Break \/ Silence \/ Heartbeat \/ SyncTimeout \/ UNCHANGED vars
          PROVE  UNCHANGED heard
      BY <3>2 DEF Break, Silence, Heartbeat, SyncTimeout, beatVars, vars
    <3> QED
      BY <2>2, <3>1, <3>2 DEF Next
  <2> QED
    BY <2>1, <2>2
<1> HIDE DEF Same
<1>11. Same
  <2>1. ASSUME NEW r \in Peers, Synchronize(r) PROVE Same
    BY <1>3, <1>4, <1>5, <1>6, <2>1 DEF Synchronize
  <2>2. ASSUME Next PROVE Same
    BY <1>1, <1>2, <1>5, <1>6, <1>7, <1>8, <1>9, <2>1, <2>2 DEF Next
  <2> QED
    BY <1>7, <2>2
<1> QED
  BY <1>11, <1>10 DEF Same, Heard

LEMMA ClaimsStep ==
  ASSUME Typed, FirstReconnectInv, [Next]_vars, NEW q \in Peers
  PROVE  ClaimsAreTrue(q)'
<1> SUFFICES ASSUME NEW p \in Peers, p = Other(q) PROVE ClaimsAreTrue(q)'
  BY OtherPeer
<1>0. FirstLink(q) /\ ClaimsAreTrue(q) /\ FirstLink(p) /\ q = Other(p)
  BY OtherPeer DEF FirstReconnectInv
<1> SUFFICES ASSUME reopens' = 1
             PROVE  /\ phase'[p] = "opened" =>
                         /\ stats'[p] = <<>>
                         /\ 1 .. Had(p)' \subseteq FramesOf(delivered'[p])
                    /\ stats'[p] # <<>> =>
                         1 .. stats'[p][2] - Heard(p)' \subseteq FramesOf(delivered'[p])
  BY DEF ClaimsAreTrue
<1>1. CASE Reopen
  <2>1. reopens = 0 /\ stats'[p] = <<>> /\ UNCHANGED <<delivered, heard>>
    BY <1>1 DEF Reopen, Typed, TypeOK
  <2>2. backup'[p] = backup[p]
    <3>1. /\ backup' = [backup EXCEPT ![Client] = ThroughReconnect(@)]
          /\ backup \in [Peers -> BackupType] /\ backup[Client] \in BackupType
          /\ backup[Client].frozen = FALSE
      BY <1>1 DEF Typed, TypeOK, NotFrozen, Reopen, Peers
    <3>2. ThroughReconnect(backup[Client]) = backup[Client]
      BY <3>1, ThroughReconnectIsIdentity
    <3> QED
      BY <3>1, <3>2
  <2>3. Had(p)' = Had(p)
    BY <2>1, <2>2 DEF Had, Heard
  <2> QED
    BY <1>0, <2>1, <2>3 DEF FirstLink
<1>2. CASE HandshakeTimeout
  <2>1. reopens = 0 /\ UNCHANGED <<stats, phase>>
    BY <1>2 DEF HandshakeTimeout, syncVars, Typed, TypeOK
  <2>2. phase[p] \in {"up", "down"} /\ stats[p] = <<>>
    BY <1>0, <2>1 DEF FirstLink
  <2> QED
    BY <2>1, <2>2
<1>3. CASE ~Reopen /\ ~HandshakeTimeout
  <2>1. /\ reopens' = reopens
        /\ reopens = 1 => Heard(p)' = Heard(p)
        /\ FramesOf(delivered[p]) \subseteq FramesOf(delivered'[p])
        /\ phase'[p] = "opened" => /\ phase[p] = "opened"
                                   /\ stats'[p] = stats[p]
                                   /\ backup'[p].received_cnt = backup[p].received_cnt
        /\ \/ stats'[p] = stats[p]
           \/ /\ phase[p] = "opened" /\ stats'[p][2] = backup[p].received_cnt
              /\ delivered'[p] = delivered[p]
    BY <1>3, SameAttempt
  <2>2. /\ phase[p] = "opened" => /\ stats[p] = <<>>
                                  /\ 1 .. Had(p) \subseteq FramesOf(delivered[p])
        /\ stats[p] # <<>> =>
             1 .. stats[p][2] - Heard(p) \subseteq FramesOf(delivered[p])
    BY <1>0, <2>1 DEF ClaimsAreTrue
  <2>3. Heard(p)' = Heard(p) /\ (phase'[p] = "opened" => Had(p)' = Had(p))
    BY <2>1 DEF Had
  <2>4. ASSUME phase'[p] = "opened"
        PROVE  stats'[p] = <<>> /\ 1 .. Had(p)' \subseteq FramesOf(delivered'[p])
    BY <2>1, <2>2, <2>3, <2>4
  <2>5. ASSUME stats'[p] # <<>>
        PROVE  1 .. stats'[p][2] - Heard(p)' \subseteq FramesOf(delivered'[p])
    <3>1. CASE stats'[p] = stats[p]
      BY <2>1, <2>2, <2>3, <2>5, <3>1
    <3>2. CASE /\ phase[p] = "opened" /\ stats'[p][2] = backup[p].received_cnt
               /\ delivered'[p] = delivered[p]
      BY <2>2, <2>3, <3>2 DEF Had
    <3> QED
      BY <2>1, <3>1, <3>2
  <2> QED
    BY <2>4, <2>5
<1> QED
  BY <1>1, <1>2, <1>3

(* On the first link nobody synchronizes. *)
LEMMA FirstLinkSteps ==
  ASSUME Typed, FirstReconnectInv, [Next]_vars, reopens = 0
  PROVE  \/ \E r \in Peers : WriteFrame(r) \/ Flush(r) \/ ReadFrame(r) \/ Detect(r)
         \/ Break \/ Reopen \/ Heartbeat \/ ReadHeartbeat \/ HandshakeTimeout
         \/ UNCHANGED vars
<1>1. \A r \in Peers : phase[r] \in {"up", "down"}
  BY DEF FirstReconnectInv, FirstLink
<1>2. \A r \in Peers : ~Synchronize(r)
  BY <1>1 DEF Synchronize, SyncStart, SyncStats, SyncResend, SyncResent, SyncRead,
              SyncDone, SyncFail, Syncing
<1>3. ~Silence /\ ~SyncTimeout
  BY <1>1 DEF Silence, SyncTimeout, Syncing, Peers
<1> QED
  BY <1>2, <1>3 DEF Next

LEMMA FirstLinkStep ==
  ASSUME Typed, FirstReconnectInv, [Next]_vars, NEW q \in Peers
  PROVE  FirstLink(q)'
<1> SUFFICES ASSUME NEW p \in Peers, p = Other(q), reopens' = 0 PROVE FirstLink(q)'
  BY OtherPeer DEF FirstLink
<1>0. /\ TypeOK /\ q = Other(p) /\ p # q /\ \A r \in Peers : r = q \/ r = p
  BY OtherPeer DEF Typed
<1>a. /\ phase \in [Peers -> {"up", "down"} \union Syncing]
      /\ backup \in [Peers -> BackupType] /\ pipe \in [Peers -> Seq(Nat)]
      /\ written \in [Peers -> Nat] /\ delivered \in [Peers -> Seq(Nat)]
      /\ pipe[q] \in Seq(Nat) /\ delivered[p] \in Seq(Nat) /\ reopens \in Nat
  BY <1>0 DEF TypeOK
<1>1. ~Reopen /\ ~HandshakeTimeout /\ reopens = 0
  <2>1. ~Reopen /\ ~HandshakeTimeout
    BY <1>a DEF Reopen, HandshakeTimeout
  <2> QED
    BY <2>1, SameAttempt
<1>2. /\ phase[q] \in {"up", "down"} /\ stats[p] = <<>>
      /\ Had(p) \in Nat
      /\ 1 .. Had(p) \subseteq FramesOf(delivered[p])
      /\ \A i \in 1 .. Len(pipe[q]) : pipe[q][i] = Had(p) + i
      /\ link = "up" => written[q] = Had(p) + Len(pipe[q])
  BY <1>1 DEF FirstReconnectInv, FirstLink
<1>b. written[q] \in Nat /\ Len(pipe[q]) \in Nat /\ Had(p) \in Nat
  BY <1>2, <1>a
<1>c. ASSUME UNCHANGED heard, backup'[p].received_cnt = backup[p].received_cnt
      PROVE  Had(p)' = Had(p)
  BY <1>c DEF Had, Heard
<1> DEFINE Exact ==
             /\ phase'[q] \in {"up", "down"} /\ stats'[p] = <<>>
             /\ Had(p)' \in Nat
             /\ 1 .. Had(p)' \subseteq FramesOf(delivered'[p])
             /\ \A i \in 1 .. Len(pipe'[q]) : pipe'[q][i] = Had(p)' + i
             /\ link' = "up" => written'[q] = Had(p)' + Len(pipe'[q])
<1> SUFFICES Exact
  BY DEF FirstLink
<1>3. ASSUME phase'[q] \in {"up", "down"},
             UNCHANGED <<stats, delivered, pipe, written>>,
             Had(p)' = Had(p), link' \in {link, "broken"}
      PROVE  Exact
  BY <1>2, <1>3
<1>4. ASSUME NEW r \in Peers, WriteFrame(r)
      PROVE  Exact
  <2>1. /\ UNCHANGED <<stats, delivered, link>> /\ phase'[q] \in {"up", "down"}
        /\ Had(p)' = Had(p)
    <3>1. /\ UNCHANGED <<stats, delivered, link, heard>>
          /\ phase'[q] \in {"up", "down"}
      BY <1>2, <1>4, <1>a DEF WriteFrame, syncVars, beatVars
    <3>2. backup'[p].received_cnt = backup[p].received_cnt
      BY <1>4, WriteFrameCounts
    <3> QED
      BY <1>c, <3>1, <3>2
  <2>2. CASE link = "up" /\ r = q
    <3>1. pipe'[q] = Append(pipe[q], written[q] + 1) /\ written'[q] = written[q] + 1
      BY <1>4, <1>a, <2>2 DEF WriteFrame
    <3>2. /\ Len(pipe'[q]) = Len(pipe[q]) + 1
          /\ \A i \in 1 .. Len(pipe[q]) : pipe'[q][i] = pipe[q][i]
          /\ pipe'[q][Len(pipe[q]) + 1] = written[q] + 1
      BY <1>a, <1>b, <3>1, AppendProperties
    <3>3. \A i \in 1 .. Len(pipe'[q]) : i \in 1 .. Len(pipe[q]) \/ i = Len(pipe[q]) + 1
      BY <1>b, <3>2
    <3>4. /\ written[q] + 1 = Had(p) + (Len(pipe[q]) + 1)
          /\ written'[q] = Had(p) + Len(pipe'[q])
      <4>1. \A a, b \in Nat : (a + b) + 1 = a + (b + 1)
        OBVIOUS
      <4>2. written[q] = Had(p) + Len(pipe[q])
        BY <1>2, <2>2
      <4> QED
        BY <1>b, <3>1, <3>2, <4>1, <4>2, Zenon
    <3>5. \A i \in 1 .. Len(pipe'[q]) : pipe'[q][i] = Had(p) + i
      BY <1>2, <3>2, <3>3, <3>4
    <3> QED
      BY <1>2, <2>1, <3>4, <3>5
  <2>3. CASE ~(link = "up" /\ r = q)
    <3>1. pipe'[q] = pipe[q] /\ (link = "up" => written'[q] = written[q])
      BY <1>0, <1>4, <1>a, <2>3 DEF WriteFrame
    <3> QED
      BY <1>2, <2>1, <3>1
  <2> QED
    BY <2>2, <2>3
<1>5. ASSUME NEW r \in Peers, ReadFrame(r)
      PROVE  Exact
  <2>1. UNCHANGED <<phase, stats, link, written, heard>>
    BY <1>5 DEF ReadFrame, syncVars, beatVars
  <2>2. CASE r = q
    <3>1. pipe'[q] = pipe[q] /\ delivered'[p] = delivered[p] /\ backup'[p] = backup[p]
      BY <1>0, <1>5, <1>a, <2>2 DEF ReadFrame
    <3>2. Had(p)' = Had(p)
      BY <1>c, <2>1, <3>1
    <3> QED
      BY <1>2, <2>1, <3>1, <3>2
  <2>3. CASE r = p
    <3>0. ReadFrame(p)
      BY <1>5, <2>3
    <3>1. /\ pipe[q] # <<>> /\ pipe'[q] = Tail(pipe[q])
          /\ delivered'[p] = Append(delivered[p], Head(pipe[q]))
          /\ backup'[p] = IncrementReceivedCnt(backup[p])
      <4>1. pipe[q] # <<>>
        BY <1>0, <3>0, BufferedFrames DEF ReadFrame
      <4> QED
        BY <1>0, <1>a, <3>0, <4>1 DEF ReadFrame
    <3>2. Had(p)' = Had(p) + 1
      <4>1. backup[p] \in BackupType /\ backup[p].frozen = FALSE
        BY <1>a DEF Typed, NotFrozen
      <4>2. backup'[p].received_cnt = backup[p].received_cnt + 1
        BY <3>1, <4>1, IncrementReceivedCntEffect
      <4>3. backup[p].received_cnt \in Nat /\ Heard(p)' = Heard(p) /\ Heard(p) \in Nat
        <5>1. heard[0] \in Nat
          BY <1>0, HeardTypes
        <5> QED
          BY <2>1, <4>1, <5>1 DEF BackupType, Heard
      <4> QED
        BY <4>2, <4>3 DEF Had
    <3>3. /\ Len(pipe[q]) >= 1 /\ Len(pipe'[q]) = Len(pipe[q]) - 1
          /\ Head(pipe[q]) = pipe[q][1]
          /\ \A i \in 1 .. Len(pipe'[q]) : pipe'[q][i] = pipe[q][i + 1]
      <4>1. Len(pipe[q]) # 0
        BY <1>a, <3>1, EmptySeq
      <4> QED
        BY <1>a, <1>b, <3>1, <4>1, HeadTailProperties
    <3>4. /\ 1 \in 1 .. Len(pipe[q])
          /\ \A i \in 1 .. Len(pipe'[q]) : i + 1 \in 1 .. Len(pipe[q])
      BY <1>b, <3>3
    <3>5. Head(pipe[q]) = Had(p) + 1
      BY <1>2, <3>3, <3>4
    <3>6. FramesOf(delivered'[p]) =
            FramesOf(delivered[p]) \union {Had(p) + 1}
      <4>1. Had(p) + 1 \in Nat
        BY <1>b
      <4> QED
        BY <1>a, <3>1, <3>5, <4>1, FramesOfAppend
    <3>7. \A f \in 1 .. Had(p) + 1 :
            f \in 1 .. Had(p) \/ f = Had(p) + 1
      BY <1>b
    <3>8. 1 .. Had(p)' \subseteq FramesOf(delivered'[p])
      BY <1>2, <3>2, <3>6, <3>7
    <3>9. \A i \in 1 .. Len(pipe'[q]) : pipe'[q][i] = Had(p)' + i
      <4> SUFFICES ASSUME NEW i \in 1 .. Len(pipe'[q])
                   PROVE  pipe'[q][i] = Had(p)' + i
        OBVIOUS
      <4>1. pipe'[q][i] = Had(p) + (i + 1)
        BY <1>2, <3>3, <3>4
      <4> QED
        BY <1>b, <3>2, <4>1
    <3>10. link' = "up" => written'[q] = Had(p)' + Len(pipe'[q])
      <4>1. \A a, b \in Nat : a + b = (a + 1) + (b - 1)
        OBVIOUS
      <4>2. written'[q] = written[q] /\ link' = link
        BY <2>1
      <4>3. /\ link = "up" => written[q] = Had(p) + Len(pipe[q])
            /\ Len(pipe'[q]) = Len(pipe[q]) - 1
        BY <1>2, <3>3
      <4> QED
        BY <1>b, <3>2, <4>1, <4>2, <4>3, Zenon
    <3>11. Had(p)' \in Nat
      BY <1>b, <3>2
    <3> QED
      BY <1>2, <2>1, <3>8, <3>9, <3>10, <3>11
  <2> QED
    BY <1>0, <2>2, <2>3
<1>6. ASSUME NEW r \in Peers, Flush(r) \/ Detect(r)
      PROVE  Exact
  <2>1. UNCHANGED <<stats, delivered, pipe, written, backup, link, heard>>
    BY <1>6 DEF Flush, Detect, syncVars, beatVars
  <2>2. phase'[q] \in {"up", "down"}
    BY <1>2, <1>6, <1>a DEF Flush, Detect
  <2> QED
    BY <1>3, <1>c, <2>1, <2>2
<1>7. ASSUME Break PROVE Exact
  <2>1. UNCHANGED <<stats, delivered, written, backup, phase, heard>>
        /\ link' = "broken"
    BY <1>7 DEF Break, syncVars
  <2>2. PICK m \in [Peers -> 0 .. LinkCap] :
          /\ m[q] <= onwire[q]
          /\ pipe'[q] = SubSeq(pipe[q], 1, inbuf[q] + m[q])
    BY <1>7 DEF Break
  <2>3. inbuf[q] + m[q] \in 0 .. Len(pipe[q])
    <3>1. inbuf[q] \in Nat /\ onwire[q] \in Nat /\ inbuf[q] + onwire[q] <= Len(pipe[q])
      BY <1>0 DEF TypeOK
    <3>2. m[q] \in Nat
      BY BoundsAreNaturals
    <3> QED
      BY <1>b, <2>2, <3>1, <3>2
  <2>4. \A i \in 1 .. Len(pipe'[q]) : pipe'[q][i] = pipe[q][i]
          /\ i \in 1 .. Len(pipe[q])
    <3> DEFINE n == inbuf[q] + m[q]
    <3>1. n \in 0 .. Len(pipe[q]) /\ pipe'[q] = SubSeq(pipe[q], 1, n)
            /\ pipe[q] \in Seq(Nat)
      BY <1>a, <2>2, <2>3
    <3> HIDE DEF n
    <3> QED
      BY <3>1
  <2>5. Had(p)' = Had(p)
    BY <1>c, <2>1
  <2> QED
    BY <1>2, <2>1, <2>4, <2>5
<1>8. ASSUME Heartbeat \/ UNCHANGED vars PROVE Exact
  <2>1. UNCHANGED <<stats, delivered, pipe, written, backup, link, heard, phase>>
    BY <1>8 DEF Heartbeat, syncVars, vars
  <2> QED
    BY <1>2, <1>3, <1>c, <2>1
<1>9. ASSUME ReadHeartbeat PROVE Exact
  <2>1. /\ UNCHANGED <<stats, delivered, pipe, written, link, phase>>
        /\ heard' = [heard EXCEPT ![0] = @ + 1]
        /\ backup'[p].received_cnt = backup[p].received_cnt +
                                       (IF p = Client THEN 1 ELSE 0)
    BY <1>1, <1>9, HeartbeatCounts DEF ReadHeartbeat
  <2>2. /\ heard'[0] = heard[0] + 1 /\ heard[0] \in Nat
        /\ backup[p].received_cnt \in Nat
    <3>1. 0 \in 0 .. MaxReopens /\ heard \in [0 .. MaxReopens -> Nat]
      BY <1>0, HeardTypes
    <3>2. backup[p] \in BackupType
      BY <1>a
    <3> QED
      BY <2>1, <3>1, <3>2 DEF BackupType
  <2>3. Had(p)' = Had(p)
    BY <2>1, <2>2 DEF Had, Heard
  <2> QED
    BY <1>2, <1>3, <2>1, <2>3
<1> HIDE DEF Exact
<1> QED
  BY <1>1, <1>4, <1>5, <1>6, <1>7, <1>8, <1>9, FirstLinkSteps

(* Before the writer has read the first claims, nothing leaves its backup. *)
LEMMA AllKeptStep ==
  ASSUME Typed, FirstReconnectInv, [Next]_vars, NEW q \in Peers
  PROVE  AllKept(q)'
<1> DEFINE Whole == /\ Suffix(backup'[q], written'[q])
                    /\ written'[q] <= MaxBackup => Len(backup'[q].frames) = written'[q]
<1> SUFFICES ASSUME reopens' = 0 \/ (reopens' = 1 /\ phase'[q] \in {"opened", "stats"})
             PROVE  Whole
  BY DEF AllKept
<1>0. /\ TypeOK /\ phase \in [Peers -> {"up", "down"} \union Syncing]
      /\ backup \in [Peers -> BackupType] /\ written \in [Peers -> Nat]
      /\ backup[q] \in BackupType /\ backup[q].frozen = FALSE /\ written[q] \in Nat
      /\ reopens \in Nat
  BY DEF Typed, TypeOK, NotFrozen
<1>a. reopens = 0 => phase[q] \in {"up", "down"}
  BY DEF FirstReconnectInv, FirstLink
<1>b. AllKept(q)
  BY DEF FirstReconnectInv
<1>c. ASSUME UNCHANGED written, backup'[q].frames = backup[q].frames,
             backup'[q].sent_cnt = backup[q].sent_cnt,
             reopens = 0 \/ (reopens = 1 /\ phase[q] \in {"opened", "stats"})
      PROVE  Whole
  <2>1. /\ Suffix(backup[q], written[q])
        /\ written[q] <= MaxBackup => Len(backup[q].frames) = written[q]
    BY <1>b, <1>c DEF AllKept
  <2>2. Suffix(backup'[q], written[q])
    BY <1>c, <2>1, SameFramesSameSuffix
  <2> QED
    BY <1>c, <2>1, <2>2
<1>1. ASSUME Reopen PROVE Whole
  <2>1. UNCHANGED written /\ reopens = 0
    BY <1>0, <1>1 DEF Reopen
  <2>2. backup'[q] = backup[q]
    <3>1. /\ backup' = [backup EXCEPT ![Client] = ThroughReconnect(@)]
          /\ backup[Client] \in BackupType /\ backup[Client].frozen = FALSE
      BY <1>0, <1>1 DEF Typed, NotFrozen, Reopen, Peers
    <3>2. ThroughReconnect(backup[Client]) = backup[Client]
      BY <3>1, ThroughReconnectIsIdentity
    <3> QED
      BY <1>0, <3>1, <3>2
  <2> QED
    BY <1>c, <2>1, <2>2
<1>2. ASSUME HandshakeTimeout PROVE Whole
  <2>1. UNCHANGED phase /\ reopens' = reopens + 1
    BY <1>2 DEF HandshakeTimeout
  <2>2. reopens = 0 /\ phase[q] \in {"opened", "stats"}
    BY <1>0, <2>1
  <2> QED
    BY <1>a, <2>2
<1>d. ASSUME ~Reopen, ~HandshakeTimeout PROVE Whole
  <2>a. reopens' = reopens
    BY <1>d, SameAttempt
  <2>1. ASSUME NEW r \in Peers, WriteFrame(r)
        PROVE  Whole
    <3>1. CASE r # q
      <4>1. backup'[q] = backup[q] /\ written'[q] = written[q]
        BY <1>0, <2>1, <3>1 DEF WriteFrame
      <4>2. reopens = 0 \/ (reopens = 1 /\ phase[q] \in {"opened", "stats"})
        BY <1>0, <2>1, <2>a DEF WriteFrame
      <4> QED
        BY <1>b, <4>1, <4>2 DEF AllKept
    <3>2. CASE r = q
      <4>1. reopens = 0
        <5>1. phase[q] = "up" /\ phase'[q] \in {"up", "down"}
          BY <1>0, <2>1, <3>2 DEF WriteFrame
        <5> QED
          BY <2>a, <5>1
      <4>2. /\ Suffix(backup[q], written[q])
            /\ written[q] <= MaxBackup => Len(backup[q].frames) = written[q]
        BY <1>b, <4>1 DEF AllKept
      <4>3. /\ backup'[q] = PushFrame(IncrementSentCnt(backup[q]), written[q] + 1)
            /\ written'[q] = written[q] + 1
        BY <1>0, <2>1, <3>2 DEF WriteFrame
      <4>4. Suffix(backup'[q], written'[q])
        BY <1>0, <4>2, <4>3, WriteKeepsSuffix
      <4>5. ASSUME written'[q] <= MaxBackup PROVE Len(backup'[q].frames) = written'[q]
        <5>1. MaxBackup \in Nat /\ written[q] + 1 <= MaxBackup
          BY <4>3, <4>5, BoundsAreNaturals
        <5>2. MaxBackup > 0 /\ written[q] <= MaxBackup /\ written[q] + 1 \in Nat
          BY <1>0, <5>1
        <5>3. /\ IncrementSentCnt(backup[q]) \in BackupType
              /\ IncrementSentCnt(backup[q]).frozen = FALSE
              /\ IncrementSentCnt(backup[q]).frames = backup[q].frames
          BY <1>0, IncrementSentCntEffect
        <5> DEFINE fs == Append(backup[q].frames, written[q] + 1)
        <5>4. backup'[q].frames = Newest(fs, MaxBackup)
          BY <4>3, <5>2, <5>3, PushFrameEffect
        <5>5. fs \in Seq(Nat) /\ Len(fs) = written[q] + 1
          <6>1. backup[q].frames \in Seq(Nat) /\ Len(backup[q].frames) = written[q]
            BY <1>0, <4>2, <5>2 DEF BackupType
          <6> QED
            BY <5>2, <6>1, AppendProperties
        <5> HIDE DEF fs
        <5>6. Len(Newest(fs, MaxBackup)) = Min(Len(fs), MaxBackup)
          BY <5>1, <5>5, NewestFrames
        <5>7. Min(written[q] + 1, MaxBackup) = written[q] + 1
          BY <5>1 DEF Min
        <5> QED
          BY <4>3, <5>4, <5>5, <5>6, <5>7
      <4> QED
        BY <4>4, <4>5
    <3> QED
      BY <3>1, <3>2
  <2>2. ASSUME NEW r \in Peers, ReadFrame(r)
        PROVE  Whole
    <3>1. UNCHANGED <<written, phase>>
      BY <2>2 DEF ReadFrame
    <3>2. backup'[q].frames = backup[q].frames
            /\ backup'[q].sent_cnt = backup[q].sent_cnt
      <4>1. backup'[q] = IF q = r THEN IncrementReceivedCnt(backup[q]) ELSE backup[q]
        BY <1>0, <2>2 DEF ReadFrame
      <4> QED
        BY <1>0, <4>1, IncrementReceivedCntEffect
    <3> QED
      BY <1>c, <2>a, <3>1, <3>2
  <2>3. ASSUME NEW r \in Peers,
               Flush(r) \/ Detect(r) \/ SyncStart(r) \/ SyncResend(r) \/ SyncResent(r)
                 \/ SyncRead(r) \/ SyncFail(r)
        PROVE  Whole
    <3>1. UNCHANGED <<written, backup>>
      BY <2>3 DEF Flush, Detect, SyncStart, SyncResend, SyncResent, SyncRead, SyncFail
    <3>2. phase'[q] \in {"opened", "stats"} => phase[q] \in {"opened", "stats"}
      BY <1>0, <2>3
         DEF Flush, Detect, SyncStart, SyncResend, SyncResent, SyncRead, SyncFail
    <3> QED
      BY <1>c, <2>a, <3>1, <3>2
  <2>4. ASSUME NEW r \in Peers, SyncStats(r) \/ SyncDone(r)
        PROVE  Whole
    <3>1. UNCHANGED written /\ phase[r] \notin {"up", "down"}
          /\ phase'[r] \notin {"opened", "stats"}
      BY <1>0, <2>4 DEF SyncStats, SyncDone
    <3>2. r # q
      BY <1>a, <2>a, <3>1
    <3>3. phase'[q] = phase[q] /\ backup'[q] = backup[q]
      BY <1>0, <2>4, <3>2 DEF SyncStats, SyncDone
    <3> QED
      BY <1>c, <2>a, <3>1, <3>3
  <2>5. ASSUME Break \/ Silence \/ Heartbeat \/ UNCHANGED vars
        PROVE  Whole
    <3>1. UNCHANGED <<written, backup>>
      BY <2>5 DEF Break, Silence, Heartbeat, vars
    <3>2. phase'[q] \in {"opened", "stats"} => phase[q] \in {"opened", "stats"}
      BY <1>0, <2>5 DEF Break, Silence, Heartbeat, vars
    <3> QED
      BY <1>c, <2>a, <3>1, <3>2
  <2>6. ASSUME SyncTimeout
        PROVE  Whole
    <3>1. UNCHANGED written /\ phase[Client] \notin {"up", "down"}
            /\ phase'[Client] = "down"
      BY <1>0, <2>6 DEF SyncTimeout, Peers
    <3>2. Client # q
      BY <1>a, <2>a, <3>1
    <3>3. phase'[q] = phase[q] /\ backup'[q] = backup[q]
      BY <1>0, <2>6, <3>2 DEF SyncTimeout
    <3> QED
      BY <1>c, <2>a, <3>1, <3>3
  <2>7. ASSUME NEW r \in Peers, Synchronize(r)
        PROVE  Whole
    BY <2>3, <2>4, <2>7 DEF Synchronize
  <2>8. ASSUME ReadHeartbeat
        PROVE  Whole
    <3>1. /\ UNCHANGED <<written, phase>> /\ backup'[q].frames = backup[q].frames
          /\ backup'[q].sent_cnt = backup[q].sent_cnt
      BY <2>8, HeartbeatCounts
    <3> QED
      BY <1>c, <2>a, <3>1
  <2> HIDE DEF Whole
  <2> QED
    BY <1>d, <2>1, <2>2, <2>3, <2>5, <2>6, <2>7, <2>8 DEF Next
<1> QED
  BY <1>1, <1>2, <1>d

(* The frames that are sent again are the ones the reader does not claim. *)
LEMMA ResentFramesCover ==
  ASSUME NEW fs \in Seq(Nat), NEW n \in Nat, NEW r \in Nat, Len(fs) = n,
         \A i \in 1 .. Len(fs) : fs[i] = n - Len(fs) + i,
         NEW f \in 1 .. n
  PROVE  f \in 1 .. r \/ f \in FramesOf(Newest(fs, Min(SaturatingSub(n, r), Len(fs))))
<1>1. CASE f <= r
  BY <1>1
<1>2. CASE ~(f <= r)
  <2>1. SaturatingSub(n, r) = n - r /\ Min(SaturatingSub(n, r), Len(fs)) = n - r
        /\ n - r \in Nat
    BY <1>2 DEF SaturatingSub, Min
  <2> DEFINE g == Newest(fs, n - r)
  <2>2. /\ Len(g) = Min(Len(fs), n - r)
        /\ \A i \in 1 .. Len(g) : g[i] = fs[Len(fs) - Len(g) + i]
    BY <2>1, NewestFrames
  <2> HIDE DEF g
  <2>3. Len(g) = n - r
    BY <2>1, <2>2 DEF Min
  <2>4. /\ f - r \in 1 .. Len(g) /\ Len(fs) - Len(g) + (f - r) = f /\ f \in 1 .. Len(fs)
    BY <1>2, <2>1, <2>3
  <2>5. g[f - r] = fs[f] /\ fs[f] = f
    BY <2>2, <2>4
  <2>6. f \in FramesOf(g)
    BY <2>4, <2>5 DEF FramesOf
  <2> QED
    BY <2>1, <2>6 DEF g
<1> QED
  BY <1>1, <1>2

(* No step takes a frame out of sight. *)
LEMMA AllCoveredStep ==
  ASSUME Typed, LinkInv, FirstReconnectInv, [Next]_vars, NEW q \in Peers
  PROVE  AllCovered(q)'
<1> SUFFICES ASSUME reopens' <= 1, written'[q] <= MaxBackup, link' = "up",
                    phase'[q] \in {"resend", "recv", "up"},
                    NEW p \in Peers, p = Other(q)
             PROVE  Covered(q)'
  BY OtherPeer DEF AllCovered
<1>0. /\ TypeOK /\ q = Other(p) /\ p # q /\ \A r \in Peers : r = q \/ r = p
  BY OtherPeer DEF Typed
<1>a. /\ phase \in [Peers -> {"up", "down"} \union Syncing]
      /\ backup \in [Peers -> BackupType] /\ pipe \in [Peers -> Seq(Nat)]
      /\ written \in [Peers -> Nat] /\ delivered \in [Peers -> Seq(Nat)]
      /\ resend \in [Peers -> Seq(Nat)]
      /\ pipe[q] \in Seq(Nat) /\ delivered[p] \in Seq(Nat) /\ resend[q] \in Seq(Nat)
      /\ written[q] \in Nat /\ reopens \in Nat /\ link \in {"up", "broken"}
  BY <1>0 DEF TypeOK
<1>b. ~Reopen /\ ~HandshakeTimeout /\ reopens' = reopens
  <2>1. ~Reopen
    BY <1>0 DEF Reopen
  <2>2. ~HandshakeTimeout
    BY DEF HandshakeTimeout, LinkInv, Peers
  <2> QED
    BY <2>1, <2>2, SameAttempt
<1>c. AllCovered(q) /\ AllKept(q) /\ ClaimsAreTrue(q) /\ FirstLink(q)
  BY DEF FirstReconnectInv
<1>m. Miscounted(q) \subseteq Miscounted(q)'
  <2>1. /\ reopens = 1 => Heard(p)' = Heard(p)
        /\ \/ stats'[p] = stats[p]
           \/ phase[p] = "opened"
    BY <1>b, SameAttempt
  <2>2. reopens = 1 /\ phase[p] = "opened" => stats[p] = <<>>
    BY <1>c DEF ClaimsAreTrue
  <2> QED
    BY <1>0, <1>b, <2>1, <2>2 DEF Miscounted
<1>d. ASSUME written[q] <= MaxBackup, link = "up", phase[q] \in {"resend", "recv", "up"}
      PROVE  \A f \in 1 .. written[q] :
               \/ f \in FramesOf(delivered[p]) \/ f \in FramesOf(pipe[q])
               \/ phase[q] = "resend" /\ f \in FramesOf(resend[q])
               \/ f \in Miscounted(q)
  BY <1>0, <1>b, <1>c, <1>d DEF AllCovered, Covered
<1> SUFFICES ASSUME NEW f \in 1 .. written'[q]
             PROVE  \/ f \in FramesOf(delivered'[p]) \/ f \in FramesOf(pipe'[q])
                    \/ phase'[q] = "resend" /\ f \in FramesOf(resend'[q])
                    \/ f \in Miscounted(q)'
  BY <1>0 DEF Covered
<1> DEFINE Here == \/ f \in FramesOf(delivered'[p]) \/ f \in FramesOf(pipe'[q])
                   \/ phase'[q] = "resend" /\ f \in FramesOf(resend'[q])
                   \/ f \in Miscounted(q)'
<1>e. ASSUME link' = link, phase'[q] = phase[q], written'[q] = written[q],
             pipe'[q] = pipe[q], delivered'[p] = delivered[p], resend'[q] = resend[q]
      PROVE  Here
  BY <1>d, <1>e, <1>m
<1>1. ASSUME NEW r \in Peers, WriteFrame(r) PROVE Here
  <2>1. link = "up" /\ UNCHANGED <<link, phase, delivered, resend>>
    BY <1>1 DEF WriteFrame, syncVars
  <2>2. CASE r = p
    <3>1. pipe'[q] = pipe[q] /\ written'[q] = written[q]
      BY <1>0, <1>1, <1>a, <2>1, <2>2 DEF WriteFrame
    <3> QED
      BY <1>e, <2>1, <3>1
  <2>3. CASE r = q
    <3>1. pipe'[q] = Append(pipe[q], written[q] + 1) /\ written'[q] = written[q] + 1
      BY <1>1, <1>a, <2>1, <2>3 DEF WriteFrame
    <3>2. written[q] + 1 \in Nat /\ written[q] <= MaxBackup
          /\ (f \in 1 .. written[q] \/ f = written[q] + 1)
      <4>1. \A n, m \in Nat : n + 1 \in Nat /\ (n + 1 <= m => n <= m)
        OBVIOUS
      <4>2. \A n \in Nat : \A g \in 1 .. n + 1 : g \in 1 .. n \/ g = n + 1
        OBVIOUS
      <4>3. written[q] \in Nat /\ MaxBackup \in Nat /\ written[q] + 1 <= MaxBackup
            /\ f \in 1 .. written[q] + 1
        BY <1>a, <3>1, BoundsAreNaturals
      <4> QED
        BY <4>1, <4>2, <4>3, Zenon
    <3>3. FramesOf(pipe'[q]) = FramesOf(pipe[q]) \union {written[q] + 1}
      BY <1>a, <3>1, <3>2, FramesOfAppend
    <3> QED
      BY <1>d, <1>m, <2>1, <3>2, <3>3
  <2> QED
    BY <1>0, <2>2, <2>3
<1>2. ASSUME NEW r \in Peers, ReadFrame(r) PROVE Here
  <2>1. UNCHANGED <<link, phase, written, resend>>
    BY <1>2 DEF ReadFrame, syncVars
  <2>2. CASE r = q
    <3>1. pipe'[q] = pipe[q] /\ delivered'[p] = delivered[p]
      BY <1>0, <1>2, <1>a, <2>2 DEF ReadFrame
    <3> QED
      BY <1>e, <2>1, <3>1
  <2>3. CASE r = p
    <3>0. ReadFrame(p)
      BY <1>2, <2>3
    <3>1. pipe[q] # <<>>
      BY <1>0, <3>0, BufferedFrames DEF ReadFrame
    <3>2. pipe'[q] = Tail(pipe[q])
            /\ delivered'[p] = Append(delivered[p], Head(pipe[q]))
      BY <1>0, <1>a, <3>0 DEF ReadFrame
    <3>3. Head(pipe[q]) \in Nat
      BY <1>a, <3>1, HeadIsFrame
    <3>4. /\ FramesOf(delivered'[p]) = FramesOf(delivered[p]) \union {Head(pipe[q])}
          /\ FramesOf(pipe[q]) = {Head(pipe[q])} \union FramesOf(pipe'[q])
      BY <1>a, <3>1, <3>2, <3>3, FramesOfAppend, FramesOfTail
    <3>5. \/ f \in FramesOf(delivered[p]) \/ f \in FramesOf(pipe[q])
          \/ phase[q] = "resend" /\ f \in FramesOf(resend[q])
          \/ f \in Miscounted(q)'
      BY <1>d, <1>m, <2>1
    <3> QED
      BY <2>1, <3>4, <3>5
  <2> QED
    BY <1>0, <2>2, <2>3
<1>3. ASSUME NEW r \in Peers, SyncStats(r) PROVE Here
  <2>1. UNCHANGED <<link, written, pipe, delivered>>
    BY <1>3 DEF SyncStats
  <2>2. CASE r = p
    <3>1. phase'[q] = phase[q] /\ resend'[q] = resend[q]
      BY <1>0, <1>3, <1>a, <2>2 DEF SyncStats
    <3> QED
      BY <1>e, <2>1, <3>1
  <2>3. CASE r = q
    <3>0. SyncStats(q)
      BY <1>3, <2>3
    <3>1. /\ phase[q] = "stats" /\ phase'[q] = "resend" /\ stats[p] # <<>>
          /\ backup'[q] = TruncateFront(backup[q], ResendCnt(q))
          /\ resend'[q] = backup'[q].frames
      BY <1>0, <1>a, <3>0 DEF SyncStats
    <3>2. reopens = 1
      <4>1. reopens # 0
        BY <1>c, <3>1 DEF FirstLink
      <4>2. reopens <= 1 /\ reopens \in Nat
        <5>1. reopens' = reopens
          BY <1>b
        <5> QED
          BY <1>a, <5>1
      <4> QED
        BY <4>1, <4>2
    <3>3. /\ Suffix(backup[q], written[q]) /\ Len(backup[q].frames) = written[q]
          /\ 1 .. stats[p][2] - Heard(p) \subseteq FramesOf(delivered[p])
      BY <1>0, <1>c, <2>1, <3>1, <3>2 DEF AllKept, ClaimsAreTrue
    <3>4. /\ backup[q] \in BackupType /\ backup[q].frozen = FALSE /\ stats[p][2] \in Nat
          /\ ResendCnt(q) \in Nat
      BY <1>0, <1>a, <3>1, StatsFields, CountsAreNatural DEF Typed, NotFrozen
    <3>5. resend'[q] = Newest(backup[q].frames, ResendCnt(q))
      <4>1. \A b \in BackupType, k \in Nat :
              b.frozen = FALSE => TruncateFront(b, k).frames = Newest(b.frames, k)
        BY TruncateFrontEffect
      <4> QED
        BY <3>1, <3>4, <4>1
    <3>6. ResendCnt(q) = Min(SaturatingSub(written[q], stats[p][2]),
            Len(backup[q].frames))
      BY <1>0, <3>3 DEF ResendCnt, Suffix
    <3>7. f \in 1 .. stats[p][2] \/ f \in FramesOf(resend'[q])
      <4> DEFINE fs == backup[q].frames
      <4>1. /\ fs \in Seq(Nat) /\ Len(fs) = written[q]
            /\ \A i \in 1 .. Len(fs) : fs[i] = written[q] - Len(fs) + i
        BY <3>3, <3>4 DEF BackupType, Suffix
      <4>2. f \in 1 .. written[q]
        BY <2>1
      <4> HIDE DEF fs
      <4>3. \/ f \in 1 .. stats[p][2]
            \/ f \in FramesOf(Newest(fs,
                 Min(SaturatingSub(written[q], stats[p][2]), Len(fs))))
        BY <1>a, <3>4, <4>1, <4>2, ResentFramesCover
      <4> QED
        BY <3>5, <3>6, <4>3 DEF fs
    <3>8. ASSUME f \in 1 .. stats[p][2]
          PROVE  f \in 1 .. stats[p][2] - Heard(p) \/ f \in Miscounted(q)
      <4>1. Heard(p) \in Nat
        <5>1. heard[0] \in Nat
          BY <1>0, HeardTypes
        <5> QED
          BY <5>1 DEF Heard
      <4>2. Miscounted(q) = stats[p][2] - Heard(p) + 1 .. stats[p][2]
        BY <3>1, <3>2 DEF Miscounted
      <4> QED
        BY <3>4, <3>8, <4>1, <4>2
    <3> QED
      BY <1>m, <2>1, <3>1, <3>3, <3>7, <3>8
  <2> QED
    BY <1>0, <2>2, <2>3
<1>4. ASSUME NEW r \in Peers, SyncResend(r) PROVE Here
  <2>1. UNCHANGED <<link, phase, written, delivered>> /\ link = "up"
    BY <1>4 DEF SyncResend
  <2>2. CASE r = p
    <3>1. pipe'[q] = pipe[q] /\ resend'[q] = resend[q]
      BY <1>0, <1>4, <1>a, <2>2 DEF SyncResend
    <3> QED
      BY <1>e, <2>1, <3>1
  <2>3. CASE r = q
    <3>1. /\ resend[q] # <<>> /\ resend'[q] = Tail(resend[q])
          /\ pipe'[q] = Append(pipe[q], Head(resend[q]))
      BY <1>4, <1>a, <2>1, <2>3 DEF SyncResend
    <3>2. Head(resend[q]) \in Nat
      BY <1>a, <3>1, HeadIsFrame
    <3>3. /\ FramesOf(pipe'[q]) = FramesOf(pipe[q]) \union {Head(resend[q])}
          /\ FramesOf(resend[q]) = {Head(resend[q])} \union FramesOf(resend'[q])
      BY <1>a, <3>1, <3>2, FramesOfAppend, FramesOfTail
    <3>4. \/ f \in FramesOf(delivered[p]) \/ f \in FramesOf(pipe[q])
          \/ phase[q] = "resend" /\ f \in FramesOf(resend[q])
          \/ f \in Miscounted(q)'
      BY <1>d, <1>m, <2>1
    <3> QED
      BY <2>1, <3>3, <3>4
  <2> QED
    BY <1>0, <2>2, <2>3
<1>5. ASSUME NEW r \in Peers, SyncRead(r) PROVE Here
  <2>1. UNCHANGED <<link, phase, written, delivered, resend>>
    BY <1>5 DEF SyncRead
  <2>2. CASE r = q
    <3>1. pipe'[q] = pipe[q]
      BY <1>0, <1>5, <1>a, <2>2 DEF SyncRead
    <3> QED
      BY <1>e, <2>1, <3>1
  <2>3. CASE r = p
    <3>0. SyncRead(p)
      BY <1>5, <2>3
    <3>1. PICK k \in Buffered(q) : pipe'[q] = Rotated(pipe[q], k)
      BY <1>0, <1>a, <3>0 DEF SyncRead
    <3>2. k \in 1 .. Len(pipe[q])
      BY <1>0, BufferedFrames
    <3>3. FramesOf(pipe[q]) \subseteq FramesOf(pipe'[q])
      BY <1>a, <3>1, <3>2, FramesOfRotated
    <3>4. \/ f \in FramesOf(delivered[p]) \/ f \in FramesOf(pipe[q])
          \/ phase[q] = "resend" /\ f \in FramesOf(resend[q])
          \/ f \in Miscounted(q)'
      BY <1>d, <1>m, <2>1
    <3> QED
      BY <2>1, <3>3, <3>4
  <2> QED
    BY <1>0, <2>2, <2>3
<1>6. ASSUME NEW r \in Peers, SyncStart(r) \/ SyncResent(r) \/ SyncDone(r) PROVE Here
  <2>1. UNCHANGED <<link, written, pipe, delivered, resend>>
    BY <1>6 DEF SyncStart, SyncResent, SyncDone, syncVars
  <2>2. CASE r = p
    <3>1. phase'[q] = phase[q]
      BY <1>0, <1>6, <1>a, <2>2 DEF SyncStart, SyncResent, SyncDone
    <3> QED
      BY <1>e, <2>1, <3>1
  <2>3. CASE r = q
    <3>1. \/ phase[q] = "resend" /\ resend[q] = <<>>
          \/ phase[q] = "recv"
      BY <1>6, <1>a, <2>3 DEF SyncStart, SyncResent, SyncDone
    <3>2. FramesOf(<<>>) = {}
      BY DEF FramesOf
    <3>3. \/ f \in FramesOf(delivered[p]) \/ f \in FramesOf(pipe[q])
          \/ phase[q] = "resend" /\ f \in FramesOf(resend[q])
          \/ f \in Miscounted(q)'
      BY <1>d, <1>m, <2>1, <3>1
    <3> QED
      BY <2>1, <3>1, <3>2, <3>3
  <2> QED
    BY <1>0, <2>2, <2>3
<1>7. ASSUME NEW r \in Peers, Flush(r) PROVE Here
  <2>1. UNCHANGED <<link, phase, written, pipe, delivered, resend>>
    BY <1>7 DEF Flush, syncVars
  <2> QED
    BY <1>e, <2>1
<1>8. ASSUME Heartbeat \/ ReadHeartbeat \/ UNCHANGED vars PROVE Here
  <2>1. UNCHANGED <<link, phase, written, pipe, delivered, resend>>
    BY <1>8 DEF Heartbeat, ReadHeartbeat, syncVars, vars
  <2> QED
    BY <1>e, <2>1
<1>9. ASSUME NEW r \in Peers, Detect(r) \/ SyncFail(r) PROVE FALSE
  BY <1>9 DEF Detect, SyncFail
<1>10. ~Break /\ ~Silence /\ ~SyncTimeout
  BY DEF Break, Silence, SyncTimeout
<1> HIDE DEF Here
<1>11. Here
  <2>1. ASSUME NEW r \in Peers, Synchronize(r) PROVE Here
    BY <1>3, <1>4, <1>5, <1>6, <1>9, <2>1 DEF Synchronize
  <2>2. ASSUME Next PROVE Here
    BY <1>1, <1>2, <1>7, <1>8, <1>9, <1>10, <1>b, <2>1, <2>2 DEF Next
  <2> QED
    BY <1>8, <2>2
<1> QED
  BY <1>11 DEF Here

LEMMA FirstReconnectInit == Init => FirstReconnectInv
<1> SUFFICES ASSUME Init, NEW q \in Peers, NEW p \in Peers, p = Other(q)
             PROVE  FirstLink(q) /\ ClaimsAreTrue(q) /\ AllKept(q) /\ AllCovered(q)
  BY OtherPeer DEF FirstReconnectInv
<1>1. /\ phase[q] = "up" /\ stats[p] = <<>> /\ pipe[q] = <<>> /\ written[q] = 0
      /\ delivered[p] = <<>> /\ reopens = 0
      /\ backup[p] = NewBackup /\ backup[q] = NewBackup /\ heard[0] = 0
  BY BoundsAreNaturals DEF Init
<1>2. NewBackup.received_cnt = 0 /\ NewBackup.sent_cnt = 0 /\ NewBackup.frames = <<>>
  BY DEF NewBackup
<1>3. Len(<<>>) = 0 /\ 1 .. 0 = {} /\ 0 = 0 + 0
  OBVIOUS
<1>4. Had(p) = 0
  BY <1>1, <1>2 DEF Had, Heard
<1>5. FirstLink(q)
  BY <1>1, <1>3, <1>4 DEF FirstLink
<1>6. ClaimsAreTrue(q)
  BY <1>1 DEF ClaimsAreTrue
<1>7. AllKept(q)
  <2>1. Suffix(backup[q], written[q])
    BY SuffixInit DEF SuffixInv
  <2> QED
    BY <1>1, <1>2, <1>3, <2>1 DEF AllKept
<1>8. AllCovered(q)
  BY <1>1, <1>3 DEF AllCovered, Covered
<1> QED
  BY <1>5, <1>6, <1>7, <1>8

(* In each direction whose backup is as large as what was written, the first
   reconnect restores every frame, whatever was in the buffers, in the socket or
   half read when the link broke: but for as many frames of the server as the
   client had heard heartbeats, and these are the ones right behind what it had
   received.  This holds with an attempt timeout too. *)
THEOREM TheFirstReconnectLosesOnlyMiscounted ==
  Spec => []FirstReconnectLosesOnlyMiscounted
<1>1. Init => Typed /\ LinkInv /\ FirstReconnectInv
  BY InitTyped, FirstReconnectInit DEF Init, LinkInv
<1>2. Typed /\ LinkInv /\ FirstReconnectInv /\ [Next]_vars =>
        (Typed /\ LinkInv /\ FirstReconnectInv)'
  <2> SUFFICES ASSUME Typed, LinkInv, FirstReconnectInv, [Next]_vars
               PROVE  (Typed /\ LinkInv /\ FirstReconnectInv)'
    OBVIOUS
  <2>1. Typed' /\ LinkInv'
    BY NextTypeOK, NextStatsRead, LinkStep DEF Typed
  <2>2. ASSUME NEW q \in Peers
        PROVE  FirstLink(q)' /\ ClaimsAreTrue(q)' /\ AllKept(q)' /\ AllCovered(q)'
    BY FirstLinkStep, ClaimsStep, AllKeptStep, AllCoveredStep
  <2> QED
    BY <2>1, <2>2 DEF FirstReconnectInv
<1>3. Typed /\ FirstReconnectInv => FirstReconnectLosesOnlyMiscounted
  <2> SUFFICES ASSUME Typed, FirstReconnectInv, reopens <= 1, link = "up",
                      \A p \in Peers : phase[p] = "up",
                      NEW q \in Peers, written[q] <= MaxBackup, NEW f \in 1 .. written[q],
                      f \notin FramesOf(delivered[Other(q)]) \union FramesOf(pipe[q])
               PROVE  /\ q = Server /\ reopens = 1
                      /\ f \in stats[Client][2] - heard[0] + 1 .. stats[Client][2]
    BY DEF FirstReconnectLosesOnlyMiscounted
  <2>1. AllCovered(q) /\ ClaimsAreTrue(q) /\ phase[q] = "up"
    BY DEF FirstReconnectInv
  <2>2. f \in Miscounted(q)
    BY <2>1 DEF AllCovered, Covered
  <2>3. /\ reopens = 1 /\ stats[Other(q)] # <<>>
        /\ f \in stats[Other(q)][2] - Heard(Other(q)) + 1 .. stats[Other(q)][2]
    BY <2>2 DEF Miscounted
  <2>4. CASE q = Client
    <3>1. Heard(Other(q)) = 0
      BY <2>4, PeersDiffer DEF Heard, Other
    <3>2. stats[Other(q)][2] \in Nat
      BY <2>3, OtherPeer, StatsFields DEF Typed
    <3> QED
      BY <2>3, <3>1, <3>2
  <2>5. CASE q # Client
    BY <2>3, <2>5 DEF Other, Peers, Heard
  <2> QED
    BY <2>4, <2>5
<1> QED
  BY <1>1, <1>2, <1>3, PTL DEF Spec
=============================================================================
