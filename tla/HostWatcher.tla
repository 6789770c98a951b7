------------------------------ MODULE HostWatcher ------------------------------
(***************************************************************************)
(* The watcher actor of the host (distant-host, api/state/watcher.rs and   *)
(* watcher/path.rs): the registrations of all connections, the count kept  *)
(* per path, and the one file system watcher they share.                   *)
(*                                                                         *)
(* A path is a member of a set; canonicalize() follows links while the     *)
(* path exists.  The watcher of the operating system (external) watches    *)
(* canonical paths, flat or recursively, and forgets one that is deleted.  *)
(* Requests and events share a channel; a request waits when it is full,   *)
(* in order, an event is dropped.  The Vec of registrations is a set, as   *)
(* nothing depends on its order; the number of its request tells one entry *)
(* from an equal one.                                                      *)
(***************************************************************************)
EXTENDS Naturals, Sequences, FiniteSets

CONSTANTS
  Connections,
  Paths,
  Links,          \* [Paths -> Paths], what a path stands for; canonical ones themselves
  Capacity,       \* SERVER_WATCHER_CAPACITY
  MaxRequests,    \* bound: requests of clients
  MaxChanges      \* bound: deletions and other changes of the file system

ASSUME LinksLeadToCanonical ==
  /\ Links \in [Paths -> Paths]
  /\ \A p \in Paths : Links[Links[p]] = Links[p]
ASSUME BoundsAreNaturals ==
  Capacity \in Nat \ {0} /\ MaxRequests \in Nat /\ MaxChanges \in Nat

VARIABLES
  rx,             \* messages in the channel, and behind it those that wait
  registered_paths,   \* the set of entries
  path_cnt,       \* [Paths -> the count, 0 for a path that has none]
  watched,        \* [Paths -> "no", "flat" or "deep"]
  exists,         \* paths that exist
  blind,          \* history: paths registered while nothing covered them
  deleted,        \* history: paths deleted while they were watched
  shared,         \* history: paths one of several registrations of which went
  requests, changes

watcherVars == <<rx, registered_paths, path_cnt, watched, exists, blind,
                 deleted, shared, requests, changes>>
history == <<blind, deleted, shared>>

WatcherInit ==
  /\ rx = <<>>
  /\ registered_paths = {}
  /\ path_cnt = [p \in Paths |-> 0]
  /\ watched = [p \in Paths |-> "no"]
  /\ exists = Paths
  /\ blind = {} /\ deleted = {} /\ shared = {}
  /\ requests = 0 /\ changes = 0

\* canonicalize() of a path, which fails if it leads nowhere.
Resolves(p) == Links[p] \in exists
Canonical(p) == IF Resolves(p) THEN Links[p] ELSE p

-----------------------------------------------------------------------------
(* Clients, and the file system *)

\* watch(): RegisteredPath::register resolves the path, or fails.
RequestWatch(id, raw, recursive) ==
  /\ requests < MaxRequests
  /\ Resolves(raw)
  /\ rx' = Append(rx, [type |-> "watch", no |-> requests, id |-> id, raw |-> raw,
                          path |-> Links[raw], recursive |-> recursive])
  /\ requests' = requests + 1
  /\ UNCHANGED <<registered_paths, path_cnt, watched, exists, history, changes>>

\* unwatch(): a path that is gone goes as it was given.
RequestUnwatch(id, raw) ==
  /\ requests < MaxRequests
  /\ rx' = Append(rx, [type |-> "unwatch", id |-> id, path |-> Canonical(raw)])
  /\ requests' = requests + 1
  /\ UNCHANGED <<registered_paths, path_cnt, watched, exists, history, changes>>

\* Something changes at p, or deep below it.  If that is watched an event goes
\* into the channel, as long as there is room.
Change(p, deep) ==
  /\ changes < MaxChanges
  /\ p \in exists /\ Links[p] = p
  /\ watched[p] = "deep" \/ (watched[p] = "flat" /\ ~deep)
  /\ rx' = IF Len(rx) < Capacity
             THEN Append(rx, [type |-> "event", path |-> p, deep |-> deep])
             ELSE rx
  /\ changes' = changes + 1
  /\ UNCHANGED <<registered_paths, path_cnt, watched, exists, history, requests>>

\* A path is deleted, and nobody watches it any more; or it is there again.
Delete(p) ==
  /\ changes < MaxChanges
  /\ p \in exists /\ Links[p] = p
  /\ exists' = exists \ {p}
  /\ watched' = [watched EXCEPT ![p] = "no"]
  /\ deleted' = IF watched[p] = "no" THEN deleted ELSE deleted \union {p}
  /\ changes' = changes + 1
  /\ UNCHANGED <<rx, registered_paths, path_cnt, blind, shared, requests>>

Create(p) ==
  /\ p \notin exists
  /\ exists' = exists \union {p}
  /\ UNCHANGED <<rx, registered_paths, path_cnt, watched, history, requests, changes>>

-----------------------------------------------------------------------------
(* watcher_task *)

Received(t) == rx # <<>> /\ Head(rx).type = t

Mode(recursive) == IF recursive THEN "deep" ELSE "flat"

\* What the watcher reports is enough for the registration r.
Covers(r) == watched[r.path] = "deep" \/ (watched[r.path] = "flat" /\ ~r.recursive)

Registration(m) ==
  [no |-> m.no, id |-> m.id, raw |-> m.raw, path |-> m.path, recursive |-> m.recursive]

CountUp(p) == [path_cnt EXCEPT ![p] = @ + 1]

\* A path with a count is not watched again, whatever the count is worth.
WatchCounted ==
  /\ Received("watch")
  /\ rx' = Tail(rx)
  /\ LET r == Registration(Head(rx)) IN
     /\ path_cnt[r.path] > 0
     /\ path_cnt' = CountUp(r.path)
     /\ registered_paths' = registered_paths \union {r}
     /\ blind' = IF Covers(r) THEN blind ELSE blind \union {r.path}
  /\ UNCHANGED <<watched, exists, deleted, shared, requests, changes>>

\* The first registration of a path: the watcher accepts it, or it is refused.
WatchFirst ==
  /\ Received("watch")
  /\ rx' = Tail(rx)
  /\ LET r == Registration(Head(rx)) IN
     /\ path_cnt[r.path] = 0
     /\ \/ /\ r.path \in exists
           /\ watched' = [watched EXCEPT ![r.path] = Mode(r.recursive)]
           /\ path_cnt' = CountUp(r.path)
           /\ registered_paths' = registered_paths \union {r}
        \/ UNCHANGED <<watched, path_cnt, registered_paths>>
  /\ UNCHANGED <<exists, history, requests, changes>>

\* Mutant: the path is unwatched as soon as one registration goes.
CountReachedSoon(p, removed) == removed > 0

CountReached(p, removed) == path_cnt[p] <= removed

\* Mutant: unwatch forgets to tell the watcher.
KeepWatching(p) == watched

StopWatching(p) == [watched EXCEPT ![p] = "no"]

\* The registrations that an unwatch leaves: those of other connections, and
\* those of other paths, however they were given.
Retained(id, path) ==
  {r \in registered_paths : r.id # id \/ (r.path # path /\ r.raw # path)}

\* Every registration of the connection for the path goes.  The count stays as
\* it is, and so does its entry.
Unwatch ==
  /\ Received("unwatch")
  /\ rx' = Tail(rx)
  /\ LET m == Head(rx)
         kept == Retained(m.id, m.path)
         removed == Cardinality(registered_paths \ kept) IN
     IF path_cnt[m.path] = 0 THEN UNCHANGED <<registered_paths, watched, shared>>
     ELSE /\ registered_paths' = kept
          /\ watched' = IF CountReached(m.path, removed) THEN StopWatching(m.path)
                        ELSE watched
          /\ shared' = IF removed > 0 /\ ~CountReached(m.path, removed)
                         THEN shared \union {m.path} ELSE shared
  /\ UNCHANGED <<path_cnt, exists, blind, deleted, requests, changes>>

\* An event is passed on to the registrations it applies to.  They get a
\* message; nothing here changes.
Event ==
  /\ Received("event")
  /\ rx' = Tail(rx)
  /\ UNCHANGED <<registered_paths, path_cnt, watched, exists, history,
                 requests, changes>>

-----------------------------------------------------------------------------
WatcherNext ==
  \/ \E id \in Connections, p \in Paths :
       \/ \E recursive \in BOOLEAN : RequestWatch(id, p, recursive)
       \/ RequestUnwatch(id, p)
  \/ \E p \in Paths :
       \/ \E deep \in BOOLEAN : Change(p, deep)
       \/ Delete(p)
       \/ Create(p)
  \/ WatchCounted
  \/ WatchFirst
  \/ Unwatch
  \/ Event

WatcherSpec == WatcherInit /\ [][WatcherNext]_watcherVars

-----------------------------------------------------------------------------
(* Properties *)

(* Whoever is registered hears of changes: the watcher covers its path.  The
   task trusts the count of a path, "since we are already watching a path that
   impacts this one", and is wrong where the count has outlived the watch (the
   path was unwatched, or deleted), or the watch is flat and the registration
   recursive. *)
RegisteredIsWatchedUnlessMisjudged ==
  \A r \in registered_paths : Covers(r) \/ r.path \in blind \union deleted

(* A path without registrations is not watched: "If we are now at zero cnt for
   our path, we want to actually unwatch the path".  Only that the count is
   never lowered: once some of its registrations went before others, or one
   was made after the count had been used up, the watch stays for good. *)
UnusedIsUnwatchedUnlessShared ==
  \A p \in Paths :
    watched[p] # "no" =>
      (\E r \in registered_paths : r.path = p) \/ p \in shared
=============================================================================
