----------------------------- MODULE LivePresence -----------------------------
(***************************************************************************)
(* The durable object that counts the active sessions of a workspace and   *)
(* shows the counts to its signed-in viewers over a socket: heartbeats,    *)
(* the rows they leave and their pruning, the alarm, the frames, and the   *)
(* sixty seconds after which a socket must authenticate again.             *)
(* A viewer is authenticated by the worker before the object sees the      *)
(* upgrade, so a removed member can still connect with a request that was  *)
(* already under way; Transit bounds how long one is.  The platform runs   *)
(* an alarm when it is due.                                                *)
(***************************************************************************)
EXTENDS Integers, FiniteSets, FiniteSetsExt, Functions

CONSTANTS
  Session,      \* sessions of the browsers
  Scope,        \* pairs of an app and an environment
  ScopeOf,      \* the scope of each session
  Viewer,       \* users that may be members of the workspace
  Connection,   \* sockets, which bounds how many are open
  Ttl,          \* a session is active for so long after a heartbeat
  Skip,         \* a heartbeat this soon after the last is not written
  Beat,         \* between two alarms while a socket is open, and two prunings
  Gap,          \* between two frames
  Lease,        \* a socket authenticates again after this long
  Transit,      \* between the authentication of a request and its upgrade
  MaxSessions,  \* rows the object holds
  MaxScopes,    \* scopes the object holds
  MaxTime,      \* bound of the clock
  Never         \* no alarm, no frame yet

PresenceScale ==
  /\ {Ttl, Gap, Lease, Transit, MaxTime} \subseteq Nat
  /\ Skip \in 0..Ttl - 1 /\ Beat \in 1..Ttl /\ Ttl < Lease
  /\ IsFiniteSet(Session) /\ ScopeOf \in [Session -> Scope]
  /\ Never \notin Nat /\ Never \notin [Scope -> Nat]

VARIABLES
  now,          \* the clock
  rows,         \* presence: last_seen of the sessions it holds
  heard,        \* when each session's last heartbeat was accepted
  alarm,        \* the time the alarm is set for
  sockets,      \* the open sockets
  lastFrame, nextCleanup, nextFrame,  \* fields of the object, lost on eviction
  members,      \* the viewers that are members of the workspace
  asking        \* upgrades that were authenticated, with the time

live == <<now, rows, heard, alarm, sockets, lastFrame, nextCleanup, nextFrame,
          members, asking>>
-----------------------------------------------------------------------------
CountsUnfiltered(r) ==
  [p \in Scope |-> Cardinality({s \in DOMAIN r : ScopeOf[s] = p})]

\* The counts of a snapshot of rows r.
Counts(r) ==
  [p \in Scope |->
     Cardinality({s \in DOMAIN r : ScopeOf[s] = p /\ r[s] > now - Ttl})]

\* What cleanup leaves of the rows.
Kept == IF now < nextCleanup THEN rows
        ELSE Restrict(rows, {s \in DOMAIN rows : rows[s] > now - Ttl})

cleanup == nextCleanup' = IF now < nextCleanup THEN nextCleanup ELSE now + Beat

\* The scopes and the rows have room for a session they do not hold.
Room(s) ==
  /\ \/ \E t \in DOMAIN Kept : ScopeOf[t] = ScopeOf[s]
     \/ Cardinality({ScopeOf[t] : t \in DOMAIN Kept}) < MaxScopes
  /\ Cardinality(DOMAIN Kept) < MaxSessions

RecordedOnce(s) ==
  IF s \in DOMAIN Kept THEN Kept
  ELSE [t \in DOMAIN Kept \union {s} |-> IF t = s THEN now ELSE Kept[t]]

\* The rows after a heartbeat of s.
Recorded(s) ==
  IF s \in DOMAIN Kept /\ now - Kept[s] < Skip THEN Kept
  ELSE [t \in DOMAIN Kept \union {s} |-> IF t = s THEN now ELSE Kept[t]]

Open == DOMAIN sockets
Expired(c) == sockets[c].expires <= now

\* A frame is due unless one was sent a moment ago: expired sockets are closed,
\* and the others are sent the counts of r when they changed.
FrameDue == Open # {} /\ now >= nextFrame

Frame(r) ==
  /\ lastFrame' = Counts(r)
  /\ nextFrame' = now + Gap
  /\ sockets' =
       [c \in {d \in Open : ~Expired(d)} |->
          IF Counts(r) = lastFrame THEN sockets[c]
          ELSE [sockets[c] EXCEPT !.shown = Counts(r)]]

broadcast(r) ==
  IF FrameDue THEN Frame(r) ELSE UNCHANGED <<lastFrame, nextFrame, sockets>>

AlarmDelay(open) == IF open = {} THEN Ttl ELSE Beat

\* The alarm is only ever brought forward.
Sooner(t) == alarm' = IF alarm = Never THEN t ELSE Min({alarm, t})
-----------------------------------------------------------------------------
Init ==
  /\ now = 0
  /\ rows = [s \in {} |-> 0]
  /\ heard = [s \in Session |-> Never]
  /\ alarm = Never
  /\ sockets = [c \in {} |-> 0]
  /\ lastFrame = Never /\ nextCleanup = 0 /\ nextFrame = 0
  /\ members = Viewer
  /\ asking = {}

\* A heartbeat is recorded, and the alarm is set for the frame it could not
\* send, or for the next alarm.
heartbeat(s) ==
  /\ s \in DOMAIN Kept \/ Room(s)
  /\ cleanup
  /\ rows' = Recorded(s)
  /\ heard' = [heard EXCEPT ![s] = now]
  /\ broadcast(Recorded(s))
  /\ Sooner(IF Open # {} /\ now < nextFrame THEN nextFrame
            ELSE now + AlarmDelay(DOMAIN sockets'))
  /\ UNCHANGED <<now, members, asking>>

\* One that finds no room throws after the pruning.
heartbeatRefused(s) ==
  /\ s \notin DOMAIN Kept /\ ~Room(s)
  /\ cleanup /\ rows' = Kept
  /\ UNCHANGED <<now, heard, alarm, sockets, lastFrame, nextFrame, members, asking>>

\* A member's request is authenticated, and then upgraded.
Authenticate(v) ==
  /\ v \in members
  /\ asking' = asking \union {[user |-> v, at |-> now]}
  /\ UNCHANGED <<now, rows, heard, alarm, sockets, lastFrame, nextCleanup, nextFrame,
                 members>>

\* fetch: the socket is sent a snapshot, and an alarm is at most a Beat away.
fetch(c, q) ==
  /\ q \in asking /\ c \notin Open
  /\ asking' = asking \ {q}
  /\ sockets' =
       [d \in Open \union {c} |->
          IF d # c THEN sockets[d]
          ELSE [user |-> q.user, opened |-> now, expires |-> now + Lease,
                shown |-> Counts(rows)]]
  /\ Sooner(now + Beat)
  /\ UNCHANGED <<now, rows, heard, lastFrame, nextCleanup, nextFrame, members>>

\* All connections are in use, or the request is given up.
fetchRefused(q) ==
  /\ q \in asking
  /\ asking' = asking \ {q}
  /\ UNCHANGED <<now, rows, heard, alarm, sockets, lastFrame, nextCleanup, nextFrame,
                 members>>

\* A member is removed and revokeViewer closes the sockets it has; when that
\* call fails, the sockets end with their lease.
RemoveMember(v) ==
  /\ v \in members
  /\ members' = members \ {v}
  /\ \/ sockets' = Restrict(sockets, {c \in Open : sockets[c].user # v})
     \/ UNCHANGED sockets
  /\ UNCHANGED <<now, rows, heard, alarm, lastFrame, nextCleanup, nextFrame, asking>>

\* webSocketMessage, webSocketClose and webSocketError close the socket.
webSocketClose(c) ==
  /\ c \in Open
  /\ sockets' = Restrict(sockets, Open \ {c})
  /\ UNCHANGED <<now, rows, heard, alarm, lastFrame, nextCleanup, nextFrame, members,
                 asking>>

\* The alarm prunes, sends a frame, and is set again while anything is left.
Alarm ==
  /\ alarm # Never /\ alarm <= now
  /\ cleanup
  /\ rows' = Kept
  /\ broadcast(Kept)
  /\ alarm' = IF DOMAIN sockets' = {} /\ DOMAIN Kept = {} THEN Never
              ELSE now + AlarmDelay(DOMAIN sockets')
  /\ UNCHANGED <<now, heard, members, asking>>

\* The object is evicted and constructed again; its sockets hibernate.
Evict ==
  /\ lastFrame' = Never /\ nextCleanup' = 0 /\ nextFrame' = 0
  /\ UNCHANGED <<now, rows, heard, alarm, sockets, members, asking>>

Tick ==
  /\ now < MaxTime
  /\ alarm # Never => alarm > now
  /\ \A q \in asking : now < q.at + Transit
  /\ now' = now + 1
  /\ UNCHANGED <<rows, heard, alarm, sockets, lastFrame, nextCleanup, nextFrame,
                 members, asking>>

Next ==
  \/ \E s \in Session : heartbeat(s) \/ heartbeatRefused(s)
  \/ \E v \in Viewer : Authenticate(v) \/ RemoveMember(v)
  \/ \E q \in asking : fetchRefused(q) \/ \E c \in Connection : fetch(c, q)
  \/ \E c \in Connection : webSocketClose(c)
  \/ Alarm \/ Evict \/ Tick

Spec == Init /\ [][Next]_live
-----------------------------------------------------------------------------
TypeOK ==
  /\ now \in 0..MaxTime
  /\ DOMAIN rows \subseteq Session /\ Open \subseteq Connection
  /\ members \subseteq Viewer

\* Whoever watches was authenticated less than a lease, a Beat and a Gap ago,
\* however the alarm, the frames and the evictions fall: an alarm that comes
\* within a Gap of a frame sends none and closes nobody.
ShortLived == \A c \in Open : now < sockets[c].opened + Lease + Beat + Gap

\* A session counts for Ttl after its last heartbeat, less the interval in
\* which heartbeats are not written, and never longer.
Online ==
  \A s \in Session :
    heard[s] # Never =>
      /\ now - heard[s] < Ttl - Skip => s \in DOMAIN rows /\ rows[s] > now - Ttl
      /\ s \in DOMAIN rows => rows[s] <= heard[s]

\* What a socket shows is late by less than a Beat and a Gap, as long as it is
\* what the object sent last.  A socket that opened since may show its snapshot
\* until the counts differ from that last frame.
Current ==
  \A c \in Open, p \in Scope :
    sockets[c].shown = lastFrame =>
      lastFrame[p] <=
        Cardinality({s \in Session : /\ ScopeOf[s] = p /\ heard[s] # Never
                                     /\ now - heard[s] < Ttl + Beat + Gap})

\* What docs/browser-analytics.md:100-102 says of every connected dashboard: it
\* observes an expiry up to a Beat later.
ObservedInTime ==
  \A c \in Open, p \in Scope :
    sockets[c].shown[p] <=
      Cardinality({s \in Session : /\ ScopeOf[s] = p /\ heard[s] # Never
                                   /\ now - heard[s] <= Ttl + Beat})
=============================================================================
