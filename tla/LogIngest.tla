------------------------------- MODULE LogIngest -------------------------------
(***************************************************************************)
(* The acceptance of application logs of one environment: a batch is       *)
(* claimed, stored, and its claim forgotten when storing fails; browser    *)
(* batches consume the quota of their key first.  Alerts go out after the  *)
(* answer.  Every statement is a step, a request may end at any of them,   *)
(* and the platform ends it after Transit.                                 *)
(***************************************************************************)
EXTENDS Integers, FiniteSets, FiniteSetsExt

CONSTANTS
  Attempt,    \* requests under way at a time
  Batch,      \* what is delivered: its claim id, its logs, those of them that the
              \* routes of the deployment store, and whether a browser sends it
  Stamp,      \* the timestamp of each log
  Quota,      \* logs of browsers in a window
  Window,     \* length of a window
  Skew,       \* a timestamp may be ahead of the clock
  Retention,  \* a log is kept for so long
  ClaimKeep,  \* a claim is kept for so long
  Transit,    \* the longest request
  MaxTime,    \* bound of the clock
  None

\* A request under way, with its own time and what comes next.
Task == [batch : Batch, at : Nat,
         step : {"quota", "claim", "store", "respond", "forget"}]

LogScale ==
  /\ {Quota, Skew, Retention, ClaimKeep, Transit, MaxTime} \subseteq Nat
  /\ Window \in Nat \ {0} /\ Transit <= ClaimKeep
  /\ \A l \in DOMAIN Stamp : Stamp[l] \in Int
  /\ \A b \in Batch :
       /\ b.logs # {} /\ b.logs \subseteq DOMAIN Stamp /\ IsFiniteSet(b.logs)
       /\ b.stored \subseteq b.logs
  /\ \A b, d \in Batch : b.id = d.id => b = d
  /\ IsFiniteSet(Attempt)
  /\ None \notin Task

VARIABLES
  now,      \* the clock
  work,     \* each attempt: its batch, its own time and step
  claims,   \* seen_batches: id and seen_at
  rows,     \* log_events: the log, and the window it was admitted in
  quota,    \* browser_log_quota: use of each window
  answers,  \* what each batch was answered
  alerts,   \* deliveries to the webhook: the batch and the time of the request
  broken    \* batches of which an attempt died with the claim, or failed after
            \* another was told that it had a duplicate

logIngest == <<now, work, claims, rows, quota, answers, alerts, broken>>
-----------------------------------------------------------------------------
WindowOf(t) == t \div Window
Claimed(b) == \E c \in claims : c.id = b.id

Init ==
  /\ now = 0
  /\ work = [a \in Attempt |-> None]
  /\ claims = {} /\ rows = {}
  /\ quota = [w \in 0..WindowOf(MaxTime) |-> 0]
  /\ answers = [b \in Batch |-> {}]
  /\ alerts = {} /\ broken = {}

\* validateLogTimestamps, before anything is written.
Acceptable(l) == Stamp[l] <= now + Skew /\ Stamp[l] >= now - Retention

\* ingestLogs and ingestBrowserLogs begin.
ingestLogs(a, b) ==
  /\ work[a] = None
  /\ \A l \in b.logs : Acceptable(l)
  /\ work' = [work EXCEPT ![a] =
       [batch |-> b, at |-> now, step |-> IF b.browser THEN "quota" ELSE "claim"]]
  /\ UNCHANGED <<now, claims, rows, quota, answers, alerts, broken>>

To(a, step) == work' = [work EXCEPT ![a].step = step]
Ends(a) == work' = [work EXCEPT ![a] = None]

UsedBefore(a) == quota[WindowOf(work[a].at)]

\* What consumeBrowserQuota returns: the use of the window with this batch.
Used(a) == quota[WindowOf(work[a].at)] + Cardinality(work[a].batch.logs)

\* The use only grows, so beyond the quota it is not told apart.
consumeBrowserQuota(a) ==
  /\ work[a] # None /\ work[a].step = "quota"
  /\ quota' = [quota EXCEPT ![WindowOf(work[a].at)] =
                 Min({Quota + 1, @ + Cardinality(work[a].batch.logs)})]
  /\ IF Used(a) > Quota THEN Ends(a) ELSE To(a, "claim")
  /\ UNCHANGED <<now, claims, rows, answers, alerts, broken>>

Answer(a, x) == answers' = [answers EXCEPT ![work[a].batch] = @ \union {x}]

\* markSeen: the batch is claimed with the time of the request.
markSeen(a) ==
  /\ work[a] # None /\ work[a].step = "claim"
  /\ IF Claimed(work[a].batch)
     THEN Answer(a, "duplicate") /\ Ends(a) /\ UNCHANGED claims
     ELSE /\ claims' = claims \union {[id |-> work[a].batch.id, seen |-> work[a].at]}
          /\ To(a, "store") /\ UNCHANGED answers
  /\ UNCHANGED <<now, rows, quota, alerts, broken>>

\* recordLogs: one transaction for the logs that are routed to the store; logs
\* that are there are ignored.
recordLogs(a) ==
  /\ work[a] # None /\ work[a].step = "store"
  /\ rows' = rows \union
       {[log |-> l, window |-> WindowOf(work[a].at), browser |-> work[a].batch.browser] :
          l \in {m \in work[a].batch.stored : \A r \in rows : r.log # m}}
  /\ To(a, "respond")
  /\ UNCHANGED <<now, claims, quota, answers, alerts, broken>>

\* The capability is recorded and the batch answered; its alerts are posted
\* after that, once, if at all.
respond(a) ==
  /\ work[a] # None /\ work[a].step = "respond"
  /\ Answer(a, "accepted") /\ Ends(a)
  /\ \/ alerts' = alerts \union {[batch |-> work[a].batch, at |-> work[a].at]}
     \/ UNCHANGED alerts
  /\ UNCHANGED <<now, claims, rows, quota, broken>>

Holds(a) == work[a] # None /\ work[a].step \in {"store", "respond", "forget"}

\* recordLogs or the capability fails, whether it wrote or not.
storeFails(a) ==
  /\ work[a] # None /\ work[a].step \in {"store", "respond"}
  /\ To(a, "forget")
  /\ UNCHANGED <<now, claims, rows, quota, answers, alerts, broken>>

ForgetNothing(a) == claims

Forgotten(a) == {c \in claims : c.id # work[a].batch.id}

\* forget: the claim is released and the request fails.
forget(a) ==
  /\ work[a] # None /\ work[a].step = "forget"
  /\ claims' = Forgotten(a)
  /\ Ends(a)
  /\ broken' = IF "duplicate" \in answers[work[a].batch]
               THEN broken \union {work[a].batch} ELSE broken
  /\ UNCHANGED <<now, rows, quota, answers, alerts>>

\* The request ends, and leaves a claim that it holds.
Dies(a) ==
  /\ work[a] # None /\ Ends(a)
  /\ broken' = IF Holds(a) THEN broken \union {work[a].batch} ELSE broken
  /\ UNCHANGED <<now, claims, rows, quota, answers, alerts>>

ClaimExpiredSoon(c) == c.seen <= now

ClaimExpired(c) == c.seen < now - ClaimKeep

\* cleanupExpired and cleanupLogsExpired, as far as a run gets.
cleanup ==
  /\ \/ /\ \E c \in claims : ClaimExpired(c) /\ claims' = claims \ {c}
        /\ UNCHANGED rows
     \/ /\ \E r \in rows : Stamp[r.log] < now - Retention /\ rows' = rows \ {r}
        /\ UNCHANGED claims
  /\ UNCHANGED <<now, work, quota, answers, alerts, broken>>

Tick ==
  /\ now < MaxTime
  /\ \A a \in Attempt : work[a] # None => now < work[a].at + Transit
  /\ now' = now + 1
  /\ UNCHANGED <<work, claims, rows, quota, answers, alerts, broken>>

Next ==
  \/ \E a \in Attempt :
       \/ \E b \in Batch : ingestLogs(a, b)
       \/ consumeBrowserQuota(a) \/ markSeen(a) \/ recordLogs(a) \/ respond(a)
       \/ storeFails(a) \/ forget(a) \/ Dies(a)
  \/ cleanup \/ Tick

Spec == Init /\ [][Next]_logIngest
-----------------------------------------------------------------------------
TypeOK ==
  /\ now \in 0..MaxTime /\ \A r \in rows : r.log \in DOMAIN Stamp
  /\ work \in [Attempt -> Task \union {None}]

Retained(b) ==
  \A l \in b.stored : Stamp[l] >= now - Retention => \E r \in rows : r.log = l

\* What the routes store of a batch that was accepted is there until it expires
\* (a batch that they store nothing of is accepted and not kept).  What they
\* store of one that was answered as a duplicate is there or being stored,
\* unless the attempt it was taken for died with the claim or failed after that
\* answer: a failure by itself loses nothing that is retried.
Lasting ==
  \A b \in Batch :
    /\ "accepted" \in answers[b] => Retained(b)
    /\ "duplicate" \in answers[b] =>
         \/ Retained(b)
         \/ b \in broken
         \/ \E a \in Attempt : Holds(a) /\ work[a].batch.id = b.id

\* A log is stored once.
StoredOnce == \A q, r \in rows : q.log = r.log => q = r

\* A batch is alerted again only after its claim expired, whatever failed in
\* between (docs/logs.md:152).
AlertedOnce ==
  \A x, y \in alerts :
    x.batch = y.batch /\ x.at < y.at => y.at > x.at + ClaimKeep - Transit

\* The logs that browsers get stored in a window stay within its quota.
WithinQuota ==
  \A w \in DOMAIN quota : Cardinality({r \in rows : r.browser /\ r.window = w}) <= Quota
=============================================================================
