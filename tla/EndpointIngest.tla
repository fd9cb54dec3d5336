---------------------------- MODULE EndpointIngest ----------------------------
(***************************************************************************)
(* The acceptance of endpoint measurements: the scope of a request, the    *)
(* metadata that is written before, and the one transaction that counts    *)
(* what no receipt says was counted already.                               *)
(* A request is one attempt of a client to deliver a batch; it may be      *)
(* repeated at any time, overlap with others, and end at any statement.    *)
(* The platform ends a request after Transit.                              *)
(***************************************************************************)
EXTENDS Integers, FiniteSets, Sequences, Bags

CONSTANTS
  Attempt,          \* requests under way at a time
  Batch,            \* what is delivered: its name, whether it has an identity
                    \* of its own (SDK) or its events have (OTLP), and its
                    \* groups of events of one environment, of which an SDK
                    \* batch has one; an identity names one batch
  Stamp,            \* the timestamp of each event
  Failed,           \* the events with a status of 400 or more
  Environment,      \* names of environments
  MaxEnvironments,  \* of an app
  Skew,             \* between a timestamp and the server's clock
  Keep,             \* a receipt is kept for so long
  FailureKeep,      \* a failure is kept for so long after its timestamp
  Transit,          \* the longest request
  MaxTime,          \* bound of the clock
  None

\* A request under way: its own time, the group it is at, and what comes next.
Task == [batch : Batch, at : Nat, group : Nat \ {0},
         step : {"resolve", "record", "failures", "accept"}]

IngestScale ==
  /\ {MaxEnvironments, Skew, Keep, FailureKeep, Transit, MaxTime} \subseteq Nat
  /\ Keep >= 2 * Skew + Transit
  /\ \A e \in DOMAIN Stamp : Stamp[e] \in Int
  /\ \A b \in Batch :
       /\ b.groups \in Seq([env : Environment, events : SUBSET DOMAIN Stamp]) \ {<<>>}
       /\ b.sdk => Len(b.groups) = 1
  /\ \A b, d \in Batch : b.sdk /\ d.sdk /\ b.id = d.id => b = d
  /\ None \notin Task

VARIABLES
  now,           \* the clock
  environments,  \* the environments of the app
  work,          \* each attempt: its batch, its own time, its group and step
  observed,      \* rows of observed_endpoints and failure_events
  receipts,      \* endpoint_receipts: scope, id and seen_at
  counted,       \* endpoint_rollups: how often each event was added
  answered       \* batches that were answered with success

endpointIngest == <<now, environments, work, observed, receipts, counted, answered>>
-----------------------------------------------------------------------------
Init ==
  /\ now = 0
  /\ environments = {}
  /\ work = [a \in Attempt |-> None]
  /\ observed = {} /\ receipts = {} /\ counted = EmptyBag /\ answered = {}

Events(b) == UNION {b.groups[i].events : i \in DOMAIN b.groups}

\* ingest and ingestEvents begin: every timestamp is near the clock.
ingest(a, b) ==
  /\ work[a] = None
  /\ \A e \in Events(b) : Stamp[e] - now \in -Skew..Skew
  /\ work' = [work EXCEPT ![a] = [batch |-> b, at |-> now, group |-> 1, step |-> "resolve"]]
  /\ UNCHANGED <<now, environments, observed, receipts, counted, answered>>

GroupFirst(a) == work[a].batch.groups[1]

Group(a) == work[a].batch.groups[work[a].group]

\* The next group in the same step, or the first group in the next one.
Advance(a, next) ==
  work' = IF work[a].group < Len(work[a].batch.groups)
          THEN [work EXCEPT ![a].group = @ + 1]
          ELSE [work EXCEPT ![a].group = 1, ![a].step = next]

HasRoomOrOne == Cardinality(environments) <= MaxEnvironments

\* The condition of the INSERT.
HasRoom == Cardinality(environments) < MaxEnvironments

\* resolveScope of a product key: the environment is there, is added, or the
\* request is refused with what it added before.
resolveScope(a) ==
  /\ work[a] # None /\ work[a].step = "resolve"
  /\ IF Group(a).env \in environments \/ HasRoom
     THEN environments' = environments \union {Group(a).env} /\ Advance(a, "record")
     ELSE UNCHANGED environments /\ work' = [work EXCEPT ![a] = None]
  /\ UNCHANGED <<now, observed, receipts, counted, answered>>

\* An owner creates an environment with its key.
createEnvironmentKey(n) ==
  /\ n \notin environments /\ HasRoom
  /\ environments' = environments \union {n}
  /\ UNCHANGED <<now, work, observed, receipts, counted, answered>>

\* What the next statement of recordEndpointMetadata takes: the inventory every
\* event of the group, the failures those with an error.
Recorded(a) == {e \in Group(a).events : work[a].step = "failures" => e \in Failed}

\* recordEndpointMetadata: the inventory, and with another statement the failures.
recordEndpointMetadata(a) ==
  /\ work[a] # None /\ work[a].step \in {"record", "failures"}
  /\ observed' = observed \union
       {[env |-> Group(a).env, event |-> e, table |-> work[a].step] : e \in Recorded(a)}
  /\ work' = [work EXCEPT ![a].step = IF @ = "record" THEN "failures" ELSE "accept"]
  /\ UNCHANGED <<now, environments, receipts, counted, answered>>

\* The identity under which an event of batch b is received.
Receipt(b, e) == IF b.sdk THEN <<"sdk", b.id>> ELSE <<"otel", e>>

UnseenAlways(a) == Group(a).events

\* The events of the group that no receipt names.
Unseen(a) ==
  {e \in Group(a).events :
     \A r \in receipts : r.env = Group(a).env => r.id # Receipt(work[a].batch, e)}

\* One transaction adds the unseen events to the rollups and writes receipts,
\* with the time of the request; the answer counts both as received.
accept(a) ==
  /\ work[a] # None /\ work[a].step = "accept"
  /\ counted' = counted (+) SetToBag(
       {[env |-> Group(a).env, id |-> Receipt(work[a].batch, e), event |-> e] : e \in Unseen(a)})
  /\ receipts' = receipts \union
       {[env |-> Group(a).env, id |-> Receipt(work[a].batch, e), seen |-> work[a].at] :
          e \in Unseen(a)}
  /\ IF work[a].group < Len(work[a].batch.groups)
     THEN /\ work' = [work EXCEPT ![a].group = @ + 1, ![a].step = "record"]
          /\ UNCHANGED answered
     ELSE /\ work' = [work EXCEPT ![a] = None]
          /\ answered' = answered \union {work[a].batch}
  /\ UNCHANGED <<now, environments, observed>>

\* A statement fails, an answer is lost or the request ends.
Fails(a) ==
  /\ work[a] # None /\ work' = [work EXCEPT ![a] = None]
  /\ UNCHANGED <<now, environments, observed, receipts, counted, answered>>

ExpiredEarly(r) == r.seen <= now - Keep

Expired(r) == r.seen < now - Keep

\* One receipt at a time, as the number of them that a run deletes is bounded.
cleanupReceipts ==
  /\ \E r \in receipts : /\ Expired(r) /\ \A q \in receipts : r.seen <= q.seen
                         /\ receipts' = receipts \ {r}
  /\ UNCHANGED <<now, environments, work, observed, counted, answered>>

FailureExpiredEarly(r) == r.table = "failures" /\ Stamp[r.event] <= now - FailureKeep

FailureExpired(r) == r.table = "failures" /\ Stamp[r.event] < now - FailureKeep

\* cleanupFailuresExpired, oldest first and as far as a run gets.  Nothing
\* deletes from the inventory.
cleanupFailures ==
  /\ \E r \in observed :
       /\ FailureExpired(r)
       /\ \A q \in observed : FailureExpired(q) => Stamp[r.event] <= Stamp[q.event]
       /\ observed' = observed \ {r}
  /\ UNCHANGED <<now, environments, work, receipts, counted, answered>>

Tick ==
  /\ now < MaxTime
  /\ \A a \in Attempt : work[a] # None => now < work[a].at + Transit
  /\ now' = now + 1
  /\ UNCHANGED <<environments, work, observed, receipts, counted, answered>>

Next ==
  \/ \E a \in Attempt :
       \/ \E b \in Batch : ingest(a, b)
       \/ resolveScope(a) \/ recordEndpointMetadata(a) \/ accept(a) \/ Fails(a)
  \/ \E n \in Environment : createEnvironmentKey(n)
  \/ cleanupReceipts \/ cleanupFailures \/ Tick

Spec == Init /\ [][Next]_endpointIngest
-----------------------------------------------------------------------------
TypeOK ==
  /\ now \in 0..MaxTime /\ environments \subseteq Environment
  /\ work \in [Attempt -> Task \union {None}]

\* However attempts repeat, overlap and die, and after receipts expired, no
\* event of a batch is counted twice.
NeverTwice == \A e \in BagToSet(counted) : counted[e] = 1

\* What was answered was counted, each event in the environment of its group.
\* Whatever was counted is in the inventory, and a failure that was counted is
\* among the failures for as long as these are kept (docs/logs.md:119): neither
\* an attempt that dies between two statements nor the cron leaves a count
\* without its endpoint or a fresh failure without its details.
AnsweredCounted ==
  /\ \A b \in answered : \A i \in DOMAIN b.groups : \A e \in b.groups[i].events :
       BagIn([env |-> b.groups[i].env, id |-> Receipt(b, e), event |-> e], counted)
  /\ \A e \in BagToSet(counted) :
       /\ [env |-> e.env, event |-> e.event, table |-> "record"] \in observed
       /\ e.event \in Failed /\ Stamp[e.event] >= now - FailureKeep =>
            [env |-> e.env, event |-> e.event, table |-> "failures"] \in observed

\* Requests that name new environments and owners that create them stay
\* within the limit of an app together.
EnvironmentsBounded == Cardinality(environments) <= MaxEnvironments
=============================================================================
