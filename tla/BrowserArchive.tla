---------------------------- MODULE BrowserArchive ----------------------------
(***************************************************************************)
(* One shard of the browser archive: the queue consumer that stages        *)
(* accepted batches in a Durable Object, the object's ledger, its pending  *)
(* rows, the one segment it uploads at a time, the indexes of what it has  *)
(* archived, and the outbox of the analytics projection.                   *)
(*                                                                         *)
(* A message is a batch identity with its facts.  Between two awaits the   *)
(* object runs alone, so a step is a transaction or a call.  Time is       *)
(* abstract: retry_after, a batch's age and a ledger row's expiry pass     *)
(* when they pass.                                                         *)
(***************************************************************************)
EXTENDS FiniteSets, Integers

CONSTANTS
  Batch,       \* batch identities
  Facts,       \* what a batch may hold
  Sent,        \* the messages: identities with their facts
  Consumer,    \* queue consumer invocations
  Segments,    \* bound on the segments, whose ids are drawn from UUIDs
  SegmentMax,  \* batches that fit in FLUSH_BYTES
  None,
  Crashes      \* bound on the evictions of the object

ASSUME BoundsAssumption ==
  /\ {SegmentMax, Segments} \subseteq Nat \ {0}
  /\ Crashes \in Nat
  /\ None \notin Nat

Free == 0
Segment == 1..Segments
Message == [id : Batch, facts : Facts]
ASSUME SentAssumption == Sent \subseteq Message /\ None \notin Facts

VARIABLES
  queue,     \* messages the queue still holds
  consumer,  \* per consumer: program counter and the group it stages
  receipts,  \* browser_queue_stage_receipts
  ledger,    \* archive_seen: identity -> facts, and whether expires_at is set
  pending,   \* archive_pending: identity -> the segment it is sealed into
  outbox,    \* projection_pending
  segment,   \* archive_segments: the open segment, if any
  index,     \* archive_batch_segments and its siblings: segment -> batches
  held_off,  \* retry_after is in the future
  alarm,     \* an alarm is set
  handler,   \* the alarm handler: program counter
  objects,   \* R2: segment -> the messages in its object
  crashes

queueVars == <<queue, consumer, receipts>>
tables == <<ledger, pending, outbox, segment, index, held_off>>
vars == <<queueVars, tables, alarm, handler, objects, crashes>>
-----------------------------------------------------------------------------
Absent == [facts |-> None, dated |-> FALSE]

\* archive_seen and archive_pending rows
Seen == {b \in Batch : ledger[b] # Absent}
Pending == {b \in Batch : pending[b] # None}
Sealed == {b \in Batch : pending[b] \in Segment}
Rows(S) == {[id |-> b, facts |-> ledger[b].facts] : b \in S}

Delivery == [pc : {"idle", "schedule", "receipt"}, group : SUBSET Message]
LedgerRow == [facts : Facts \union {None}, dated : BOOLEAN]

TypeOK ==
  /\ queue \subseteq Sent /\ receipts \subseteq Batch
  /\ consumer \in [Consumer -> Delivery]
  /\ ledger \in [Batch -> LedgerRow]
  /\ pending \in [Batch -> Segment \union {None, Free}]
  /\ outbox \subseteq Batch
  /\ segment \in Segment \union {None}
  /\ DOMAIN index \subseteq Segment /\ DOMAIN objects \subseteq Segment
  /\ \A s \in DOMAIN index : index[s] \subseteq Message
  /\ \A s \in DOMAIN objects : objects[s] \subseteq Message
  /\ {held_off, alarm} \subseteq BOOLEAN
  /\ handler \in {"idle", "seal", "put", "verify", "complete", "schedule"}
  /\ crashes \in 0..Crashes

Idle == [pc |-> "idle", group |-> {}]

Init ==
  /\ queue = Sent
  /\ consumer = [c \in Consumer |-> Idle]
  /\ receipts = {}
  /\ ledger = [b \in Batch |-> Absent]
  /\ pending = [b \in Batch |-> None]
  /\ outbox = {}
  /\ segment = None
  /\ index = << >>
  /\ held_off = FALSE
  /\ alarm = FALSE
  /\ handler = "idle"
  /\ objects = << >>
  /\ crashes = 0
-----------------------------------------------------------------------------
(* The queue consumer.                                                     *)
Goto(c, pc) == consumer' = [consumer EXCEPT ![c].pc = pc]
End(c) == consumer' = [consumer EXCEPT ![c] = Idle]

\* A message whose retries are used up goes to the dead letter queue.
Retry(group) == \E dead \in SUBSET group : queue' = queue \ dead

\* A ledger row expires 31 days after its batch was archived; the queue has
\* dropped the batch by then.  An unfinished projection keeps the row.
Expired == {b \in Seen : /\ ledger[b].dated
                         /\ b \notin outbox
                         /\ \A m \in queue : m.id # b}
Prune(P) == [b \in Batch |-> IF b \in P THEN Absent ELSE ledger[b]]

Fresh(group) == {m \in group : ledger[m.id] = Absent}
Reused(group) ==
  \/ \E m \in group : ledger[m.id].facts \notin {None, m.facts}
  \/ \E m, n \in group : m.id = n.id /\ m # n

\* stage: one transaction, all of the group or none of it.  The capacity is
\* shared with other batches of the shard, so any group may be refused.  What
\* one consumer holds may be delivered to another.
Stage(c, group) ==
  LET fresh == Fresh(group)
      ids == {m.id : m \in fresh}
  IN
  /\ consumer[c].pc = "idle"
  /\ \/ Retry(group) /\ UNCHANGED <<consumer, tables>>
     \/ /\ ~Reused(group)
        /\ \E P \in SUBSET Expired :
             ledger' = [b \in Batch |->
               IF b \in ids
               THEN [facts |-> (CHOOSE m \in fresh : m.id = b).facts,
                     dated |-> FALSE]
               ELSE Prune(P)[b]]
        /\ pending' = [b \in Batch |->
                         IF b \in ids THEN Free ELSE pending[b]]
        /\ outbox' = outbox \union ids
        /\ consumer' = [consumer EXCEPT ![c] =
                          [pc |-> "schedule", group |-> group]]
        /\ UNCHANGED <<queue, segment, index, held_off>>
  /\ UNCHANGED <<receipts, alarm, handler, objects, crashes>>

DueUploads == Pending # {}
\* schedule: an alarm for whatever is due first.
Due == \/ Pending # {} \/ outbox # {}
       \/ \E b \in Seen : ledger[b].dated /\ b \notin outbox
Schedule == alarm' = (alarm \/ Due)

Scheduled(c) ==
  /\ consumer[c].pc = "schedule"
  /\ Schedule
  /\ Goto(c, "receipt")
  /\ UNCHANGED <<queue, receipts, tables, handler, objects, crashes>>

\* The receipts, then the acknowledgements; on a failure the group is retried
\* and staged again.
RecordReceipts(c) ==
  LET group == consumer[c].group IN
  /\ consumer[c].pc = "receipt"
  /\ \/ /\ receipts' = receipts \union {m.id : m \in group}
        /\ queue' = queue \ group
     \/ /\ receipts' = receipts
        /\ Retry(group)
  /\ End(c)
  /\ UNCHANGED <<tables, alarm, handler, objects, crashes>>
-----------------------------------------------------------------------------
(* The alarm handler.                                                      *)
Continue(pc) == handler' = pc

\* Prunes, projects what is due (a failure backs off), then uploads unless
\* an upload failed a minute ago or nothing is old or large enough.
Alarm(projected) ==
  /\ alarm /\ handler = "idle"
  /\ alarm' = FALSE
  /\ projected \subseteq outbox
  /\ \E P \in SUBSET Expired : ledger' = Prune(P)
  /\ outbox' = outbox \ projected
  /\ \/ Continue("schedule")
     \/ ~held_off /\ Pending # {} /\ Continue("seal")
  /\ UNCHANGED <<queueVars, pending, segment, index, held_off, objects, crashes>>

SealAgain ==
  /\ handler = "seal"
  /\ \E s \in Segment, S \in SUBSET Pending :
       /\ s \notin DOMAIN objects
       /\ S # {} /\ Cardinality(S) <= SegmentMax
       /\ segment' = s
       /\ pending' = [b \in Batch |-> IF b \in S THEN s ELSE pending[b]]
  /\ Continue("put")
  /\ UNCHANGED <<queueVars, ledger, outbox, index, held_off, alarm, objects, crashes>>

\* The open segment, or a new one over pending rows up to FLUSH_BYTES.
Seal ==
  /\ handler = "seal"
  /\ IF segment # None
     THEN UNCHANGED <<segment, pending>>
     ELSE \E s \in {Cardinality(DOMAIN index) + 1}, S \in SUBSET Pending :
            /\ s \in Segment
            /\ Cardinality(S) = IF Cardinality(Pending) < SegmentMax
                                THEN Cardinality(Pending) ELSE SegmentMax
            /\ segment' = s
            /\ pending' = [b \in Batch |-> IF b \in S THEN s ELSE pending[b]]
  /\ Continue("put")
  /\ UNCHANGED <<queueVars, ledger, outbox, index, held_off, alarm, objects, crashes>>

\* The rows are read and sent; the object is created only if it is missing.
\* A put that fails may have stored it, now or by the time it is tried again.
Body == Rows({b \in Batch : pending[b] = segment})
Created ==
  [s \in DOMAIN objects \union {segment} |->
     IF s \in DOMAIN objects THEN objects[s] ELSE Body]
Put ==
  /\ handler = "put"
  /\ objects' \in {objects, Created}
  /\ Continue("verify")
  /\ UNCHANGED <<queueVars, tables, alarm, crashes>>

\* Created, or found with the same bytes (verifyExisting).
Answered ==
  /\ handler = "verify"
  /\ segment \in DOMAIN objects
  /\ objects[segment] = Body
  /\ Continue("complete")
  /\ UNCHANGED <<queueVars, tables, alarm, objects, crashes>>

\* complete: index, date the ledger rows, drop the pending rows.
Complete ==
  /\ handler = "complete"
  /\ LET done == {b \in Batch : pending[b] = segment}
     IN /\ index' = [s \in DOMAIN index \union {segment} |->
                       IF s = segment THEN Rows(done) ELSE index[s]]
        /\ ledger' = [b \in Batch |->
             IF b \in done THEN [ledger[b] EXCEPT !.dated = TRUE] ELSE ledger[b]]
        /\ pending' = [b \in Batch |->
             IF b \in done THEN None ELSE pending[b]]
  /\ segment' = None
  /\ held_off' = FALSE
  /\ Continue("schedule")
  /\ UNCHANGED <<queueVars, outbox, alarm, objects, crashes>>

\* The put fails or its answer is lost: retry_after and an alarm, then the
\* handler throws.
UploadFails ==
  /\ handler = "verify"
  /\ held_off' = TRUE
  /\ alarm' = TRUE
  /\ Continue("idle")
  /\ UNCHANGED <<queueVars, ledger, pending, outbox, segment, index, objects, crashes>>

EndAlarm ==
  /\ handler = "schedule"
  /\ Schedule
  /\ Continue("idle")
  /\ UNCHANGED <<queueVars, tables, objects, crashes>>

\* A minute passes.
RetryAfter ==
  /\ held_off
  /\ held_off' = FALSE
  /\ UNCHANGED <<queueVars, ledger, pending, outbox, segment, index, alarm,
                 handler, objects, crashes>>

\* The object is evicted or fails: its callers get an error and an alarm
\* whose handler did not return fires again.  The constructor schedules what is
\* due; it runs before the next call, which is taken to come at once.
Crash ==
  /\ crashes < Crashes
  /\ crashes' = crashes + 1
  /\ LET cut == {c \in Consumer : consumer[c].pc = "schedule"}
     IN /\ Retry(UNION {consumer[c].group : c \in cut})
        /\ consumer' = [c \in Consumer |-> IF c \in cut THEN Idle ELSE consumer[c]]
  /\ alarm' = (alarm \/ handler # "idle" \/ Due)
  /\ Continue("idle")
  /\ UNCHANGED <<receipts, tables, objects>>
-----------------------------------------------------------------------------
Consume(c) ==
  \/ \E group \in SUBSET queue : group # {} /\ Stage(c, group)
  \/ Scheduled(c) \/ RecordReceipts(c)
Upload == Seal \/ Put \/ Answered \/ Complete \/ UploadFails \/ EndAlarm

Next ==
  \/ \E c \in Consumer : Consume(c)
  \/ \E projected \in SUBSET outbox : Alarm(projected)
  \/ Upload
  \/ RetryAfter \/ Crash

AlarmDrains == Alarm(outbox) /\ (Pending # {} => handler' = "seal")
PutLands == Put /\ objects' = Created

\* Alarms fire and a handler goes on; R2 and the analytics binding answer
\* again and again if not always.
Fairness ==
  /\ \A c \in Consumer : WF_vars(Scheduled(c))
  /\ WF_vars(Upload) /\ WF_vars(RetryAfter)
  /\ SF_vars(AlarmDrains) /\ SF_vars(PutLands) /\ SF_vars(Answered)

Spec == Init /\ [][Next]_vars
FairSpec == Spec /\ Fairness
-----------------------------------------------------------------------------
\* No batch is in two objects, and an object nothing indexes is that of the
\* open segment: reports and audits that list the objects count each accepted
\* batch once, whatever uploads failed, stalled or were cut short after the
\* object was stored (seal reuses the open segment's key, persistArchiveSegment
\* creates or verifies).
OneObject ==
  /\ \A s, t \in DOMAIN objects :
       \A m \in objects[s], n \in objects[t] : m.id = n.id => s = t
  /\ \A s \in DOMAIN objects :
       IF s \in DOMAIN index
       THEN index[s] = objects[s]
       ELSE s = segment /\ objects[s] = Rows({b \in Batch : pending[b] = s})

\* A batch is kept from its stage transaction on: in the ledger while it can
\* be delivered again, in the index after that.
KeptFacts(b) ==
  IF ledger[b] # Absent
  THEN ledger[b].facts
  ELSE LET rows == {m \in UNION {index[s] : s \in DOMAIN index} : m.id = b}
       IN IF rows = {} THEN None ELSE (CHOOSE m \in rows : TRUE).facts
Archived ==
  {b \in Batch : \E s \in DOMAIN index \intersect DOMAIN objects :
     [id |-> b, facts |-> KeptFacts(b)] \in index[s] \intersect objects[s]}

History == INSTANCE BrowserHistory WITH
  kept <- [b \in Batch |-> KeptFacts(b)],
  archived <- Archived,
  shown <- {b \in Batch : KeptFacts(b) # None /\ b \notin outbox}

\* The shard implements BrowserHistory: the facts of a batch that was staged
\* never change and are never forgotten, a retry of the group, a conflicting
\* batch or an eviction changes nothing, and what was staged is archived and
\* projected in the end.
ArchiveKept == History!FairSpec
=============================================================================
