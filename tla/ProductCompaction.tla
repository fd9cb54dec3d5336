-------------------------- MODULE ProductCompaction --------------------------
(***************************************************************************)
(* Compaction of the product report index.                                 *)
(*                                                                         *)
(* Every sealed batch adds a raw segment to product_report_segments.  A    *)
(* compaction run leases the partition's job, merges at least two active   *)
(* segments into one new R2 object and publishes it in a single D1         *)
(* transaction that retires the sources.  The candidate object is entered  *)
(* in the garbage table before it is written, so that a run that dies      *)
(* leaves work for the cleanup and not a leak; a publication removes the   *)
(* entry.  Retired objects stay readable for a grace period, because a     *)
(* reader works from a snapshot of the index.                              *)
(*                                                                         *)
(* One partition (scope and day) is modelled.  Its events are identified   *)
(* with the raw segments that carry them.                                  *)
(***************************************************************************)
EXTENDS Integers, FiniteSets

CONSTANTS
  Raw,        \* raw segments, named by their reservation
  Merged,     \* the ids crypto.randomUUID draws for merged segments
  Compactor,  \* compaction runs
  Reader,     \* report requests
  None,
  Lease,      \* 60 seconds: the job's lease
  Flight,     \* bound on how long D1 takes to run a bound statement
  Candidate,  \* 10 minutes: an unpublished candidate becomes garbage
  Grace,      \* 1 hour: retired objects stay readable
  ReadLife,   \* 15 seconds: readProductArchive's deadline
  Retry,      \* 15 minutes: a failed partition rests
  Expiry,     \* 31 days after receipt a segment leaves the index
  Day,        \* 1 day: how far apart merged events may lie
  SealLife,   \* bound on how long a request stalls before sealing again
  DayEnd,     \* when the partition's day is over
  MinYoung,   \* 32: segments of one level that make a young day worth merging
  MaxTime     \* bound of the model's clock

Segment == Raw \union Merged

ASSUME CompactionAssumption ==
  /\ Raw \intersect Merged = {}
  /\ {Lease, Flight, Candidate, Grace, ReadLife, Retry, Expiry, Day, SealLife,
      DayEnd, MinYoung, MaxTime} \subseteq Nat
  /\ Lease + Flight < Candidate
  /\ ReadLife + Flight < Grace
  /\ Day < Expiry /\ SealLife < Expiry
  /\ None \notin Nat \union Merged \union Compactor

VARIABLES
  now,
  seg,      \* product_report_segments
  retired,  \* product_batches.object_deleted, of the raw segments' batches
  object,   \* R2: what is stored under each segment's key
  gc,       \* product_object_gc: when the key is to be fenced, or None
  job,      \* the partition's row of product_compaction_jobs
  comp,     \* each compaction run's program counter and locals
  fencing,  \* the key a cleanup run has read as due and not yet fenced
  reader,   \* each report request's snapshot and progress
  looked    \* history: the active segments the last cleaning run saw

vars == <<now, seg, retired, object, gc, job, comp, fencing, reader, looked>>
-----------------------------------------------------------------------------
SegmentRow ==
  [status : {"none", "active", "inactive", "gone"}, level : Nat, events : SUBSET Raw,
   received : Nat, last : Nat, cleanup : Nat]
Stored == [kind : {"absent", "body", "fence"}, events : SUBSET Raw]
JobRow ==
  [epoch : Nat, dirty : BOOLEAN, closed : BOOLEAN, token : Compactor \union {None},
   until : Nat, retryAt : Nat]
RunState ==
  [pc : {"idle", "claimed", "selected", "read", "tracked", "stored", "bound",
         "clean", "failed", "done"},
   epoch : Nat, rows : SUBSET Segment, out : Merged \union {None}, at : Nat,
   saw : SUBSET Segment]
ReaderState ==
  [pc : {"idle", "reading", "broken"}, todo : SUBSET Segment, started : Nat]

TypeOK ==
  /\ now \in Nat
  /\ seg \in [Segment -> SegmentRow]
  /\ retired \subseteq Raw
  /\ object \in [Segment -> Stored]
  /\ gc \in [Segment -> Nat \union {None}]
  /\ job \in JobRow
  /\ comp \in [Compactor -> RunState]
  /\ fencing \subseteq Segment
  /\ reader \in [Reader -> ReaderState]
  /\ looked \subseteq Segment

NoSegment == [status |-> "none", level |-> 0, events |-> {}, received |-> 0,
              last |-> 0, cleanup |-> 0]
NoObject == [kind |-> "absent", events |-> {}]
IdleCompactor == [pc |-> "idle", epoch |-> 0, rows |-> {}, out |-> None,
                  at |-> 0, saw |-> {}]
IdleReader == [pc |-> "idle", todo |-> {}, started |-> 0]

Init ==
  /\ now = 0
  /\ seg = [s \in Segment |-> NoSegment]
  /\ retired = {}
  /\ object = [s \in Segment |-> NoObject]
  /\ gc = [s \in Segment |-> None]
  /\ job = [epoch |-> 0, dirty |-> FALSE, closed |-> FALSE, token |-> None,
            until |-> 0, retryAt |-> 0]
  /\ comp = [c \in Compactor |-> IdleCompactor]
  /\ fencing = {}
  /\ reader = [d \in Reader |-> IdleReader]
  /\ looked = {}
-----------------------------------------------------------------------------
Active(s) == seg[s].status = "active"
Unexpired(s) == now < seg[s].received + Expiry
Body(events) == [kind |-> "body", events |-> events]

(* product_segment_added: any new active row makes the job dirty.          *)
Dirtied == [job EXCEPT !.epoch = @ + 1, !.dirty = TRUE]

(* INSERT OR IGNORE INTO product_object_gc.                                *)
Collect(entries, s, at) == IF entries[s] = None THEN at ELSE entries[s]

(* A batch is sealed: its object is stored and its raw segment indexed.    *)
(* It was received when it is sealed.  The code keeps the time of the      *)
(* reservation, up to ten minutes earlier, so that a batch of the day may  *)
(* also be sealed in the minutes after the day's end; that is left out.    *)
Seal(s) ==
  /\ seg[s].status = "none" /\ object[s] = NoObject
  /\ now < DayEnd
  /\ object' = [object EXCEPT ![s] = Body({s})]
  /\ seg' = [seg EXCEPT ![s] = [status |-> "active", level |-> 0,
       events |-> {s}, received |-> now, last |-> now,
       cleanup |-> now + Expiry]]
  /\ job' = Dirtied
  /\ UNCHANGED <<now, retired, gc, comp, fencing, reader, looked>>

(* A stalled request seals the same batch again: sealProductBatch inserts  *)
(* the row if there is none, unless the batch's object was given up.       *)
ResealableAlways(s) == TRUE
Resealable(s) == s \notin retired

Reseal(s) ==
  /\ object[s].kind # "absent" /\ now <= seg[s].received + SealLife
  /\ IF seg[s].status = "gone" /\ Resealable(s)
       THEN /\ seg' = [seg EXCEPT ![s].status = "active",
                                  ![s].cleanup = seg[s].received + Expiry]
            /\ job' = Dirtied
       ELSE UNCHANGED <<seg, job>>
  /\ UNCHANGED <<now, retired, object, gc, comp, fencing, reader, looked>>
-----------------------------------------------------------------------------
(* A compaction run                                                        *)

Old == DayEnd <= now

Ready ==
  /\ job.dirty \/ (~job.closed /\ Old)
  /\ job.retryAt <= now
  /\ job.until <= now

(* claim: UPDATE ... RETURNING takes the lease and a copy of the row.      *)
Claim(c) ==
  /\ comp[c].pc = "idle"
  /\ job.epoch > 0 /\ Ready
  /\ job' = [job EXCEPT !.token = c, !.until = now + Lease]
  /\ comp' = [comp EXCEPT ![c] =
       [IdleCompactor EXCEPT !.pc = "claimed", !.epoch = job.epoch]]
  /\ UNCHANGED <<now, seg, retired, object, gc, fencing, reader, looked>>

Eligible == {s \in Segment : Active(s) /\ Unexpired(s)}

(* The earliest receipt anchors expiry, so no event may lie more than a    *)
(* day after it.                                                           *)
SpanUnbounded(rows) == TRUE
SpanBounded(rows) ==
  \A s, t \in rows : seg[t].last <= seg[s].received + Day

(* candidates: on a young day only a level with MinYoung rows, all of that *)
(* level.  Byte and count limits may leave any of the rows out.            *)
Selectable(rows) ==
  /\ rows \subseteq Eligible
  /\ Cardinality(rows) >= 2
  /\ SpanBounded(rows)
  /\ Old \/ \E s \in rows :
       /\ \A t \in rows : seg[t].level = seg[s].level
       /\ Cardinality({t \in Eligible : seg[t].level = seg[s].level})
            >= MinYoung

Select(c) ==
  /\ comp[c].pc = "claimed"
  /\ \/ \E rows \in SUBSET Eligible :
          /\ Selectable(rows)
          /\ comp' = [comp EXCEPT ![c].pc = "selected", ![c].rows = rows]
     \/ comp' = [comp EXCEPT ![c].pc = "clean",
                             ![c].saw = {s \in Segment : Active(s)}]
  /\ UNCHANGED <<now, seg, retired, object, gc, job, fencing, reader, looked>>

(* Nothing to merge: the job is clean if no segment came in meanwhile.     *)
MarkCleanAlways(c) ==
  [job EXCEPT !.dirty = FALSE, !.closed = Old, !.retryAt = 0]
MarkClean(c) ==
  IF job.token = c /\ job.epoch = comp[c].epoch
    THEN [job EXCEPT !.dirty = FALSE, !.closed = Old, !.retryAt = 0]
    ELSE job

Clean(c) ==
  /\ comp[c].pc = "clean"
  /\ job' = MarkClean(c)
  /\ looked' = IF job.dirty /\ ~job'.dirty THEN comp[c].saw ELSE looked
  /\ comp' = [comp EXCEPT ![c].pc = "done", ![c].saw = {}]
  /\ UNCHANGED <<now, seg, retired, object, gc, fencing, reader>>

(* merge reads and verifies every source; a missing or changed object, or  *)
(* an event found twice, fails the run.                                    *)
ReadSources(c) ==
  /\ comp[c].pc = "selected"
  /\ comp' = [comp EXCEPT ![c].pc =
       IF /\ \A s \in comp[c].rows : object[s] = Body(seg[s].events)
          /\ \A s, t \in comp[c].rows :
               s # t => seg[s].events \intersect seg[t].events = {}
         THEN "read" ELSE "failed"]
  /\ UNCHANGED <<now, seg, retired, object, gc, job, fencing, reader, looked>>

MergedEvents(c) == UNION {seg[s].events : s \in comp[c].rows}

(* The candidate is tracked before R2 knows it.                            *)
CandidateGcMissing == None
CandidateGc == now + Candidate

TrackCandidate(c) ==
  /\ comp[c].pc = "read"
  /\ \E m \in Merged :
       /\ seg[m].status = "none" /\ object[m] = NoObject /\ gc[m] = None
       /\ \A d \in Compactor : comp[d].out # m
       /\ gc' = [gc EXCEPT ![m] = CandidateGc]
       /\ comp' = [comp EXCEPT ![c].pc = "tracked", ![c].out = m]
  /\ UNCHANGED <<now, seg, retired, object, job, fencing, reader, looked>>

(* The conditional create of the merged object.                            *)
StoreCandidate(c) ==
  /\ comp[c].pc = "tracked"
  /\ LET m == comp[c].out IN
     IF object[m] = NoObject
       THEN /\ object' = [object EXCEPT ![m] = Body(MergedEvents(c))]
            /\ comp' = [comp EXCEPT ![c].pc = "stored"]
       ELSE /\ comp' = [comp EXCEPT ![c].pc = "failed"]
            /\ UNCHANGED object
  /\ UNCHANGED <<now, seg, retired, gc, job, fencing, reader, looked>>

(* publishProductSegment computes its clock before D1 runs the statements. *)
Bind(c) ==
  /\ comp[c].pc = "stored"
  /\ comp' = [comp EXCEPT ![c].pc = "bound", ![c].at = now]
  /\ UNCHANGED <<now, seg, retired, object, gc, job, fencing, reader, looked>>

(* The first statement's WHERE: the lease is held and was valid at the     *)
(* bound clock, and every source is still active and young.                *)
LeaseHeldAnyTime(c) == job.token = c
LeaseHeld(c) == job.token = c /\ comp[c].at < job.until

SourcesActive(c) == \A s \in comp[c].rows :
  Active(s) /\ comp[c].at < seg[s].received + Expiry

MinOf(S) == CHOOSE x \in S : \A y \in S : x <= y
MaxOf(S) == CHOOSE x \in S : \A y \in S : y <= x

MergedSegment(c) ==
  LET rows == comp[c].rows IN
  LET received == MinOf({seg[s].received : s \in rows}) IN
  [status |-> "active",
   level |-> 1 + MaxOf({seg[s].level : s \in rows}),
   events |-> MergedEvents(c),
   received |-> received,
   last |-> MaxOf({seg[s].last : s \in rows}),
   cleanup |-> received + Expiry]

(* A published candidate is no longer garbage; its sources are, later.     *)
SourceGcNow(c) == comp[c].at
SourceGc(c) == comp[c].at + Grace

GcAfterPublish(c, s) ==
  IF s = comp[c].out THEN None
  ELSE IF s \in comp[c].rows THEN Collect(gc, s, SourceGc(c))
  ELSE gc[s]

(* publishProductSegment's transaction: all of it, or nothing.             *)
Publish(c) ==
  /\ comp[c].pc = "bound"
  /\ IF LeaseHeld(c) /\ SourcesActive(c)
       THEN /\ seg' = [s \in Segment |->
                 IF s = comp[c].out THEN MergedSegment(c)
                 ELSE IF s \in comp[c].rows
                   THEN [seg[s] EXCEPT !.status = "inactive",
                                       !.cleanup = comp[c].at + Grace]
                 ELSE seg[s]]
            /\ retired' = retired \union (comp[c].rows \intersect Raw)
            /\ gc' = [s \in Segment |-> GcAfterPublish(c, s)]
            /\ job' = [Dirtied EXCEPT !.retryAt = 0]
       ELSE UNCHANGED <<seg, retired, gc, job>>
  /\ comp' = [comp EXCEPT ![c].pc = "done"]
  /\ UNCHANGED <<now, object, fencing, reader, looked>>

(* catch: a failed partition rests, if this run still holds the lease.     *)
Fail(c) ==
  /\ comp[c].pc = "failed"
  /\ job' = IF job.token = c
       THEN [job EXCEPT !.dirty = TRUE, !.retryAt = now + Retry] ELSE job
  /\ comp' = [comp EXCEPT ![c].pc = "done"]
  /\ UNCHANGED <<now, seg, retired, object, gc, fencing, reader, looked>>

(* finally: the lease is given back, if it is still this run's.            *)
ReleasedNull == [job EXCEPT !.token = None, !.until = None]
Released == [job EXCEPT !.token = None, !.until = 0]

Release(c) ==
  /\ comp[c].pc = "done"
  /\ job' = IF job.token = c THEN Released ELSE job
  /\ comp' = [comp EXCEPT ![c] = IdleCompactor]
  /\ UNCHANGED <<now, seg, retired, object, gc, fencing, reader, looked>>

(* Any call of the run may throw...                                        *)
Throw(c) ==
  /\ comp[c].pc \in {"claimed", "selected", "read", "tracked", "stored",
                     "bound", "clean"}
  /\ comp' = [comp EXCEPT ![c].pc = "failed"]
  /\ UNCHANGED <<now, seg, retired, object, gc, job, fencing, reader, looked>>

(* ... and the isolate may end anywhere, leaving its lease to expire.      *)
Die(c) ==
  /\ comp[c].pc # "idle"
  /\ comp' = [comp EXCEPT ![c] = IdleCompactor]
  /\ UNCHANGED <<now, seg, retired, object, gc, job, fencing, reader, looked>>
-----------------------------------------------------------------------------
(* Cleanup                                                                 *)

(* retireRawReferences: a raw object 31 days old leaves the index.         *)
RetireRaw(s) ==
  /\ s \notin retired /\ object[s].kind = "body"
  /\ seg[s].received + Expiry <= now
  /\ seg' = [seg EXCEPT ![s].status = IF @ = "active" THEN "inactive" ELSE @,
                        ![s].cleanup = now + Grace]
  /\ gc' = [gc EXCEPT ![s] = Collect(gc, s, now + Grace)]
  /\ retired' = retired \union {s}
  /\ UNCHANGED <<now, object, job, comp, fencing, reader, looked>>

(* cleanupProductSegments: a due row that is active and young is put off;  *)
(* any other goes, and its object follows after the grace period.          *)
CleanupSegment(s) ==
  /\ seg[s].status \in {"active", "inactive"}
  /\ seg[s].cleanup <= now
  /\ IF Active(s) /\ Unexpired(s)
       THEN /\ seg' = [seg EXCEPT ![s].cleanup = seg[s].received + Expiry]
            /\ UNCHANGED gc
       ELSE /\ seg' = [seg EXCEPT ![s].status = "gone"]
            /\ gc' = [gc EXCEPT ![s] = Collect(gc, s, now + Grace)]
  /\ UNCHANGED <<now, retired, object, job, comp, fencing, reader, looked>>

(* cleanupObjects reads the due keys and overwrites them one by one (the   *)
(* tombstone's own removal is in ProductIngest).                           *)
PickGarbage(s) ==
  /\ gc[s] # None /\ gc[s] <= now
  /\ fencing = {} /\ object[s].kind # "fence"
  /\ fencing' = {s}
  /\ UNCHANGED <<now, seg, retired, object, gc, job, comp, reader, looked>>

Fence(s) ==
  /\ s \in fencing
  /\ object' = [object EXCEPT ![s] = [kind |-> "fence", events |-> {}]]
  /\ fencing' = fencing \ {s}
  /\ UNCHANGED <<now, seg, retired, gc, job, comp, reader, looked>>
-----------------------------------------------------------------------------
(* Reports                                                                 *)

(* readProductArchive selects the active segments...                       *)
Snapshot(d) ==
  /\ reader[d].pc = "idle"
  /\ reader' = [reader EXCEPT ![d] =
       [pc |-> "reading", todo |-> {s \in Segment : Active(s)},
        started |-> now]]
  /\ UNCHANGED <<now, seg, retired, object, gc, job, comp, fencing, looked>>

(* ... and reads them one at a time; a missing or changed one is an error. *)
ReadObject(d) ==
  /\ reader[d].pc = "reading"
  /\ \E s \in reader[d].todo :
       reader' = [reader EXCEPT
         ![d].todo = @ \ {s},
         ![d].pc = IF object[s] = Body(seg[s].events) THEN @ ELSE "broken"]
  /\ UNCHANGED <<now, seg, retired, object, gc, job, comp, fencing, looked>>

(* The report is complete, or its deadline passed.                         *)
FinishRead(d) ==
  /\ reader[d].pc = "reading"
  /\ reader[d].todo = {} \/ now = reader[d].started + ReadLife
  /\ reader' = [reader EXCEPT ![d] = IdleReader]
  /\ UNCHANGED <<now, seg, retired, object, gc, job, comp, fencing, looked>>

(* Time passes; a bound statement runs within Flight, a reader stops at    *)
(* its deadline, and a due raw object is retired before the next day.      *)
Tick ==
  /\ now < MaxTime
  /\ \A c \in Compactor : comp[c].pc = "bound" => now < comp[c].at + Flight
  /\ \A d \in Reader : reader[d].pc = "reading" =>
                         now < reader[d].started + ReadLife
  /\ now' = now + 1
  /\ UNCHANGED <<seg, retired, object, gc, job, comp, fencing, reader, looked>>

Compact(c) ==
  \/ Claim(c) \/ Select(c) \/ Clean(c) \/ ReadSources(c)
  \/ TrackCandidate(c) \/ StoreCandidate(c) \/ Bind(c) \/ Publish(c)
  \/ Fail(c) \/ Release(c) \/ Throw(c) \/ Die(c)

Cleanup(s) == CleanupSegment(s) \/ PickGarbage(s) \/ Fence(s)

Next ==
  \/ \E s \in Raw : Seal(s) \/ Reseal(s) \/ RetireRaw(s)
  \/ \E c \in Compactor : Compact(c)
  \/ \E s \in Segment : Cleanup(s)
  \/ \E d \in Reader : Snapshot(d) \/ ReadObject(d) \/ FinishRead(d)
  \/ Tick

Spec == Init /\ [][Next]_vars
-----------------------------------------------------------------------------
(* Properties                                                              *)

Accepted == {s \in Raw : object[s].kind # "absent"}

(* Until 30 days after it happened an accepted event is in the report      *)
(* index, and at no time is it there twice: whatever runs die, overlap or  *)
(* lose their lease (the publication transaction, candidates' day limit).  *)
CountedOnce ==
  \A e \in Accepted :
    LET holders == {s \in Segment : Active(s) /\ e \in seg[s].events} IN
    /\ Cardinality(holders) <= 1
    /\ now < seg[e].last + Expiry - Day => holders # {}

(* An indexed segment's object holds exactly its events: no cleanup of a   *)
(* candidate overtakes its publication (lease against candidate expiry).   *)
IndexedIntact ==
  \A s \in Segment : Active(s) => object[s] = Body(seg[s].events)

(* A report finds every object of its snapshot, however the index changes  *)
(* under it: retired objects outlive the reader's deadline.                *)
SnapshotReadable == \A d \in Reader : reader[d].pc # "broken"

(* Every stored object is in the index or in the garbage table, also when  *)
(* a compaction run dies between its writes.                               *)
NothingLeaks ==
  \A s \in Segment :
    object[s].kind = "body" =>
      seg[s].status \in {"active", "inactive"} \/ gc[s] # None

(* A segment that arrives after a run looked is not forgotten: while the   *)
(* job is clean, the run that cleaned it had every active segment in sight *)
(* (the epoch of product_segment_added in the clean UPDATE).               *)
NoMissedSegment ==
  ~job.dirty => \A s \in Segment : Active(s) => s \in looked
=============================================================================
