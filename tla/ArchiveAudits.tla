---------------------------- MODULE ArchiveAudits ----------------------------
(***************************************************************************)
(* The resumable audit of one day of the browser archive: a job compares   *)
(* the receipts in D1 with the rows of the archived segments in slices,    *)
(* under a lease.  Facts, segments and cursors of a slice commit together, *)
(* and only while the job row still carries the slice's token.             *)
(*                                                                         *)
(* One workspace and day.  A segment is its object key, a number, as the   *)
(* pages are ordered by key; a batch is an identity with a digest.         *)
(***************************************************************************)
EXTENDS Integers, FiniteSets, SequencesExt

CONSTANTS
  Runner,        \* invocations that process slices
  Shards,        \* SHARD_COUNT
  Segment,       \* archived objects that hold an event of the day
  Early,         \* those archived before the first audit
  ShardOf,       \* segment -> 1..Shards
  Rows,          \* segment -> sequence of batches [id, facts]
  Receipts,      \* receipts in the order of their rowids: [id, facts]
  InDay,         \* batches with an event on the day
  Budget,        \* MAX_FACTS_PER_SLICE
  ReceiptsPerSlice, SegmentsPerPage, ShardsPerSlice,
  Retries,       \* failures of a slice until the job gives up
  None

AuditScale ==
  /\ {Shards, Budget, ReceiptsPerSlice, SegmentsPerPage, ShardsPerSlice, Retries}
       \subseteq Nat \ {0}
  /\ Segment \subseteq Nat \ {0}
  /\ ShardOf \in [Segment -> 1..Shards]

VARIABLES
  index,     \* archive_day_segments: per shard, segments in index order
  accepted,  \* rowid of the newest receipt
  forgotten, \* rowids the retention has removed
  job,       \* browser_archive_audit_jobs with its facts and segments
  slice      \* per runner: the writes it has prepared, or None

vars == <<index, accepted, forgotten, job, slice>>
-----------------------------------------------------------------------------
Id == UNION {{Rows[s][i].id : i \in DOMAIN Rows[s]} : s \in Segment}
        \union {Receipts[n].id : n \in DOMAIN Receipts}
NoFact == [received |-> FALSE, receipt |-> None, count |-> 0, archive |-> None]
NewShard == [snapshot |-> None, cursor |-> 0, exhausted |-> FALSE]
NoPartial == [segment |-> None, offset |-> 0, shard |-> 0]

Listed(h) == {index[h][i] : i \in DOMAIN index[h]}
Archived == UNION {Listed(h) : h \in 1..Shards}
\* Receipts of the day up to a rowid.
Received(low, high) ==
  {n \in 1..accepted : n \notin forgotten /\ low < n /\ n <= high}

TypeOK ==
  /\ index \in [1..Shards -> SeqOf(Segment, Cardinality(Segment))]
  /\ accepted \in 0..Len(Receipts) /\ forgotten \subseteq 1..accepted
  /\ job # None =>
       /\ job.status \in {"queued", "running", "finished", "incomplete"}
       /\ job.phase \in {"receipts", "archive_index", "finalize", "done"}
       /\ job.token \in Runner \union {None}
       /\ job.seen \subseteq Segment
       /\ DOMAIN job.facts = Id
       /\ job.failures \in 0..Retries
  /\ \A r \in Runner : slice[r] # None =>
       slice[r].writes \in {"receipts", "index", "finish", "phase", "stop"}

Init ==
  /\ index = [h \in 1..Shards |->
                SetToSortSeq({s \in Early : ShardOf[s] = h}, <)]
  /\ accepted = 0
  /\ forgotten = {}
  /\ job = None
  /\ slice = [r \in Runner |-> None]
-----------------------------------------------------------------------------
(* What changes under the audit.                                           *)
Archive(s) ==
  /\ s \notin Archived
  /\ index' = [index EXCEPT ![ShardOf[s]] = Append(@, s)]
  /\ UNCHANGED <<accepted, forgotten, job, slice>>

Accept ==
  /\ accepted < Len(Receipts)
  /\ accepted' = accepted + 1
  /\ UNCHANGED <<index, forgotten, job, slice>>
Forget(n) ==
  /\ n \in Received(0, accepted)
  /\ forgotten' = forgotten \union {n}
  /\ UNCHANGED <<index, accepted, job, slice>>
-----------------------------------------------------------------------------
(* The job's row: its start by the owner, its expiry and its removal.      *)
Active == job # None /\ job.status \in {"queued", "running"}
Lost == job # None /\ job.reasons = {"audit_job_expired"}

startBrowserArchiveAuditJob ==
  /\ job = None \/ Lost
  /\ job' = [status |-> "queued", phase |-> "receipts",
             token |-> None, leased |-> FALSE, failures |-> 0, reasons |-> {},
             high |-> Max({0} \union Received(0, accepted)),
             expected |-> Cardinality(Received(0, accepted)),
             cursor |-> 0, processed |-> 0,
             shards |-> [h \in 1..Shards |-> NewShard], partial |-> NoPartial,
             seen |-> {}, facts |-> [i \in Id |-> NoFact]]
  /\ UNCHANGED <<index, accepted, forgotten, slice>>

Incomplete(j, reason) ==
  [j EXCEPT !.status = "incomplete", !.phase = "done", !.token = None,
            !.reasons = @ \union {reason}]
expireActiveAuditJobs ==
  /\ Active
  /\ job' = Incomplete(job, "audit_job_expired")
  /\ UNCHANGED <<index, accepted, forgotten, slice>>
cleanupExpiredBrowserArchiveAuditJobs ==
  /\ job # None /\ ~Active
  /\ job' = None
  /\ UNCHANGED <<index, accepted, forgotten, slice>>
LeaseOver ==
  /\ Active /\ job.token # None /\ job.leased
  /\ job' = [job EXCEPT !.leased = FALSE]
  /\ UNCHANGED <<index, accepted, forgotten, slice>>
-----------------------------------------------------------------------------
(* What a slice will write, from what it reads under its lease.            *)
Stop(reason) == [writes |-> "stop", reason |-> reason]

\* Rows of segments that are not counted yet, the one in progress first.
Entries(segments, partial) ==
  FlattenSeq([k \in DOMAIN segments |->
    LET s == segments[k]
        from == IF s = partial.segment THEN partial.offset ELSE 0
    IN [i \in 1..(Len(Rows[s]) - from) |-> <<s, from + i>>]])

validatePartialSegment(segments, partial, shard) ==
  partial.segment # None =>
    /\ segments # << >> /\ segments[1] = partial.segment
    /\ partial.shard = shard

\* readSegmentFacts: the next rows within the budget, the segments they
\* complete and the one they leave in progress.
Scan(segments, partial, budget, shard) ==
  LET all == Entries(segments, partial)
      taken == SubSeq(all, 1, Min({budget, Len(all)}))
      Done(s) == \A i \in DOMAIN all : all[i][1] = s => i <= Len(taken)
      open == {i \in DOMAIN taken : ~Done(taken[i][1])}
  IN [rows |-> taken,
      segments |-> {s \in Range(segments) : Done(s)},
      partial |-> IF open = {} THEN NoPartial
                  ELSE [segment |-> taken[Max(open)][1],
                        offset |-> taken[Max(open)][2], shard |-> shard],
      done |-> Len(taken) = Len(all)]

\* archiveSegmentForBatch of every receipt, without repetition.  Of the segments
\* that hold a batch the code finds the one that was indexed first, here the least.
Candidates(page) ==
  LET Found(n) == {s \in Archived : \E i \in DOMAIN Rows[s] :
                                      Rows[s][i].id = Receipts[n].id}
      refs == [k \in DOMAIN page |-> IF Found(page[k]) = {} THEN None
                                     ELSE Min(Found(page[k]))]
      first == SelectSeq([k \in DOMAIN page |-> k], LAMBDA k :
                 refs[k] # None /\ \A i \in 1..(k - 1) : refs[i] # refs[k])
  IN [k \in DOMAIN first |-> refs[first[k]]]
Fresh(segments) == SelectSeq(segments, LAMBDA s : s \notin job.seen)

processReceiptSlice ==
  LET left == SetToSortSeq(Received(job.cursor, job.high), <)
      page == SubSeq(left, 1, Min({ReceiptsPerSlice, Len(left)}))
      fresh == Fresh(Candidates(page))
      scan == Scan(fresh, job.partial, Budget, None)
  IN IF page = << >>
     THEN IF job.processed # job.expected
          THEN Stop("archive_index_snapshot_changed")
          ELSE [writes |-> "phase"]
     ELSE IF ~validatePartialSegment(fresh, job.partial, None)
          THEN Stop("archive_segment_snapshot_changed")
          ELSE [writes |-> "receipts", scan |-> scan,
                page |-> IF scan.done THEN Range(page) ELSE {}]

\* A page asks for one row more than it returns; without it none follows.
FollowingUnasked(rows, page) == 0
Following(rows, page) == IF Len(rows) > Len(page) THEN page[Len(page)] ELSE 0

\* archiveSegmentsForEventDay
Page(h, state) ==
  LET snapshot == IF state.cursor = 0 THEN Len(index[h]) ELSE state.snapshot
      rows == SetToSortSeq({index[h][i] : i \in 1..snapshot} \ (0..state.cursor), <)
      page == SubSeq(rows, 1, Min({SegmentsPerPage, Len(rows)}))
  IN [segments |-> page, snapshot |-> snapshot,
      next |-> Following(rows, page)]

\* One page of a shard within what is left of the slice.
readArchiveIndexPage(acc, h) ==
  LET state == acc.shards[h]
      page == Page(h, state)
      fresh == SelectSeq(Fresh(page.segments), LAMBDA s : s \notin acc.segments)
      scan == Scan(fresh, acc.partial, Budget - Len(acc.rows), h)
      next == IF scan.done
              THEN [snapshot |-> page.snapshot, cursor |-> page.next,
                    exhausted |-> page.next = 0]
              ELSE [state EXCEPT !.snapshot = page.snapshot]
  IN IF state.snapshot \notin {None, page.snapshot}
     THEN [acc EXCEPT !.stop = "archive_index_snapshot_changed"]
     ELSE IF ~validatePartialSegment(fresh, acc.partial, h)
     THEN [acc EXCEPT !.stop = "archive_segment_snapshot_changed"]
     ELSE [acc EXCEPT !.pages = @ + 1, !.shards[h] = next,
                      !.partial = scan.partial, !.rows = @ \o scan.rows,
                      !.segments = @ \union scan.segments,
                      !.full = ~scan.done \/ Len(acc.rows \o scan.rows) = Budget]

processArchiveIndexSlice ==
  LET Skipped(acc, h) ==
        \/ acc.stop # None \/ acc.full \/ acc.pages = ShardsPerSlice
        \/ acc.partial.segment # None /\ acc.partial.shard # h
        \/ acc.shards[h].exhausted
      acc == FoldLeft(
        LAMBDA a, h : IF Skipped(a, h) THEN a ELSE readArchiveIndexPage(a, h),
        [stop |-> None, full |-> FALSE, pages |-> 0, shards |-> job.shards,
         partial |-> job.partial, rows |-> << >>, segments |-> {}],
        [h \in 1..Shards |-> h])
  IN IF acc.stop # None THEN Stop(acc.stop)
     ELSE [writes |-> "index", scan |-> acc]
-----------------------------------------------------------------------------
(* A runner claims the lease and prepares the writes of one slice.         *)
Prepared ==
  CASE job.phase = "receipts" -> processReceiptSlice
    [] job.phase = "archive_index" -> processArchiveIndexSlice
    [] job.phase = "finalize" -> [writes |-> "finish"]

Claim(r) ==
  /\ slice[r] = None
  /\ Active /\ (job.token = None \/ ~job.leased)
  /\ job' = [job EXCEPT !.token = r, !.leased = TRUE]
  /\ slice' = [slice EXCEPT ![r] = Prepared]
  /\ UNCHANGED <<index, accepted, forgotten>>

\* Every statement of a slice asks for the token the slice was claimed with.
HeldByAnyone(r) == Active
Held(r) == Active /\ job.token = r

\* The upserts of a slice's rows: each adds one to its batch's count.
Batch(entry) == Rows[entry[1]][entry[2]]
Relevant(entry, all) ==
  all \/ Batch(entry).id \in InDay \/ job.facts[Batch(entry).id].received
Compared(rows, all) ==
  [i \in Id |->
     LET own == SelectSeq(rows, LAMBDA e : Batch(e).id = i /\ Relevant(e, all))
         fact == job.facts[i]
     IN IF own = << >> THEN fact
        ELSE [fact EXCEPT !.count = @ + Len(own),
                          !.archive = IF fact.count = 0 THEN Batch(own[1]).facts ELSE @]]
WithReceipts(facts, page) ==
  [i \in Id |->
     IF \E n \in page : Receipts[n].id = i
     THEN [facts[i] EXCEPT !.received = TRUE,
             !.receipt = (CHOOSE n \in page : Receipts[n].id = i)]
     ELSE facts[i]]

Released(j) == [j EXCEPT !.token = None, !.status = "running"]
Counted(j, scan, all) ==
  [j EXCEPT !.facts = Compared(scan.rows, all), !.seen = @ \union scan.segments,
            !.partial = scan.partial]

CommitReceipts(w) ==
  LET j == Counted(job, w.scan, TRUE)
  IN Released([j EXCEPT !.facts = WithReceipts(@, w.page),
                        !.processed = @ + Cardinality(w.page),
                        !.cursor = Max({@} \union w.page)])
CommitIndex(w) ==
  Released([Counted(job, w.scan, FALSE) EXCEPT
    !.shards = w.scan.shards,
    !.phase = IF \A h \in 1..Shards : w.scan.shards[h].exhausted
              THEN "finalize" ELSE "archive_index"])
finalizeAuditJob ==
  LET received == Cardinality({i \in Id : job.facts[i].received})
  IN [job EXCEPT !.status = "finished", !.phase = "done", !.token = None,
                 !.reasons = @ \union IF received # job.expected
                   THEN {"receipt_count_changed_during_audit"} ELSE {}]

Committed(w) ==
  CASE w.writes = "receipts" -> CommitReceipts(w)
    [] w.writes = "index" -> CommitIndex(w)
    [] w.writes = "phase" -> Released([job EXCEPT !.phase = "archive_index"])
    [] w.writes = "finish" -> finalizeAuditJob
    [] w.writes = "stop" -> Incomplete(job, w.reason)

\* A slice whose token is gone writes nothing; so does one that dies.
Commit(r) ==
  /\ slice[r] # None
  /\ job' = IF Held(r) THEN Committed(slice[r]) ELSE job
  /\ slice' = [slice EXCEPT ![r] = None]
  /\ UNCHANGED <<index, accepted, forgotten>>

\* A read fails or the batch is refused: the third failure ends the job.
SliceFails(r) ==
  /\ slice[r] # None
  /\ job' = IF ~Held(r) THEN job
            ELSE IF job.failures + 1 >= Retries
                 THEN Incomplete(job, "audit_slice_retries_exhausted")
                 ELSE [job EXCEPT !.failures = @ + 1, !.token = None]
  /\ slice' = [slice EXCEPT ![r] = None]
  /\ UNCHANGED <<index, accepted, forgotten>>
Dies(r) ==
  /\ slice[r] # None
  /\ slice' = [slice EXCEPT ![r] = None]
  /\ UNCHANGED <<index, accepted, forgotten, job>>
-----------------------------------------------------------------------------
World ==
  \/ \E s \in Segment : Archive(s)
  \/ Accept \/ \E n \in 1..accepted : Forget(n)
Process(r) == Claim(r) \/ Commit(r) \/ SliceFails(r) \/ Dies(r)
Next ==
  \/ World
  \/ startBrowserArchiveAuditJob \/ expireActiveAuditJobs
  \/ cleanupExpiredBrowserArchiveAuditJobs \/ LeaseOver
  \/ \E r \in Runner : Process(r)

Spec == Init /\ [][Next]_vars
-----------------------------------------------------------------------------
(* What the job says of a batch, and what the synchronous audit would.     *)

\* countAuditFact
Verdict(i) ==
  LET f == job.facts[i]
  IN CASE ~f.received -> IF f.count > 0 THEN "archive_without_d1_receipt" ELSE "absent"
       [] f.received /\ Receipts[f.receipt].facts = None -> "legacy_receipt"
       [] OTHER ->
            CASE f.count = 0 -> "missing_archive_fact"
              [] f.count > 1 -> "duplicate_archive_fact"
              [] f.archive = None -> "archive_digest_missing"
              [] OTHER -> IF f.archive = Receipts[f.receipt].facts
                          THEN "matched" ELSE "digest_mismatch"

\* reconcileBrowserArchiveDay over receipts and segments: receiptState
Occurrences(i, segments) ==
  {e \in UNION {{<<s, k>> : k \in DOMAIN Rows[s]} : s \in segments} : Batch(e).id = i}
Reconciled(i, receipts, segments) ==
  LET found == Occurrences(i, segments)
      own == {n \in receipts : Receipts[n].id = i}
      receipt == Receipts[CHOOSE n \in own : TRUE].facts
      archive == Batch(CHOOSE e \in found : TRUE).facts
  IN CASE own = {} -> IF found # {} THEN "archive_without_d1_receipt" ELSE "absent"
       [] own # {} /\ receipt = None -> "legacy_receipt"
       [] OTHER ->
            CASE found = {} -> "missing_archive_fact"
              [] Cardinality(found) > 1 -> "duplicate_archive_fact"
              [] archive = None -> "archive_digest_missing"
              [] OTHER -> IF archive = receipt THEN "matched" ELSE "digest_mismatch"

\* However slices fail, repeat and overlap, every row of a counted segment has
\* been counted once, and no other but those of the segment in progress.
CountedOnce ==
  job # None => \A i \in InDay :
    job.facts[i].count =
      Cardinality(Occurrences(i, job.seen))
        + Cardinality({e \in Occurrences(i, {job.partial.segment} \ {None}) :
                         e[2] <= job.partial.offset})

\* A job that finished without a reason compared every receipt it found at its
\* start with every segment its index pages listed, and says of each batch of
\* the day what the synchronous audit says of the same receipts and segments.
FinishedAgrees ==
  job # None /\ job.status = "finished" /\ job.reasons = {} =>
    LET compared == {job.facts[i].receipt : i \in {k \in Id : job.facts[k].received}}
    IN /\ Cardinality(compared) = job.expected
       /\ \A h \in 1..Shards :
            {index[h][k] : k \in 1..job.shards[h].snapshot} \subseteq job.seen
       /\ \A i \in InDay : Verdict(i) = Reconciled(i, compared, job.seen)
=============================================================================
