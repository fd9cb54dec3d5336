----------------------- MODULE ProductCompactionProofs -----------------------
(***************************************************************************)
(* Proofs about ProductCompaction: every indexed segment has its object,   *)
(* nothing stored is lost sight of, no report finds a hole, no event is    *)
(* counted twice or dropped early and no clean job has missed a segment,   *)
(* for any segments, runs and reports and any times that meet              *)
(* CompactionAssumption.                                                   *)
(***************************************************************************)
EXTENDS ProductCompaction, FiniteSetTheorems, WellFoundedInduction, TLAPS

Present(s) == seg[s].status # "none"
-----------------------------------------------------------------------------
(* The rows of the index.                                                  *)

\* A raw row is there exactly when its object was stored, carries its own event,
\* and leaves the index when its batch is retired or 31 days old, not before.
RawRows ==
  \A s \in Raw :
    /\ object[s].kind # "absent" => Present(s)
    /\ Present(s) => seg[s].events = {s} /\ seg[s].last = seg[s].received
    /\ ~Present(s) => gc[s] = None
    /\ seg[s].status \in {"inactive", "gone"} =>
         s \in retired \/ seg[s].received + Expiry <= now

\* Times lie in the past, and no level exceeds the number of changes.
RowScale ==
  \A s \in Segment : Present(s) => seg[s].last <= now /\ seg[s].level <= job.epoch

\* A row's events were sealed, none later than the row says, and none more than
\* a day after the receipt that the row expires by.
Spans ==
  \A s \in Segment : Present(s) =>
    \A e \in seg[s].events :
      /\ Present(e)
      /\ seg[e].last <= seg[s].last
      /\ seg[e].last <= seg[s].received + Day

Disjoint ==
  \A s, t \in Segment :
    Active(s) /\ Active(t) /\ s # t => seg[s].events \intersect seg[t].events = {}

Held ==
  \A e \in Raw : Present(e) /\ now < seg[e].last + Expiry - Day =>
    \E s \in Segment : Active(s) /\ e \in seg[s].events

\* An active row's object is whole, and nobody is to remove it.
ActiveKept ==
  \A s \in Segment : Active(s) => gc[s] = None /\ object[s] = Body(seg[s].events)

Rows ==
  /\ RawRows /\ RowScale /\ Spans /\ Disjoint /\ Held /\ ActiveKept /\ NothingLeaks
-----------------------------------------------------------------------------
(* The runs, the cleanup and the reports.                                  *)

\* The fence follows an entry that is due.
FenceDue ==
  \A s \in Segment :
    s \in fencing \/ object[s].kind = "fence" => gc[s] # None /\ gc[s] <= now

LeaseShort == job.until <= now + Lease

AtWork == {"selected", "read", "tracked", "stored", "bound"}

\* The sources of a run exist and lie within a day of one another.
SourcesOf(c) ==
  comp[c].pc \in AtWork =>
    /\ comp[c].rows # {}
    /\ \A s \in comp[c].rows : Present(s)
    /\ SpanBounded(comp[c].rows)

\* Its candidate is not indexed yet, and while the run holds the lease the
\* candidate is not due before the lease and a last statement have ended.
CandidateOf(c) ==
  comp[c].pc \in {"tracked", "stored", "bound"} =>
    /\ comp[c].out # None
    /\ ~Present(comp[c].out)
    /\ gc[comp[c].out] # None
    /\ job.token = c => job.until + Flight < gc[comp[c].out]

StoredBy(c) ==
  comp[c].pc \in {"stored", "bound"} =>
    object[comp[c].out] = Body(MergedEvents(c)) \/ object[comp[c].out].kind = "fence"

BoundBy(c) ==
  comp[c].pc = "bound" => comp[c].at <= now /\ now <= comp[c].at + Flight

\* A run that is about to mark the job clean has seen every active row, unless
\* the epoch has moved on.
SeenBy(c) ==
  /\ comp[c].epoch <= job.epoch
  /\ comp[c].pc = "clean" /\ comp[c].epoch = job.epoch =>
       \A s \in Segment : Active(s) => s \in comp[c].saw

Run(c) == SourcesOf(c) /\ CandidateOf(c) /\ StoredBy(c) /\ BoundBy(c) /\ SeenBy(c)
Runs == \A c \in Compactor : Run(c)

OutsApart ==
  \A c, d \in Compactor : c # d /\ comp[c].out # None => comp[c].out # comp[d].out

\* What a report still has to read is whole, and stays so until its deadline.
ReaderOK(d) ==
  reader[d].pc = "reading" =>
    /\ reader[d].started <= now /\ now <= reader[d].started + ReadLife
    /\ \A s \in reader[d].todo :
         /\ Present(s)
         /\ object[s] = Body(seg[s].events)
         /\ gc[s] # None => reader[d].started + ReadLife < gc[s]
Readers == \A d \in Reader : ReaderOK(d)

Others ==
  /\ FenceDue /\ LeaseShort /\ Runs /\ OutsApart /\ Readers
  /\ SnapshotReadable /\ NoMissedSegment

IInv == TypeOK /\ Rows /\ Others
-----------------------------------------------------------------------------
(* Facts about the operators.                                              *)

\* A non-empty set of natural numbers has a smallest element.
Below == {pair \in Nat \X Nat : pair[1] < pair[2]}

LEMMA LeastOf ==
  ASSUME NEW S \in SUBSET Nat, S # {}
  PROVE  \E x \in S : \A y \in S : x <= y
<1>1. IsWellFoundedOn(Below, Nat)
  BY NatLessThanWellFounded, Zenon DEF OpToRel, Below
<1>2. PICK x \in S : \A y \in S : <<y, x>> \notin Below
  BY <1>1, WFMin
<1>3. \A y \in S : ~ (y < x)
  BY <1>2 DEF Below
<1> QED
  BY <1>3

\* MinOf is the smallest element.
LEMMA MinOfIs ==
  ASSUME NEW S \in SUBSET Nat, S # {}
  PROVE  MinOf(S) \in S /\ \A y \in S : MinOf(S) <= y
  BY LeastOf DEF MinOf

\* MaxOf is the greatest element of a set that has a bound.
LEMMA MaxOfIs ==
  ASSUME NEW S \in SUBSET Nat, S # {}, NEW b \in Nat, \A y \in S : y <= b
  PROVE  MaxOf(S) \in S /\ \A y \in S : y <= MaxOf(S)
<1> DEFINE T == {b - y : y \in S}
<1>1. T \in SUBSET Nat /\ T # {}
  <2>1. \A y \in S : b - y \in Nat
    OBVIOUS
  <2> QED
    BY <2>1
<1>2. PICK z \in T : \A w \in T : z <= w
  BY <1>1, LeastOf
<1>3. PICK x \in S : z = b - x
  BY <1>2
<1>4. \A y \in S : y <= x
  BY <1>2, <1>3
<1> QED
  BY <1>4 DEF MaxOf

\* What a publication indexes: the events of its sources under the earliest
\* receipt and the latest event of theirs.
LEMMA MergedRow ==
  ASSUME TypeOK, RowScale, NEW c \in Compactor, SourcesOf(c), comp[c].pc \in AtWork
  PROVE  /\ MergedSegment(c) \in SegmentRow
         /\ MergedSegment(c).status = "active"
         /\ MergedSegment(c).events = MergedEvents(c)
         /\ MergedSegment(c).level <= job.epoch + 1
         /\ MergedSegment(c).last <= now
         /\ \A s \in comp[c].rows : seg[s].last <= MergedSegment(c).last
         /\ \E s \in comp[c].rows : MergedSegment(c).received = seg[s].received
<1> DEFINE rows == comp[c].rows
           Received == {seg[s].received : s \in rows}
           Level == {seg[s].level : s \in rows}
           Last == {seg[s].last : s \in rows}
<1>1. rows # {} /\ rows \subseteq Segment /\ \A s \in rows : Present(s)
  BY DEF SourcesOf, TypeOK, RunState
<1>2. now \in Nat /\ job.epoch \in Nat
  BY DEF TypeOK, JobRow
<1>3. \A s \in rows : /\ seg[s].received \in Nat /\ seg[s].level \in Nat
                      /\ seg[s].last \in Nat /\ seg[s].events \subseteq Raw
                      /\ seg[s].last <= now /\ seg[s].level <= job.epoch
  BY <1>1 DEF TypeOK, SegmentRow, RowScale
<1>4. MinOf(Received) \in Received
  <2>1. Received \in SUBSET Nat /\ Received # {}
    BY <1>1, <1>3
  <2> QED
    BY <2>1, MinOfIs
<1>5. MaxOf(Level) \in Level
  <2>1. Level \in SUBSET Nat /\ Level # {} /\ \A y \in Level : y <= job.epoch
    BY <1>1, <1>3
  <2> HIDE DEF Level
  <2> QED
    BY <2>1, <1>2, MaxOfIs
<1>6. MaxOf(Last) \in Last /\ \A y \in Last : y <= MaxOf(Last)
  <2>1. Last \in SUBSET Nat /\ Last # {} /\ \A y \in Last : y <= now
    BY <1>1, <1>3
  <2> HIDE DEF Last
  <2> QED
    BY <2>1, <1>2, MaxOfIs
<1>7. MergedEvents(c) \subseteq Raw
  BY <1>3 DEF MergedEvents
<1>8. MergedSegment(c) =
        [status |-> "active", level |-> 1 + MaxOf(Level), events |-> MergedEvents(c),
         received |-> MinOf(Received), last |-> MaxOf(Last),
         cleanup |-> MinOf(Received) + Expiry]
  BY DEF MergedSegment
<1>9. Expiry \in Nat
  BY CompactionAssumption
<1>10. PICK s \in rows : MinOf(Received) = seg[s].received
  BY <1>4
<1>11. PICK t \in rows : MaxOf(Level) = seg[t].level
  BY <1>5
<1>12. PICK u \in rows : MaxOf(Last) = seg[u].last
  BY <1>6
<1>13. \A r \in rows : seg[r].last <= MaxOf(Last)
  BY <1>6
<1> HIDE DEF Received, Level, Last, rows
<1>14. MergedSegment(c) \in SegmentRow
  BY <1>3, <1>7, <1>8, <1>9, <1>10, <1>11, <1>12 DEF SegmentRow
<1>15. /\ MergedSegment(c).level <= job.epoch + 1
       /\ MergedSegment(c).last <= now
  BY <1>2, <1>3, <1>8, <1>11, <1>12
<1> QED
  BY <1>8, <1>10, <1>13, <1>14, <1>15 DEF rows
-----------------------------------------------------------------------------
(* Frames: what a part of the invariant needs of a step that is not its    *)
(* own.                                                                    *)

\* No row that is there changes but for its status and cleanup date.
Grows ==
  \A s \in Segment : Present(s) =>
    /\ Present(s)'
    /\ seg'[s].events = seg[s].events /\ seg'[s].received = seg[s].received
    /\ seg'[s].last = seg[s].last /\ seg'[s].level = seg[s].level

\* A row becomes active only along with a new epoch.
Counts ==
  \/ job'.epoch > job.epoch
  \/ job'.epoch = job.epoch /\ \A s \in Segment : seg'[s].status = "active" => Active(s)

LEMMA RowsFrame ==
  ASSUME TypeOK, TypeOK', Rows, UNCHANGED <<seg, object, gc, retired>>, now <= now',
         job.epoch <= job'.epoch
  PROVE  Rows'
<1> USE DEF Present, Active
<1>0. Expiry \in Nat /\ Day \in Nat
  BY CompactionAssumption
<1>1. RawRows' /\ RowScale'
  BY <1>0 DEF Rows, RawRows, RowScale, TypeOK, SegmentRow, JobRow, Segment
<1>2. Spans' /\ Disjoint' /\ ActiveKept' /\ NothingLeaks'
  BY DEF Rows, Spans, Disjoint, ActiveKept, NothingLeaks
<1>3. Held'
  BY <1>0 DEF Rows, Held, TypeOK, SegmentRow, Segment
<1> QED
  BY <1>1, <1>2, <1>3 DEF Rows

LEMMA EventsKept ==
  ASSUME NEW c \in Compactor, TypeOK, comp'[c] = comp[c], Grows,
         \A s \in comp[c].rows : Present(s)
  PROVE  MergedEvents(c)' = MergedEvents(c)
<1>1. \A s \in comp[c].rows : seg'[s].events = seg[s].events
  BY DEF Grows, TypeOK, RunState
<1> QED
  BY <1>1 DEF MergedEvents

\* A run is left as it is by a step of another that spares its candidate.
LEMMA RunFrame ==
  ASSUME TypeOK, TypeOK', NEW c \in Compactor, Run(c), comp'[c] = comp[c],
         Grows, Counts, now <= now',
         comp[c].pc = "bound" => now' <= comp[c].at + Flight,
         comp[c].pc \in {"tracked", "stored", "bound"} =>
           /\ ~Present(comp[c].out)'
           /\ gc'[comp[c].out] = gc[comp[c].out]
           /\ object'[comp[c].out] = object[comp[c].out]
                \/ object'[comp[c].out].kind = "fence",
         job'.token = c => job.token = c /\ job'.until <= job.until
  PROVE  Run(c)'
<1>1. SourcesOf(c)'
  <2>1. comp[c].rows \subseteq Segment
    BY DEF TypeOK, RunState
  <2> QED
    BY <2>1 DEF Run, SourcesOf, Grows, SpanBounded, Present
<1>2. CandidateOf(c)'
  <2>1. CASE comp[c].pc \in {"tracked", "stored", "bound"}
    <3>1. comp[c].out \in Segment /\ gc[comp[c].out] \in Nat /\ job.until \in Nat
            /\ job'.until \in Nat /\ Flight \in Nat
      BY <2>1, CompactionAssumption DEF TypeOK, RunState, JobRow, Run, CandidateOf, Segment
    <3> QED
      BY <2>1, <3>1 DEF Run, CandidateOf, Present
  <2>2. CASE comp[c].pc \notin {"tracked", "stored", "bound"}
    BY <2>2 DEF CandidateOf
  <2> QED
    BY <2>1, <2>2
<1>3. StoredBy(c)'
  <2>1. CASE comp[c].pc \in {"stored", "bound"}
    <3>1. MergedEvents(c)' = MergedEvents(c)
      BY <2>1, EventsKept DEF Run, SourcesOf, AtWork
    <3> QED
      BY <2>1, <3>1 DEF Run, StoredBy, Body
  <2>2. CASE comp[c].pc \notin {"stored", "bound"}
    BY <2>2 DEF StoredBy
  <2> QED
    BY <2>1, <2>2
<1>4. BoundBy(c)'
  BY DEF Run, BoundBy, TypeOK, RunState
<1>5. SeenBy(c)'
  BY DEF Run, SeenBy, Counts, TypeOK, RunState, JobRow, Active
<1> QED
  BY <1>1, <1>2, <1>3, <1>4, <1>5 DEF Run

\* A report is left as it is by a step that spares what it has to read.
LEMMA ReaderFrame ==
  ASSUME TypeOK, TypeOK', NEW d \in Reader, ReaderOK(d), reader'[d] = reader[d], Grows,
         now <= now',
         reader[d].pc = "reading" =>
           /\ now' <= reader[d].started + ReadLife
           /\ \A s \in reader[d].todo :
                /\ object'[s] = object[s]
                /\ gc'[s] # None => gc'[s] = gc[s] \/ now + ReadLife < gc'[s]
  PROVE  ReaderOK(d)'
<1> SUFFICES ASSUME reader[d].pc = "reading" PROVE ReaderOK(d)'
  BY DEF ReaderOK
<1>1. /\ reader[d].started \in Nat /\ now \in Nat /\ now' \in Nat /\ ReadLife \in Nat
      /\ reader[d].todo \subseteq Segment
      /\ \A s \in Segment : gc'[s] \in Nat \union {None}
  BY CompactionAssumption DEF TypeOK, ReaderState
<1>2. reader[d].started <= now' /\ now' <= reader[d].started + ReadLife
  BY <1>1 DEF ReaderOK
<1>3. ASSUME NEW s \in reader[d].todo
      PROVE  /\ Present(s)'
             /\ object'[s] = Body(seg'[s].events)
             /\ gc'[s] # None => reader[d].started + ReadLife < gc'[s]
  BY <1>1 DEF ReaderOK, Grows
<1> QED
  BY <1>2, <1>3 DEF ReaderOK, Body
-----------------------------------------------------------------------------
(* Initially.                                                              *)
LEMMA InitIInv == Init => IInv
<1> SUFFICES ASSUME Init PROVE IInv
  OBVIOUS
<1> USE CompactionAssumption DEF Init, NoSegment, NoObject, IdleCompactor, IdleReader
<1>1. TypeOK
  BY DEF TypeOK, SegmentRow, Stored, JobRow, RunState, ReaderState
<1>2. Rows
  BY DEF Rows, RawRows, RowScale, Spans, Disjoint, Held, ActiveKept, NothingLeaks,
         Present, Active, Segment
<1>3. FenceDue /\ LeaseShort /\ OutsApart /\ Readers /\ SnapshotReadable /\ NoMissedSegment
  BY DEF FenceDue, LeaseShort, OutsApart, Readers, ReaderOK, SnapshotReadable,
         NoMissedSegment, Active
<1>4. Runs
  BY DEF Runs, Run, SourcesOf, CandidateOf, StoredBy, BoundBy, SeenBy, AtWork
<1> QED
  BY <1>1, <1>2, <1>3, <1>4 DEF IInv, Others
-----------------------------------------------------------------------------
(* Types.                                                                  *)

IndexStep(s) ==
  \/ s \in Raw /\ (Seal(s) \/ Reseal(s) \/ RetireRaw(s))
  \/ Cleanup(s)
ReadStep(d) == Snapshot(d) \/ ReadObject(d) \/ FinishRead(d)

\* Updates that keep a row of its type.
LEMMA RowTypes ==
  ASSUME NEW r \in SegmentRow, NEW n \in Nat,
         NEW st \in {"none", "active", "inactive", "gone"}
  PROVE  /\ [r EXCEPT !.status = st] \in SegmentRow
         /\ [r EXCEPT !.cleanup = n] \in SegmentRow
         /\ [r EXCEPT !.status = st, !.cleanup = n] \in SegmentRow
         /\ r.received \in Nat /\ r.received + Expiry \in Nat
<1>1. [r EXCEPT !.status = st] \in SegmentRow
  BY DEF SegmentRow
<1>2. [r EXCEPT !.cleanup = n] \in SegmentRow
  BY DEF SegmentRow
<1>3. [r EXCEPT !.status = st, !.cleanup = n] \in SegmentRow
  BY DEF SegmentRow
<1>4. r.received \in Nat /\ r.received + Expiry \in Nat
  BY CompactionAssumption DEF SegmentRow
<1> QED
  BY <1>1, <1>2, <1>3, <1>4

LEMMA JobTypes ==
  ASSUME TypeOK
  PROVE  /\ Dirtied \in JobRow /\ [Dirtied EXCEPT !.retryAt = 0] \in JobRow
         /\ Released \in JobRow
         /\ \A c \in Compactor : MarkClean(c) \in JobRow
         /\ \A c \in Compactor :
              [job EXCEPT !.token = c, !.until = now + Lease] \in JobRow
         /\ [job EXCEPT !.dirty = TRUE, !.retryAt = now + Retry] \in JobRow
         /\ job.epoch \in Nat
<1>1. job \in JobRow /\ now + Lease \in Nat /\ now + Retry \in Nat
  BY CompactionAssumption DEF TypeOK
<1>2. job.epoch \in Nat /\ Dirtied \in JobRow
  <2>1. job.epoch \in Nat
    BY <1>1 DEF JobRow
  <2>2. \A n \in Nat : [job EXCEPT !.epoch = n, !.dirty = TRUE] \in JobRow
    BY <1>1 DEF JobRow
  <2>3. Dirtied = [job EXCEPT !.epoch = job.epoch + 1, !.dirty = TRUE]
    BY DEF Dirtied
  <2>4. job.epoch + 1 \in Nat
    BY <2>1
  <2> QED
    BY <2>1, <2>2, <2>3, <2>4
<1>3. [Dirtied EXCEPT !.retryAt = 0] \in JobRow
  BY <1>2 DEF JobRow
<1>4. Released \in JobRow
  BY <1>1 DEF Released, JobRow
<1>5. ASSUME NEW c \in Compactor
      PROVE  MarkClean(c) \in JobRow
  <2>1. [job EXCEPT !.dirty = FALSE, !.closed = Old, !.retryAt = 0] \in JobRow
    <3>1. Old \in BOOLEAN
      BY DEF Old
    <3> QED
      BY <1>1, <3>1 DEF JobRow
  <2> QED
    BY <1>1, <2>1 DEF MarkClean
<1>6. ASSUME NEW c \in Compactor
      PROVE  [job EXCEPT !.token = c, !.until = now + Lease] \in JobRow
  BY <1>1 DEF JobRow
<1>7. [job EXCEPT !.dirty = TRUE, !.retryAt = now + Retry] \in JobRow
  BY <1>1 DEF JobRow
<1> QED
  BY <1>2, <1>3, <1>4, <1>5, <1>6, <1>7

LEMMA TypeIndex ==
  ASSUME TypeOK, NEW s \in Segment, IndexStep(s)
  PROVE  TypeOK'
<1>1. seg[s] \in SegmentRow /\ now \in Nat /\ Expiry \in Nat /\ now + Grace \in Nat
  BY CompactionAssumption DEF TypeOK
<1>2. seg' \in [Segment -> SegmentRow]
  <2>1. \E r \in SegmentRow : seg' = [seg EXCEPT ![s] = r]
    <3>1. CASE s \in Raw /\ Seal(s)
      <4>1. [status |-> "active", level |-> 0, events |-> {s}, received |-> now,
             last |-> now, cleanup |-> now + Expiry] \in SegmentRow
        BY <1>1, <3>1 DEF SegmentRow
      <4> QED
        BY <3>1, <4>1 DEF Seal
    <3>2. CASE s \in Raw /\ Reseal(s)
      <4>1. seg' = seg \/ seg' = [seg EXCEPT ![s] =
              [seg[s] EXCEPT !.status = "active", !.cleanup = seg[s].received + Expiry]]
        BY <3>2 DEF Reseal, TypeOK
      <4> QED
        BY <1>1, <4>1, RowTypes DEF TypeOK
    <3>3. CASE s \in Raw /\ RetireRaw(s)
      <4>1. \E st \in {"none", "active", "inactive", "gone"} : seg' = [seg EXCEPT ![s] =
              [seg[s] EXCEPT !.status = st, !.cleanup = now + Grace]]
        <5>1. seg[s].status \in {"none", "active", "inactive", "gone"}
          BY <1>1 DEF SegmentRow
        <5> DEFINE st == IF seg[s].status = "active" THEN "inactive" ELSE seg[s].status
        <5>2. st \in {"none", "active", "inactive", "gone"}
          BY <5>1
        <5>3. seg' = [seg EXCEPT ![s] =
                       [seg[s] EXCEPT !.status = st, !.cleanup = now + Grace]]
          BY <3>3 DEF RetireRaw, TypeOK
        <5> QED
          BY <5>2, <5>3
      <4> QED
        BY <1>1, <4>1, RowTypes
    <3>4. CASE CleanupSegment(s)
      <4>1. seg' = [seg EXCEPT ![s] = [seg[s] EXCEPT !.status = "gone"]]
              \/ seg' = [seg EXCEPT ![s] =
                           [seg[s] EXCEPT !.cleanup = seg[s].received + Expiry]]
        BY <3>4 DEF CleanupSegment, TypeOK
      <4> QED
        BY <1>1, <4>1, RowTypes
    <3>5. CASE PickGarbage(s) \/ Fence(s)
      BY <1>1, <3>5 DEF PickGarbage, Fence, TypeOK
    <3> QED
      BY <3>1, <3>2, <3>3, <3>4, <3>5 DEF IndexStep, Cleanup
  <2> QED
    BY <2>1 DEF TypeOK
<1>3. object' \in [Segment -> Stored]
  <2>1. \A o \in {Body({s}), [kind |-> "fence", events |-> {}]} :
          s \in Raw \/ o.kind = "fence" => o \in Stored
    BY DEF Stored, Body
  <2>2. object' = object \/ (s \in Raw /\ object' = [object EXCEPT ![s] = Body({s})])
          \/ object' = [object EXCEPT ![s] = [kind |-> "fence", events |-> {}]]
    BY DEF IndexStep, Cleanup, Seal, Reseal, RetireRaw, CleanupSegment, PickGarbage, Fence
  <2> QED
    BY <2>1, <2>2 DEF TypeOK
<1>4. gc' \in [Segment -> Nat \union {None}]
  BY <1>1 DEF TypeOK, IndexStep, Cleanup, Seal, Reseal, RetireRaw, CleanupSegment,
              PickGarbage, Fence, Collect
<1>5. job' \in JobRow
  BY JobTypes DEF TypeOK, IndexStep, Cleanup, Seal, Reseal, RetireRaw, CleanupSegment,
                  PickGarbage, Fence
<1>6. /\ UNCHANGED <<now, comp, reader, looked>>
      /\ retired' \subseteq Raw /\ fencing' \subseteq Segment
  BY DEF TypeOK, IndexStep, Cleanup, Seal, Reseal, RetireRaw, CleanupSegment,
         PickGarbage, Fence
<1> QED
  BY <1>2, <1>3, <1>4, <1>5, <1>6 DEF TypeOK

LEMMA TypeRead ==
  ASSUME TypeOK, Tick \/ \E d \in Reader : ReadStep(d)
  PROVE  TypeOK'
<1>1. CASE Tick
  BY <1>1 DEF Tick, TypeOK
<1>2. CASE \E d \in Reader : ReadStep(d)
  <2> PICK d \in Reader : ReadStep(d)
    BY <1>2
  <2>1. \E r \in ReaderState : reader' = [reader EXCEPT ![d] = r]
    <3>1. CASE Snapshot(d)
      BY <3>1 DEF Snapshot, ReaderState, TypeOK
    <3>2. CASE ReadObject(d)
      <4>1. PICK s \in reader[d].todo :
              reader' = [reader EXCEPT
                ![d].todo = @ \ {s},
                ![d].pc = IF object[s] = Body(seg[s].events) THEN @ ELSE "broken"]
        BY <3>2 DEF ReadObject
      <4> DEFINE pc == IF object[s] = Body(seg[s].events) THEN reader[d].pc ELSE "broken"
      <4>2. reader' = [reader EXCEPT
              ![d] = [reader[d] EXCEPT !.todo = reader[d].todo \ {s}, !.pc = pc]]
        BY <4>1 DEF TypeOK
      <4>3. pc \in {"idle", "reading", "broken"} /\ reader[d] \in ReaderState
        BY DEF TypeOK, ReaderState
      <4> HIDE DEF pc
      <4>4. [reader[d] EXCEPT !.todo = reader[d].todo \ {s}, !.pc = pc] \in ReaderState
        BY <4>3 DEF ReaderState
      <4> QED
        BY <4>2, <4>4
    <3>3. CASE FinishRead(d)
      BY <3>3 DEF FinishRead, IdleReader, ReaderState
    <3> QED
      BY <3>1, <3>2, <3>3 DEF ReadStep
  <2>2. UNCHANGED <<now, seg, retired, object, gc, job, comp, fencing, looked>>
    BY DEF ReadStep, Snapshot, ReadObject, FinishRead
  <2> QED
    BY <2>1, <2>2 DEF TypeOK
<1> QED
  BY <1>1, <1>2

\* The next state of a run.
LEMMA RunTypes ==
  ASSUME TypeOK, NEW c \in Compactor, Compact(c)
  PROVE  \E r \in RunState : comp' = [comp EXCEPT ![c] = r]
<1>1. comp[c] \in RunState /\ now \in Nat /\ job.epoch \in Nat
  BY DEF TypeOK, JobRow
<1>2. CASE Claim(c)
  <2>1. comp' = [comp EXCEPT ![c] =
          [IdleCompactor EXCEPT !.pc = "claimed", !.epoch = job.epoch]]
    BY <1>2 DEF Claim
  <2> QED
    BY <1>1, <2>1 DEF IdleCompactor, RunState
<1>3. CASE Select(c)
  <2>1. \/ \E rows \in SUBSET Segment :
             comp' = [comp EXCEPT ![c] = [comp[c] EXCEPT !.pc = "selected", !.rows = rows]]
        \/ \E saw \in SUBSET Segment :
             comp' = [comp EXCEPT ![c] = [comp[c] EXCEPT !.pc = "clean", !.saw = saw]]
    <3>1. Eligible \subseteq Segment /\ {s \in Segment : Active(s)} \subseteq Segment
      BY DEF Eligible
    <3> QED
      BY <1>3, <3>1 DEF Select, TypeOK
  <2>2. \A x \in SUBSET Segment :
          /\ [comp[c] EXCEPT !.pc = "selected", !.rows = x] \in RunState
          /\ [comp[c] EXCEPT !.pc = "clean", !.saw = x] \in RunState
    BY <1>1 DEF RunState
  <2> QED
    BY <2>1, <2>2
<1>4. CASE Clean(c)
  <2>1. comp' = [comp EXCEPT ![c] = [comp[c] EXCEPT !.pc = "done", !.saw = {}]]
    BY <1>4 DEF Clean, TypeOK
  <2> QED
    BY <1>1, <2>1 DEF RunState
<1>5. CASE ReadSources(c) \/ StoreCandidate(c) \/ Publish(c) \/ Fail(c) \/ Throw(c)
  <2>1. \E pc \in {"read", "failed", "stored", "done"} :
          comp' = [comp EXCEPT ![c] = [comp[c] EXCEPT !.pc = pc]]
    BY <1>5 DEF ReadSources, StoreCandidate, Publish, Fail, Throw, TypeOK
  <2> QED
    BY <1>1, <2>1 DEF RunState
<1>6. CASE TrackCandidate(c)
  <2>1. \E m \in Merged :
          comp' = [comp EXCEPT ![c] = [comp[c] EXCEPT !.pc = "tracked", !.out = m]]
    BY <1>6 DEF TrackCandidate, TypeOK
  <2> QED
    BY <1>1, <2>1 DEF RunState
<1>7. CASE Bind(c)
  <2>1. comp' = [comp EXCEPT ![c] = [comp[c] EXCEPT !.pc = "bound", !.at = now]]
    BY <1>7 DEF Bind, TypeOK
  <2> QED
    BY <1>1, <2>1 DEF RunState
<1>8. CASE Release(c) \/ Die(c)
  BY <1>8 DEF Release, Die, IdleCompactor, RunState
<1> QED
  BY <1>2, <1>3, <1>4, <1>5, <1>6, <1>7, <1>8 DEF Compact

\* The job, whatever a run does to it.
LEMMA RunJob ==
  ASSUME TypeOK, NEW c \in Compactor, Compact(c)
  PROVE  job' \in JobRow
<1>1. CASE Claim(c)
  BY <1>1, JobTypes DEF Claim
<1>2. CASE Clean(c)
  BY <1>2, JobTypes DEF Clean
<1>3. CASE Publish(c)
  BY <1>3, JobTypes DEF Publish, TypeOK
<1>4. CASE Fail(c)
  BY <1>4, JobTypes DEF Fail, TypeOK
<1>5. CASE Release(c)
  BY <1>5, JobTypes DEF Release, TypeOK
<1>6. CASE UNCHANGED job
  BY <1>6 DEF TypeOK
<1> QED
  BY <1>1, <1>2, <1>3, <1>4, <1>5, <1>6
  DEF Compact, Select, ReadSources, TrackCandidate, StoreCandidate, Bind, Throw, Die

\* Only three steps of a run reach what it shares with the others.
LEMMA RunStores ==
  ASSUME NEW c \in Compactor, Compact(c)
  PROVE  /\ UNCHANGED <<now, fencing, reader>>
         /\ ~Publish(c) => UNCHANGED <<seg, retired>>
         /\ ~Publish(c) /\ ~TrackCandidate(c) => UNCHANGED gc
         /\ ~StoreCandidate(c) => UNCHANGED object
  BY DEF Compact, Claim, Select, Clean, ReadSources, TrackCandidate, StoreCandidate,
         Bind, Publish, Fail, Release, Throw, Die

LEMMA TypeRun ==
  ASSUME TypeOK, RowScale, NEW c \in Compactor, SourcesOf(c), CandidateOf(c), Compact(c)
  PROVE  TypeOK'
<1>1. seg' \in [Segment -> SegmentRow]
  <2>1. CASE ~Publish(c)
    BY <2>1, RunStores DEF TypeOK
  <2>2. CASE Publish(c)
    <3>1. MergedSegment(c) \in SegmentRow
      BY <2>2, MergedRow DEF Publish, AtWork
    <3>2. comp[c].at + Grace \in Nat
      BY CompactionAssumption DEF TypeOK, RunState
    <3>3. \A s \in Segment :
            [seg[s] EXCEPT !.status = "inactive", !.cleanup = comp[c].at + Grace]
              \in SegmentRow
      BY <3>2, RowTypes DEF TypeOK
    <3>4. \A s \in Segment : seg[s] \in SegmentRow
      BY DEF TypeOK
    <3>5. seg' = seg \/ seg' = [s \in Segment |->
                 IF s = comp[c].out THEN MergedSegment(c)
                 ELSE IF s \in comp[c].rows
                   THEN [seg[s] EXCEPT !.status = "inactive",
                                       !.cleanup = comp[c].at + Grace]
                 ELSE seg[s]]
      BY <2>2 DEF Publish
    <3>6. seg \in [Segment -> SegmentRow]
      BY DEF TypeOK
    <3>7. CASE seg' = seg
      BY <3>6, <3>7
    <3>8. CASE seg' # seg
      BY <3>1, <3>3, <3>4, <3>5, <3>8
    <3> QED
      BY <3>7, <3>8
  <2> QED
    BY <2>1, <2>2
<1>2. gc' \in [Segment -> Nat \union {None}]
  <2>1. now + Candidate \in Nat /\ comp[c].at + Grace \in Nat
    BY CompactionAssumption DEF TypeOK, RunState
  <2>2. CASE Publish(c)
    <3>1. \A s \in Segment : GcAfterPublish(c, s) \in Nat \union {None}
      BY <2>1 DEF GcAfterPublish, Collect, SourceGc, TypeOK
    <3>2. gc' = gc \/ gc' = [s \in Segment |-> GcAfterPublish(c, s)]
      BY <2>2 DEF Publish
    <3> QED
      BY <3>1, <3>2 DEF TypeOK
  <2>3. CASE TrackCandidate(c)
    BY <2>1, <2>3 DEF TrackCandidate, CandidateGc, TypeOK, Segment
  <2> QED
    BY <2>2, <2>3, RunStores DEF TypeOK
<1>3. object' \in [Segment -> Stored]
  <2>1. CASE StoreCandidate(c)
    <3>1. Body(MergedEvents(c)) \in Stored
      BY DEF MergedEvents, Body, Stored, TypeOK, RunState, SegmentRow
    <3>2. object' = object \/ object' = [object EXCEPT ![comp[c].out] = Body(MergedEvents(c))]
      BY <2>1 DEF StoreCandidate
    <3> QED
      BY <3>1, <3>2 DEF TypeOK
  <2> QED
    BY <2>1, RunStores DEF TypeOK
<1>4. retired' \subseteq Raw /\ looked' \subseteq Segment
  <2>1. comp[c].saw \subseteq Segment
    BY DEF TypeOK, RunState
  <2> QED
    BY <2>1 DEF TypeOK, Compact, Claim, Select, Clean, ReadSources, TrackCandidate,
                StoreCandidate, Bind, Publish, Fail, Release, Throw, Die
<1>5. comp' \in [Compactor -> RunState]
  BY RunTypes DEF TypeOK
<1> QED
  BY <1>1, <1>2, <1>3, <1>4, <1>5, RunJob, RunStores DEF TypeOK

LEMMA TypeStep == IInv /\ [Next]_vars => TypeOK'
<1> SUFFICES ASSUME IInv, [Next]_vars PROVE TypeOK'
  OBVIOUS
<1>1. CASE \E c \in Compactor : Compact(c)
  BY <1>1, TypeRun DEF IInv, Rows, Others, Runs, Run
<1>2. CASE Tick \/ \E d \in Reader : ReadStep(d)
  BY <1>2, TypeRead DEF IInv
<1>3. CASE \E s \in Segment : IndexStep(s)
  BY <1>3, TypeIndex DEF IInv
<1>4. CASE UNCHANGED vars
  BY <1>4 DEF IInv, TypeOK, vars
<1> QED
  BY <1>1, <1>2, <1>3, <1>4 DEF Next, IndexStep, ReadStep, Segment
-----------------------------------------------------------------------------
(* Steps that leave the index, its objects and its garbage alone.          *)

Quiet == UNCHANGED <<seg, object, gc, retired>>

LEMMA QuietFrame ==
  ASSUME IInv, TypeOK', Quiet, now <= now', job'.epoch = job.epoch
  PROVE  Rows' /\ Grows /\ Counts
<1>1. Rows'
  <2>1. job.epoch <= job'.epoch
    BY DEF IInv, TypeOK, JobRow
  <2> QED
    BY <2>1, RowsFrame DEF IInv, Quiet
<1>2. Grows /\ Counts
  BY DEF Quiet, Grows, Counts, Present, Active
<1> QED
  BY <1>1, <1>2

\* What a quiet step has to show about the rest.
LEMMA QuietOthers ==
  ASSUME IInv, TypeOK', Quiet, now' = now, job'.epoch = job.epoch,
         UNCHANGED fencing, LeaseShort', Runs', OutsApart', Readers',
         SnapshotReadable', NoMissedSegment'
  PROVE  IInv'
<1>1. FenceDue'
  BY DEF IInv, Others, FenceDue, Quiet
<1>2. Rows'
  BY QuietFrame DEF IInv, TypeOK
<1> QED
  BY <1>1, <1>2 DEF IInv, Others

\* The steps of run c: the others stay what they were.
LEMMA OthersRuns ==
  ASSUME IInv, TypeOK', NEW c \in Compactor, NEW r \in RunState, Quiet, now' = now,
         job'.epoch = job.epoch, comp' = [comp EXCEPT ![c] = r],
         r.out = comp[c].out \/ r.out = None,
         \A d \in Compactor \ {c} : job'.token = d => UNCHANGED <<job>>,
         Run(c)'
  PROVE  Runs' /\ OutsApart'
<1>1. OutsApart'
  BY DEF IInv, Others, OutsApart, TypeOK, RunState
<1>2. ASSUME NEW d \in Compactor, d # c
      PROVE  Run(d)'
  <2>1. Run(d) /\ comp'[d] = comp[d] /\ Grows /\ Counts /\ now <= now'
    BY <1>2, QuietFrame DEF IInv, Others, Runs, TypeOK
  <2>2. comp[d].pc = "bound" => now' <= comp[d].at + Flight
    BY <2>1 DEF Run, BoundBy
  <2>3. comp[d].pc \in {"tracked", "stored", "bound"} =>
          /\ ~Present(comp[d].out)'
          /\ gc'[comp[d].out] = gc[comp[d].out]
          /\ object'[comp[d].out] = object[comp[d].out]
    BY <2>1 DEF Run, CandidateOf, Quiet, Present
  <2>4. job'.token = d => job.token = d /\ job'.until <= job.until
    BY <1>2 DEF IInv, TypeOK, JobRow
  <2> QED
    BY <2>1, <2>2, <2>3, <2>4, RunFrame DEF IInv
<1> QED
  BY <1>1, <1>2 DEF Runs

\* Reports do not notice a quiet step that is not theirs.
LEMMA QuietReaders ==
  ASSUME IInv, Quiet, now' = now, UNCHANGED reader
  PROVE  Readers' /\ SnapshotReadable'
  BY DEF IInv, Others, Readers, ReaderOK, SnapshotReadable, Quiet, Present

LEMMA ClaimKeeps ==
  ASSUME IInv, TypeOK', NEW c \in Compactor, Claim(c)
  PROVE  IInv'
<1> DEFINE r == [IdleCompactor EXCEPT !.pc = "claimed", !.epoch = job.epoch]
<1>1. Quiet /\ UNCHANGED <<now, fencing, reader, looked>> /\ comp' = [comp EXCEPT ![c] = r]
  BY DEF Claim, Quiet
<1>2. /\ r \in RunState /\ r.pc = "claimed" /\ r.epoch = job.epoch /\ r.out = None
  BY DEF IdleCompactor, RunState, IInv, TypeOK, JobRow
<1> HIDE DEF r
<1>3. /\ job'.epoch = job.epoch /\ job'.dirty = job.dirty /\ job'.token = c
      /\ job'.until = now + Lease
  BY DEF Claim, IInv, TypeOK, JobRow
<1>4. Run(c)'
  <2>1. comp'[c] = r
    BY <1>1 DEF IInv, TypeOK
  <2> QED
    BY <1>2, <1>3, <2>1 DEF Run, SourcesOf, CandidateOf, StoredBy, BoundBy, SeenBy, AtWork,
                            IInv, TypeOK, JobRow
<1>5. Runs' /\ OutsApart'
  BY <1>1, <1>2, <1>3, <1>4, OthersRuns
<1>6. LeaseShort'
  BY <1>1, <1>3, CompactionAssumption DEF LeaseShort, IInv, TypeOK
<1>7. NoMissedSegment'
  BY <1>1, <1>3 DEF NoMissedSegment, IInv, Others, Active, Quiet
<1>8. Readers' /\ SnapshotReadable'
  BY <1>1, QuietReaders
<1> QED
  BY <1>1, <1>3, <1>5, <1>6, <1>7, <1>8, QuietOthers

\* The steps that move run c alone.
LEMMA PrivateKeeps ==
  ASSUME IInv, TypeOK', NEW c \in Compactor, NEW r \in RunState, Quiet,
         UNCHANGED <<now, job, fencing, reader, looked>>, comp' = [comp EXCEPT ![c] = r],
         r.out = comp[c].out \/ r.out = None, Run(c)'
  PROVE  IInv'
<1>1. Runs' /\ OutsApart'
  BY OthersRuns
<1>2. LeaseShort' /\ NoMissedSegment'
  BY DEF LeaseShort, NoMissedSegment, IInv, Others, Active, Quiet
<1>3. Readers' /\ SnapshotReadable'
  BY QuietReaders
<1> QED
  BY <1>1, <1>2, <1>3, QuietOthers

\* A run whose counter is past its work or before it has nothing to keep but its
\* epoch.
LEMMA RestingRun ==
  ASSUME IInv, NEW c \in Compactor,
         comp'[c].pc \in {"idle", "claimed", "failed", "done"},
         comp'[c].epoch <= job'.epoch
  PROVE  Run(c)'
  BY DEF Run, SourcesOf, CandidateOf, StoredBy, BoundBy, SeenBy, AtWork

LEMMA SelectKeeps ==
  ASSUME IInv, TypeOK', NEW c \in Compactor, Select(c)
  PROVE  IInv'
<1>1. Quiet /\ UNCHANGED <<now, job, fencing, reader, looked>>
  BY DEF Select, Quiet
<1>2. comp[c] \in RunState /\ Run(c) /\ comp[c].epoch <= job.epoch
  BY DEF IInv, TypeOK, Others, Runs, Run, SeenBy
<1>3. CASE \E rows \in SUBSET Eligible :
             Selectable(rows) /\ comp' = [comp EXCEPT ![c].pc = "selected", ![c].rows = rows]
  <2>1. PICK rows \in SUBSET Eligible :
             Selectable(rows) /\ comp' = [comp EXCEPT ![c].pc = "selected", ![c].rows = rows]
    BY <1>3
  <2> DEFINE r == [comp[c] EXCEPT !.pc = "selected", !.rows = rows]
  <2>2. comp' = [comp EXCEPT ![c] = r]
    BY <2>1 DEF IInv, TypeOK
  <2>3. /\ r \in RunState /\ r.out = comp[c].out /\ r.pc = "selected" /\ r.rows = rows
        /\ r.epoch = comp[c].epoch
    BY <1>2 DEF RunState, Eligible
  <2> HIDE DEF r
  <2>4. comp'[c] = r
    BY <2>2 DEF IInv, TypeOK
  <2>5. rows # {}
    BY <2>1, FS_EmptySet DEF Selectable
  <2>6. (\A s \in rows : Present(s)) /\ SpanBounded(rows)
    BY <2>1 DEF Selectable, Eligible, Active, Present
  <2>7. Run(c)'
    BY <1>1, <1>2, <2>3, <2>4, <2>5, <2>6
    DEF Run, SourcesOf, CandidateOf, StoredBy, BoundBy, SeenBy, Quiet, Present, SpanBounded
  <2> QED
    BY <1>1, <2>2, <2>3, <2>7, PrivateKeeps
<1>4. CASE comp' = [comp EXCEPT ![c].pc = "clean", ![c].saw = {s \in Segment : Active(s)}]
  <2> DEFINE r == [comp[c] EXCEPT !.pc = "clean", !.saw = {s \in Segment : Active(s)}]
  <2>2. comp' = [comp EXCEPT ![c] = r]
    BY <1>4 DEF IInv, TypeOK
  <2>3. /\ r \in RunState /\ r.out = comp[c].out /\ r.pc = "clean"
        /\ r.saw = {s \in Segment : Active(s)} /\ r.epoch = comp[c].epoch
    BY <1>2 DEF RunState
  <2> HIDE DEF r
  <2>4. comp'[c] = r
    BY <2>2 DEF IInv, TypeOK
  <2>5. Run(c)'
    BY <1>1, <1>2, <2>3, <2>4
    DEF Run, SourcesOf, CandidateOf, StoredBy, BoundBy, SeenBy, Quiet, AtWork, Active
  <2> QED
    BY <1>1, <2>2, <2>3, <2>5, PrivateKeeps
<1> QED
  BY <1>3, <1>4 DEF Select

\* A run that marks the job clean either saw every active row, or finds that the
\* epoch moved on and leaves the job as it is.
LEMMA CleanKeeps ==
  ASSUME IInv, TypeOK', NEW c \in Compactor, Clean(c)
  PROVE  IInv'
<1> DEFINE r == [comp[c] EXCEPT !.pc = "done", !.saw = {}]
<1>1. Quiet /\ UNCHANGED <<now, fencing, reader>>
  BY DEF Clean, Quiet
<1>2. comp[c] \in RunState /\ Run(c) /\ comp[c].pc = "clean"
  BY DEF IInv, TypeOK, Others, Runs, Clean
<1>3. comp' = [comp EXCEPT ![c] = r]
  BY DEF Clean, IInv, TypeOK
<1>4. r \in RunState /\ r.pc = "done" /\ r.epoch = comp[c].epoch /\ r.out = comp[c].out
  BY <1>2 DEF RunState
<1> HIDE DEF r
<1>5. /\ job'.epoch = job.epoch /\ job'.token = job.token /\ job'.until = job.until
      /\ job'.dirty # job.dirty => job.token = c /\ job.epoch = comp[c].epoch
      /\ \A d \in Compactor \ {c} : job'.token = d => UNCHANGED job
  BY DEF Clean, MarkClean, IInv, TypeOK, JobRow
<1>6. Run(c)'
  <2>1. comp'[c] = r
    BY <1>3 DEF IInv, TypeOK
  <2>2. comp'[c].epoch <= job'.epoch
    BY <1>2, <1>4, <1>5, <2>1 DEF Run, SeenBy
  <2> QED
    BY <1>4, <2>1, <2>2, RestingRun
<1>7. Runs' /\ OutsApart'
  BY <1>1, <1>3, <1>4, <1>5, <1>6, OthersRuns
<1>8. NoMissedSegment'
  <2> SUFFICES ASSUME ~job'.dirty, NEW s \in Segment, Active(s)
               PROVE  s \in looked'
    BY <1>1 DEF NoMissedSegment, Active, Quiet
  <2>1. CASE job.dirty
    <3>1. looked' = comp[c].saw
      BY <2>1 DEF Clean
    <3> QED
      BY <2>1, <3>1, <1>2, <1>5 DEF Run, SeenBy
  <2>2. CASE ~job.dirty
    BY <2>2 DEF Clean, IInv, Others, NoMissedSegment
  <2> QED
    BY <2>1, <2>2
<1>9. LeaseShort' /\ Readers' /\ SnapshotReadable'
  BY <1>1, <1>5, QuietReaders DEF LeaseShort, IInv, Others
<1> QED
  BY <1>1, <1>5, <1>7, <1>8, <1>9, QuietOthers

\* A failed run makes the job dirty, and a finished one gives its lease back.
LEMMA EndKeeps ==
  ASSUME IInv, TypeOK', NEW c \in Compactor, Fail(c) \/ Release(c) \/ Throw(c) \/ Die(c)
  PROVE  IInv'
<1>1. Quiet /\ UNCHANGED <<now, fencing, reader, looked>>
  BY DEF Fail, Release, Throw, Die, Quiet
<1>2. comp[c] \in RunState /\ Run(c) /\ comp[c].epoch <= job.epoch
  BY DEF IInv, TypeOK, Others, Runs, Run, SeenBy
<1>3. PICK r \in RunState :
        /\ comp' = [comp EXCEPT ![c] = r]
        /\ r.pc \in {"idle", "failed", "done"} /\ r.epoch <= job.epoch
        /\ r.out = comp[c].out \/ r.out = None
  <2>1. CASE Fail(c) \/ Throw(c)
    <3>1. \E pc \in {"failed", "done"} : comp' = [comp EXCEPT ![c] = [comp[c] EXCEPT !.pc = pc]]
      BY <2>1 DEF Fail, Throw, IInv, TypeOK
    <3>2. \A pc \in {"failed", "done"} :
            /\ [comp[c] EXCEPT !.pc = pc] \in RunState
            /\ [comp[c] EXCEPT !.pc = pc].pc = pc
            /\ [comp[c] EXCEPT !.pc = pc].epoch = comp[c].epoch
            /\ [comp[c] EXCEPT !.pc = pc].out = comp[c].out
      BY <1>2 DEF RunState
    <3> QED
      BY <1>2, <3>1, <3>2
  <2>2. CASE Release(c) \/ Die(c)
    <3>1. comp' = [comp EXCEPT ![c] = IdleCompactor]
      BY <2>2 DEF Release, Die
    <3>2. /\ IdleCompactor \in RunState /\ IdleCompactor.pc = "idle"
          /\ IdleCompactor.epoch <= job.epoch /\ IdleCompactor.out = None
      BY DEF IdleCompactor, RunState, IInv, TypeOK, JobRow
    <3> QED
      BY <3>1, <3>2
  <2> QED
    BY <2>1, <2>2
<1>4. /\ job'.epoch = job.epoch /\ job'.until \in {job.until, 0}
      /\ ~job'.dirty => ~job.dirty
      /\ \A d \in Compactor \ {c} : job'.token = d => UNCHANGED job
  <2>1. job \in JobRow
    BY DEF IInv, TypeOK
  <2>2. CASE job' = job
    BY <2>2
  <2>3. CASE job.token = c /\ job' = [job EXCEPT !.dirty = TRUE, !.retryAt = now + Retry]
    BY <2>1, <2>3 DEF JobRow
  <2>4. CASE job' = Released
    BY <2>1, <2>4, CompactionAssumption DEF Released, JobRow
  <2> QED
    BY <2>2, <2>3, <2>4 DEF Fail, Release, Throw, Die
<1>5. Run(c)'
  <2>1. comp'[c] = r
    BY <1>3 DEF IInv, TypeOK
  <2> QED
    BY <1>3, <1>4, <2>1, RestingRun
<1>6. Runs' /\ OutsApart'
  BY <1>1, <1>3, <1>4, <1>5, OthersRuns
<1>7. NoMissedSegment'
  BY <1>1, <1>4 DEF NoMissedSegment, IInv, Others, Active, Quiet
<1>8. LeaseShort' /\ Readers' /\ SnapshotReadable'
  <2>1. LeaseShort'
    BY <1>1, <1>4, CompactionAssumption DEF LeaseShort, IInv, Others, TypeOK
  <2> QED
    BY <1>1, <2>1, QuietReaders
<1> QED
  BY <1>1, <1>4, <1>6, <1>7, <1>8, QuietOthers

\* The sources are read and the clock of the publication is bound.
LEMMA ReadBindKeeps ==
  ASSUME IInv, TypeOK', NEW c \in Compactor, ReadSources(c) \/ Bind(c)
  PROVE  IInv'
<1>1. Quiet /\ UNCHANGED <<now, job, fencing, reader, looked>>
  BY DEF ReadSources, Bind, Quiet
<1>2. comp[c] \in RunState /\ Run(c) /\ comp[c].epoch <= job.epoch /\ now \in Nat
  BY DEF IInv, TypeOK, Others, Runs, Run, SeenBy
<1>3. CASE ReadSources(c)
  <2>1. PICK pc \in {"read", "failed"} : comp' = [comp EXCEPT ![c] = [comp[c] EXCEPT !.pc = pc]]
    BY <1>3 DEF ReadSources, IInv, TypeOK
  <2> DEFINE r == [comp[c] EXCEPT !.pc = pc]
  <2>2. /\ r \in RunState /\ r.pc = pc /\ r.epoch = comp[c].epoch /\ r.out = comp[c].out
        /\ r.rows = comp[c].rows
    BY <1>2 DEF RunState
  <2> HIDE DEF r
  <2>3. comp'[c] = r /\ comp[c].pc = "selected"
    BY <1>3, <2>1 DEF IInv, TypeOK, ReadSources, r
  <2>4. Run(c)'
    BY <1>1, <1>2, <2>2, <2>3
    DEF Run, SourcesOf, CandidateOf, StoredBy, BoundBy, SeenBy, Quiet, AtWork, Present,
        SpanBounded
  <2>5. comp' = [comp EXCEPT ![c] = r]
    BY <2>1 DEF r
  <2> QED
    BY <1>1, <2>2, <2>4, <2>5, PrivateKeeps
<1>4. CASE Bind(c)
  <2> DEFINE r == [comp[c] EXCEPT !.pc = "bound", !.at = now]
  <2>1. comp' = [comp EXCEPT ![c] = r]
    BY <1>4 DEF Bind, IInv, TypeOK
  <2>2. /\ r \in RunState /\ r.pc = "bound" /\ r.epoch = comp[c].epoch
        /\ r.out = comp[c].out /\ r.rows = comp[c].rows /\ r.at = now
    BY <1>2 DEF RunState
  <2> HIDE DEF r
  <2>3. comp'[c] = r /\ comp[c].pc = "stored"
    BY <1>4, <2>1 DEF IInv, TypeOK, Bind
  <2>4. /\ SourcesOf(c)' /\ CandidateOf(c)' /\ SeenBy(c)'
    BY <1>1, <1>2, <2>2, <2>3
    DEF Run, SourcesOf, CandidateOf, SeenBy, Quiet, AtWork, Present, SpanBounded
  <2>5. MergedEvents(c)' = MergedEvents(c)
    BY <1>1, <2>2, <2>3 DEF MergedEvents, Quiet
  <2>6. StoredBy(c)'
    BY <1>1, <1>2, <2>2, <2>3, <2>5 DEF Run, StoredBy, Quiet, Body
  <2>7. BoundBy(c)'
    BY <1>1, <1>2, <2>2, <2>3, CompactionAssumption DEF BoundBy
  <2> QED
    BY <1>1, <2>1, <2>2, <2>4, <2>6, <2>7, PrivateKeeps DEF Run
<1> QED
  BY <1>3, <1>4
-----------------------------------------------------------------------------
(* The clock, the cleanup's choice and the reports.                        *)

LEMMA ClockKeeps ==
  ASSUME IInv, TypeOK', Tick
  PROVE  IInv'
<1>1. /\ Quiet /\ UNCHANGED <<job, comp, fencing, reader, looked>> /\ now' = now + 1
      /\ now \in Nat
  BY DEF Tick, Quiet, IInv, TypeOK
<1>2. Rows' /\ Grows /\ Counts
  BY <1>1, QuietFrame
<1>3. FenceDue'
  BY <1>1 DEF FenceDue, IInv, Others, Quiet, TypeOK
<1>4. LeaseShort'
  BY <1>1, CompactionAssumption DEF LeaseShort, IInv, Others, TypeOK, JobRow
<1>5. Runs'
  <2> SUFFICES ASSUME NEW c \in Compactor PROVE Run(c)'
    BY DEF Runs
  <2>1. Run(c) /\ comp'[c] = comp[c] /\ now <= now'
    BY <1>1 DEF IInv, Others, Runs
  <2>2. comp[c].pc = "bound" => now' <= comp[c].at + Flight
    <3>1. comp[c].at \in Nat /\ Flight \in Nat
      BY CompactionAssumption DEF IInv, TypeOK, RunState
    <3> QED
      BY <1>1, <3>1 DEF Tick
  <2>3. comp[c].pc \in {"tracked", "stored", "bound"} =>
          /\ ~Present(comp[c].out)'
          /\ gc'[comp[c].out] = gc[comp[c].out]
          /\ object'[comp[c].out] = object[comp[c].out]
    BY <1>1, <2>1 DEF Run, CandidateOf, Quiet, Present
  <2>4. job'.token = c => job.token = c /\ job'.until <= job.until
    BY <1>1 DEF IInv, TypeOK, JobRow
  <2> QED
    BY <1>2, <2>1, <2>2, <2>3, <2>4, RunFrame DEF IInv
<1>6. OutsApart' /\ SnapshotReadable' /\ NoMissedSegment'
  BY <1>1 DEF OutsApart, SnapshotReadable, NoMissedSegment, IInv, Others, Active, Quiet
<1>7. Readers'
  <2> SUFFICES ASSUME NEW d \in Reader PROVE ReaderOK(d)'
    BY DEF Readers
  <2>1. ReaderOK(d) /\ reader'[d] = reader[d] /\ now <= now'
    BY <1>1 DEF IInv, Others, Readers
  <2>2. reader[d].pc = "reading" => now' <= reader[d].started + ReadLife
    <3>1. reader[d].started \in Nat /\ ReadLife \in Nat
      BY CompactionAssumption DEF IInv, TypeOK, ReaderState
    <3> QED
      BY <1>1, <3>1 DEF Tick
  <2>3. \A s \in reader[d].todo : object'[s] = object[s] /\ gc'[s] = gc[s]
    BY <1>1 DEF Quiet
  <2> QED
    BY <1>2, <2>1, <2>2, <2>3, ReaderFrame DEF IInv
<1> QED
  BY <1>2, <1>3, <1>4, <1>5, <1>6, <1>7 DEF IInv, Others

\* Runs do not notice a quiet step that is not theirs.
LEMMA QuietRuns ==
  ASSUME IInv, Quiet, UNCHANGED <<now, job, comp, looked>>
  PROVE  LeaseShort' /\ Runs' /\ OutsApart' /\ NoMissedSegment'
<1>1. LeaseShort' /\ OutsApart' /\ NoMissedSegment'
  BY DEF IInv, Others, LeaseShort, OutsApart, NoMissedSegment, Quiet, Active
<1>2. ASSUME NEW c \in Compactor PROVE Run(c)'
  <2>1. Run(c) /\ MergedEvents(c)' = MergedEvents(c)
    BY DEF IInv, Others, Runs, MergedEvents, Quiet
  <2> QED
    BY <2>1 DEF Run, SourcesOf, CandidateOf, StoredBy, BoundBy, SeenBy, Quiet, AtWork,
                Present, SpanBounded, Active, Body
<1> QED
  BY <1>1, <1>2 DEF Runs

\* Only a due key is chosen for the fence.
LEMMA PickKeeps ==
  ASSUME IInv, TypeOK', NEW s \in Segment, PickGarbage(s)
  PROVE  IInv'
<1>1. Quiet /\ UNCHANGED <<now, job, comp, reader, looked>> /\ fencing' = {s}
  BY DEF PickGarbage, Quiet
<1>2. FenceDue'
  BY <1>1 DEF FenceDue, IInv, Others, PickGarbage, Quiet
<1>3. Rows'
  BY <1>1, QuietFrame DEF IInv, TypeOK
<1> QED
  BY <1>1, <1>2, <1>3, QuietRuns, QuietReaders DEF IInv, Others

\* A report takes what is active, and finds each object of it whole.
LEMMA ReadKeeps ==
  ASSUME IInv, TypeOK', NEW d \in Reader, ReadStep(d)
  PROVE  IInv'
<1>1. Quiet /\ UNCHANGED <<now, job, comp, fencing, looked>>
  BY DEF ReadStep, Snapshot, ReadObject, FinishRead, Quiet
<1>2. ReaderOK(d) /\ reader[d] \in ReaderState /\ reader[d].pc # "broken" /\ now \in Nat
  BY DEF IInv, Others, Readers, SnapshotReadable, TypeOK
<1>3. ReaderOK(d)' /\ reader'[d].pc # "broken"
  <2>1. CASE Snapshot(d)
    <3>1. reader'[d] = [pc |-> "reading", todo |-> {s \in Segment : Active(s)}, started |-> now]
      BY <2>1 DEF Snapshot, IInv, TypeOK
    <3>2. ReadLife \in Nat
      BY CompactionAssumption
    <3> QED
      BY <1>1, <1>2, <3>1, <3>2
      DEF ReaderOK, Quiet, Active, Present, IInv, Rows, ActiveKept, Body
  <2>2. CASE ReadObject(d)
    <3>1. PICK s \in reader[d].todo :
            reader' = [reader EXCEPT
                ![d].todo = @ \ {s},
                ![d].pc = IF object[s] = Body(seg[s].events) THEN @ ELSE "broken"]
      BY <2>2 DEF ReadObject
    <3>2. object[s] = Body(seg[s].events)
      BY <1>2, <2>2 DEF ReaderOK, ReadObject
    <3>3. reader' = [reader EXCEPT ![d] = [reader[d] EXCEPT !.todo = reader[d].todo \ {s}]]
      <4>1. reader' = [reader EXCEPT ![d].todo = @ \ {s}, ![d].pc = @]
        BY <3>1, <3>2
      <4>2. reader[d] = [reader[d] EXCEPT !.pc = @]
        BY <1>2 DEF ReaderState
      <4> QED
        BY <4>1, <4>2, <1>2 DEF ReaderState
    <3>4. /\ reader'[d].pc = reader[d].pc /\ reader'[d].started = reader[d].started
          /\ reader'[d].todo \subseteq reader[d].todo
      BY <3>3, <1>2 DEF IInv, TypeOK, ReaderState
    <3> QED
      BY <1>1, <1>2, <3>4 DEF ReaderOK, Quiet, Present, Body
  <2>3. CASE FinishRead(d)
    BY <2>3 DEF FinishRead, IdleReader, IInv, TypeOK, ReaderOK
  <2> QED
    BY <2>1, <2>2, <2>3 DEF ReadStep
<1>4. \A e \in Reader : e # d => reader'[e] = reader[e]
  BY DEF ReadStep, Snapshot, ReadObject, FinishRead, IInv, TypeOK
<1>5. Readers' /\ SnapshotReadable'
  <2>1. ASSUME NEW e \in Reader, e # d PROVE ReaderOK(e)' /\ reader'[e].pc # "broken"
    BY <1>1, <1>4, <2>1
    DEF IInv, Others, Readers, SnapshotReadable, ReaderOK, Quiet, Present, Body
  <2> QED
    BY <1>3, <2>1 DEF Readers, SnapshotReadable
<1> QED
  BY <1>1, <1>5, QuietRuns, QuietOthers
-----------------------------------------------------------------------------
(* Steps that change the index, the objects or the garbage.                *)

\* Index steps leave the runs alone when they spare what is not indexed.
LEMMA IndexRuns ==
  ASSUME IInv, TypeOK', Grows, Counts, UNCHANGED <<now, comp>>,
         job'.token = job.token, job'.until = job.until,
         \A s \in Merged : ~Present(s) =>
           /\ ~Present(s)' /\ gc'[s] = gc[s]
           /\ object'[s] = object[s] \/ object'[s].kind = "fence"
  PROVE  LeaseShort' /\ Runs' /\ OutsApart'
<1>1. LeaseShort' /\ OutsApart'
  BY DEF IInv, Others, LeaseShort, OutsApart
<1>2. ASSUME NEW c \in Compactor PROVE Run(c)'
  <2>1. Run(c) /\ comp'[c] = comp[c] /\ now <= now'
    BY DEF IInv, Others, Runs, TypeOK
  <2>2. comp[c].pc = "bound" => now' <= comp[c].at + Flight
    BY <2>1 DEF Run, BoundBy
  <2>3. comp[c].pc \in {"tracked", "stored", "bound"} =>
          comp[c].out \in Merged /\ ~Present(comp[c].out)
    BY <2>1 DEF Run, CandidateOf, IInv, TypeOK, RunState
  <2>4. job'.token = c => job.token = c /\ job'.until <= job.until
    BY DEF IInv, TypeOK, JobRow
  <2> QED
    BY <2>1, <2>2, <2>3, <2>4, RunFrame DEF IInv
<1> QED
  BY <1>1, <1>2 DEF Runs

\* A report keeps what it has to read while only due keys are fenced and new
\* entries are due after its deadline.
LEMMA IndexReaders ==
  ASSUME IInv, TypeOK', Grows, UNCHANGED <<now, reader>>,
         \A s \in Segment : Present(s) =>
           /\ object'[s] = object[s] \/ (gc[s] # None /\ gc[s] <= now)
           /\ gc'[s] # None => gc'[s] = gc[s] \/ now + ReadLife < gc'[s]
  PROVE  Readers' /\ SnapshotReadable'
<1>1. SnapshotReadable'
  BY DEF IInv, Others, SnapshotReadable
<1>2. ASSUME NEW d \in Reader PROVE ReaderOK(d)'
  <2>1. /\ ReaderOK(d) /\ reader'[d] = reader[d] /\ now <= now' /\ now \in Nat
        /\ reader[d].started \in Nat /\ reader[d].todo \subseteq Segment /\ ReadLife \in Nat
        /\ \A s \in Segment : gc[s] \in Nat \union {None}
    BY CompactionAssumption DEF IInv, Others, Readers, TypeOK, ReaderState
  <2>2. ASSUME reader[d].pc = "reading", NEW s \in reader[d].todo
        PROVE  /\ object'[s] = object[s]
               /\ gc'[s] # None => gc'[s] = gc[s] \/ now + ReadLife < gc'[s]
    <3>1. Present(s) /\ (gc[s] # None => now < gc[s])
      BY <2>1, <2>2 DEF ReaderOK
    <3> QED
      BY <2>1, <2>2, <3>1
  <2>3. reader[d].pc = "reading" => now' <= reader[d].started + ReadLife
    BY <2>1 DEF ReaderOK
  <2> QED
    BY <2>1, <2>2, <2>3, ReaderFrame DEF IInv
<1> QED
  BY <1>1, <1>2 DEF Readers

\* A new batch: its object, its row and a new epoch.
LEMMA SealKeeps ==
  ASSUME IInv, TypeOK', NEW s \in Raw, Seal(s)
  PROVE  IInv'
<1> DEFINE r == [status |-> "active", level |-> 0, events |-> {s}, received |-> now,
                 last |-> now, cleanup |-> now + Expiry]
<1>1. /\ seg'[s] = r /\ object'[s] = Body({s})
      /\ \A t \in Segment : t # s => seg'[t] = seg[t] /\ object'[t] = object[t]
      /\ UNCHANGED <<now, retired, gc, comp, fencing, reader, looked>>
  BY DEF Seal, IInv, TypeOK, Segment
<1>2. /\ r.status = "active" /\ r.level = 0 /\ r.events = {s} /\ r.received = now
      /\ r.last = now
  OBVIOUS
<1> HIDE DEF r
<1>3. ~Present(s) /\ ~Active(s) /\ object[s].kind = "absent" /\ gc[s] = None
  BY DEF Seal, Present, Active, NoObject, IInv, Rows, RawRows
<1>4. /\ job.epoch \in Nat /\ job'.epoch = job.epoch + 1 /\ job'.dirty = TRUE
      /\ job'.token = job.token /\ job'.until = job.until
  BY DEF Seal, Dirtied, IInv, TypeOK, JobRow
<1>5. Grows /\ Counts
  BY <1>1, <1>3, <1>4 DEF Grows, Counts, Present
<1>6. now \in Nat /\ Day \in Nat /\ s \in Segment
      /\ \A t \in Segment : seg[t].events \subseteq Raw /\ seg[t].level \in Nat
  BY CompactionAssumption DEF IInv, TypeOK, SegmentRow, Segment
<1>7. RawRows'
  BY <1>1, <1>2 DEF IInv, Rows, RawRows, Present, Segment
<1>8. RowScale'
  <2> SUFFICES ASSUME NEW t \in Segment, Present(t)'
               PROVE  seg'[t].last <= now /\ seg'[t].level <= job'.epoch
    BY <1>1 DEF RowScale
  <2> QED
    BY <1>1, <1>2, <1>4, <1>6 DEF IInv, Rows, RowScale, Present
<1>9. Spans'
  <2> SUFFICES ASSUME NEW t \in Segment, Present(t)', NEW e \in seg'[t].events
               PROVE  /\ Present(e)' /\ seg'[e].last <= seg'[t].last
                      /\ seg'[e].last <= seg'[t].received + Day
    BY DEF Spans
  <2>1. CASE t = s
    BY <1>1, <1>2, <1>6, <2>1 DEF Present
  <2>2. CASE t # s
    <3>1. /\ e \in Segment /\ Present(e) /\ seg[e].last <= seg[t].last
          /\ seg[e].last <= seg[t].received + Day
      BY <1>1, <1>6, <2>2 DEF IInv, Rows, Spans, Present, Segment
    <3> QED
      BY <1>1, <1>3, <2>2, <3>1 DEF Present
  <2> QED
    BY <2>1, <2>2
<1>10. \A t \in Segment : Active(t) => s \notin seg[t].events
  BY <1>3 DEF IInv, Rows, Spans, Present, Active
<1>11. Disjoint'
  BY <1>1, <1>2, <1>10 DEF IInv, Rows, Disjoint, Active
<1>12. Held'
  <2> SUFFICES ASSUME NEW e \in Raw, Present(e)', now < seg'[e].last + Expiry - Day
               PROVE  \E t \in Segment : Active(t)' /\ e \in seg'[t].events
    BY <1>1 DEF Held
  <2>1. CASE e = s
    BY <1>1, <1>2, <1>6, <2>1 DEF Active
  <2>2. CASE e # s
    <3>1. PICK t \in Segment : Active(t) /\ e \in seg[t].events
      BY <1>1, <2>2 DEF IInv, Rows, Held, Present, Segment
    <3> QED
      BY <1>1, <1>3, <3>1 DEF Active
  <2> QED
    BY <2>1, <2>2
<1>13. ActiveKept' /\ NothingLeaks'
  BY <1>1, <1>2, <1>3 DEF IInv, Rows, ActiveKept, NothingLeaks, Active, Body
<1>14. Rows'
  BY <1>7, <1>8, <1>9, <1>11, <1>12, <1>13 DEF Rows
<1>15. FenceDue' /\ NoMissedSegment'
  BY <1>1, <1>4 DEF IInv, Others, FenceDue, NoMissedSegment, Body
<1>16. LeaseShort' /\ Runs' /\ OutsApart'
  <2>1. \A t \in Merged : t # s /\ t \in Segment
    BY CompactionAssumption DEF Segment
  <2> QED
    BY <1>1, <1>4, <1>5, <2>1, IndexRuns DEF Present
<1>17. Readers' /\ SnapshotReadable'
  BY <1>1, <1>3, <1>5, IndexReaders
<1> QED
  BY <1>14, <1>15, <1>16, <1>17 DEF IInv, Others

\* A batch sealed again has its row still, or had it for all its time.
LEMMA ResealKeeps ==
  ASSUME IInv, TypeOK', NEW s \in Raw, Reseal(s)
  PROVE  IInv'
<1>1. ~(seg[s].status = "gone" /\ Resealable(s))
  <2>1. seg[s].received \in Nat /\ now \in Nat /\ Expiry \in Nat /\ SealLife \in Nat
    BY CompactionAssumption DEF IInv, TypeOK, SegmentRow, Segment
  <2> QED
    BY <2>1, CompactionAssumption DEF Reseal, Resealable, IInv, Rows, RawRows
<1>2. Quiet /\ UNCHANGED <<now, job, comp, fencing, reader, looked>>
  BY <1>1 DEF Reseal, Quiet
<1> QED
  BY <1>2, QuietRuns, QuietReaders, QuietOthers

\* A row leaves the index, or stays out of it, with its object entered in the
\* garbage table: an active one only when it has expired.
LEMMA LeaveKeeps ==
  ASSUME IInv, TypeOK', NEW s \in Segment, Present(s),
         UNCHANGED <<now, object, job, comp, fencing, reader, looked>>,
         retired \subseteq retired',
         \A t \in Segment : t # s => seg'[t] = seg[t] /\ gc'[t] = gc[t],
         seg'[s].events = seg[s].events, seg'[s].received = seg[s].received,
         seg'[s].last = seg[s].last, seg'[s].level = seg[s].level,
         seg'[s].status \in {"inactive", "gone"},
         gc'[s] = Collect(gc, s, now + Grace),
         Active(s) => seg[s].received + Expiry <= now,
         s \in Raw => s \in retired' \/ seg[s].received + Expiry <= now
  PROVE  IInv'
<1>1. Grows /\ Counts
  BY DEF Grows, Counts, Present, Active
<1>2. /\ now \in Nat /\ Grace \in Nat /\ Expiry \in Nat /\ Day \in Nat /\ ReadLife \in Nat
      /\ \A t \in Segment : /\ seg[t].events \subseteq Raw /\ seg[t].last \in Nat
                            /\ seg[t].received \in Nat
      /\ now + ReadLife < now + Grace
  BY CompactionAssumption DEF IInv, TypeOK, SegmentRow
<1>3. gc'[s] # None /\ (gc[s] # None => gc'[s] = gc[s])
      /\ (gc'[s] = gc[s] \/ gc'[s] = now + Grace)
  BY <1>2, CompactionAssumption DEF Collect
<1>4. RawRows'
  BY DEF IInv, Rows, RawRows, Present, Segment
<1>5. RowScale' /\ ActiveKept' /\ Disjoint'
  BY DEF IInv, Rows, RowScale, ActiveKept, Disjoint, Present, Active, Body
<1>6. Spans'
  <2> SUFFICES ASSUME NEW t \in Segment, Present(t)', NEW e \in seg'[t].events
               PROVE  /\ Present(e)' /\ seg'[e].last <= seg'[t].last
                      /\ seg'[e].last <= seg'[t].received + Day
    BY DEF Spans
  <2>1. /\ Present(t) /\ e \in seg[t].events /\ e \in Segment
        /\ seg'[t].last = seg[t].last /\ seg'[t].received = seg[t].received
    BY <1>2 DEF Present, Segment
  <2>2. /\ Present(e) /\ seg[e].last <= seg[t].last /\ seg[e].last <= seg[t].received + Day
    BY <2>1 DEF IInv, Rows, Spans
  <2>3. Present(e)' /\ seg'[e].last = seg[e].last
    BY <2>1, <2>2 DEF Present
  <2> QED
    BY <2>1, <2>2, <2>3
<1>7. Held'
  <2> SUFFICES ASSUME NEW e \in Raw, Present(e)', now < seg'[e].last + Expiry - Day
               PROVE  \E t \in Segment : Active(t)' /\ e \in seg'[t].events
    BY DEF Held
  <2>1. Present(e) /\ seg'[e].last = seg[e].last /\ e \in Segment
    BY DEF Present, Segment
  <2>2. PICK t \in Segment : Active(t) /\ e \in seg[t].events
    BY <2>1 DEF IInv, Rows, Held
  <2>3. t # s
    <3> SUFFICES ASSUME t = s PROVE FALSE
      OBVIOUS
    <3>1. seg[e].last <= seg[s].received + Day /\ seg[s].received + Expiry <= now
      BY <2>2 DEF IInv, Rows, Spans, Present, Active
    <3> QED
      BY <1>2, <2>1, <3>1
  <2> QED
    BY <2>2, <2>3 DEF Active
<1>8. NothingLeaks'
  BY <1>3 DEF IInv, Rows, NothingLeaks
<1>9. Rows'
  BY <1>4, <1>5, <1>6, <1>7, <1>8 DEF Rows
<1>10. FenceDue' /\ NoMissedSegment'
  BY <1>3 DEF IInv, Others, FenceDue, NoMissedSegment, Active
<1>11. LeaseShort' /\ Runs' /\ OutsApart'
  <2>1. \A t \in Merged : t \in Segment
    BY DEF Segment
  <2> QED
    BY <1>1, <2>1, IndexRuns DEF Present
<1>12. Readers' /\ SnapshotReadable'
  <2>1. \A t \in Segment : gc'[t] # None => gc'[t] = gc[t] \/ now + ReadLife < gc'[t]
    BY <1>2, <1>3
  <2> QED
    BY <1>1, <2>1, IndexReaders
<1> QED
  BY <1>9, <1>10, <1>11, <1>12 DEF IInv, Others

LEMMA RetireRawKeeps ==
  ASSUME IInv, TypeOK', NEW s \in Raw, RetireRaw(s)
  PROVE  IInv'
<1>1. Present(s) /\ s \in Segment /\ seg[s] \in SegmentRow
  BY DEF IInv, Rows, RawRows, RetireRaw, Segment, TypeOK
<1>2. /\ seg[s].received + Expiry <= now /\ retired' = retired \union {s}
      /\ gc' = [gc EXCEPT ![s] = Collect(gc, s, now + Grace)]
      /\ UNCHANGED <<now, object, job, comp, fencing, reader, looked>>
  BY DEF RetireRaw
<1> DEFINE st == IF seg[s].status = "active" THEN "inactive" ELSE seg[s].status
<1>3. seg' = [seg EXCEPT ![s] = [seg[s] EXCEPT !.status = st, !.cleanup = now + Grace]]
  BY DEF RetireRaw, IInv, TypeOK
<1>4. st \in {"inactive", "gone"}
  BY <1>1 DEF Present, SegmentRow
<1> HIDE DEF st
<1>5. /\ seg'[s].events = seg[s].events /\ seg'[s].received = seg[s].received
      /\ seg'[s].last = seg[s].last /\ seg'[s].level = seg[s].level
      /\ seg'[s].status = st
      /\ \A t \in Segment : t # s => seg'[t] = seg[t]
  BY <1>1, <1>3 DEF IInv, TypeOK, SegmentRow
<1>6. gc'[s] = Collect(gc, s, now + Grace) /\ \A t \in Segment : t # s => gc'[t] = gc[t]
  BY <1>1, <1>2 DEF IInv, TypeOK
<1> QED
  BY <1>1, <1>2, <1>4, <1>5, <1>6, LeaveKeeps

LEMMA CleanupKeeps ==
  ASSUME IInv, TypeOK', NEW s \in Segment, CleanupSegment(s)
  PROVE  IInv'
<1>1. Present(s) /\ seg[s] \in SegmentRow /\ seg[s].status \in {"active", "inactive"}
  BY DEF CleanupSegment, Present, IInv, TypeOK
<1>2. UNCHANGED <<now, retired, object, job, comp, fencing, reader, looked>>
  BY DEF CleanupSegment
<1>3. CASE Active(s) /\ Unexpired(s)
  <2>1. /\ seg' = [seg EXCEPT ![s] = [seg[s] EXCEPT !.cleanup = seg[s].received + Expiry]]
        /\ UNCHANGED gc
    BY <1>3 DEF CleanupSegment, IInv, TypeOK
  <2>2. \A t \in Segment :
          /\ seg'[t].events = seg[t].events /\ seg'[t].received = seg[t].received
          /\ seg'[t].last = seg[t].last /\ seg'[t].level = seg[t].level
          /\ seg'[t].status = seg[t].status
    BY <1>1, <2>1 DEF IInv, TypeOK, SegmentRow
  <2>3. Grows /\ Counts
    BY <1>2, <2>2 DEF Grows, Counts, Present, Active
  <2>4. RawRows' /\ RowScale'
    BY <1>2, <2>1, <2>2 DEF IInv, Rows, RawRows, RowScale, Present, Segment
  <2>5. Spans'
    <3>1. \A t \in Segment : seg[t].events \subseteq Segment
      BY DEF IInv, TypeOK, SegmentRow, Segment
    <3> QED
      BY <2>2, <3>1 DEF IInv, Rows, Spans, Present
  <2>6. Disjoint' /\ Held' /\ ActiveKept' /\ NothingLeaks'
    <3>1. Disjoint'
      BY <2>2 DEF IInv, Rows, Disjoint, Active
    <3>2. Held'
      BY <1>2, <2>1, <2>2
      DEF IInv, Rows, Held, Present, Active, Segment, Body
    <3>3. ActiveKept'
      BY <1>2, <2>1, <2>2 DEF IInv, Rows, ActiveKept, Present, Active, Segment, Body
    <3>4. NothingLeaks'
      BY <1>2, <2>1, <2>2 DEF IInv, Rows, NothingLeaks, Present, Active, Segment, Body
    <3> QED
      BY <3>1, <3>2, <3>3, <3>4
  <2>7. FenceDue' /\ NoMissedSegment'
    BY <1>2, <2>1, <2>2 DEF IInv, Others, FenceDue, NoMissedSegment, Active
  <2>8. LeaseShort' /\ Runs' /\ OutsApart'
    BY <1>2, <2>1, <2>2, <2>3, IndexRuns DEF Present, Segment
  <2>9. Readers' /\ SnapshotReadable'
    BY <1>2, <2>1, <2>3, IndexReaders
  <2> QED
    BY <2>4, <2>5, <2>6, <2>7, <2>8, <2>9 DEF IInv, Others, Rows
<1>4. CASE ~(Active(s) /\ Unexpired(s))
  <2>1. /\ seg' = [seg EXCEPT ![s] = [seg[s] EXCEPT !.status = "gone"]]
        /\ gc' = [gc EXCEPT ![s] = Collect(gc, s, now + Grace)]
    BY <1>4 DEF CleanupSegment, IInv, TypeOK
  <2>2. /\ seg'[s].events = seg[s].events /\ seg'[s].received = seg[s].received
        /\ seg'[s].last = seg[s].last /\ seg'[s].level = seg[s].level
        /\ seg'[s].status = "gone"
        /\ \A t \in Segment : t # s => seg'[t] = seg[t]
    BY <1>1, <2>1 DEF IInv, TypeOK, SegmentRow
  <2>3. gc'[s] = Collect(gc, s, now + Grace) /\ \A t \in Segment : t # s => gc'[t] = gc[t]
    BY <2>1 DEF IInv, TypeOK
  <2>4. now \in Nat /\ seg[s].received \in Nat /\ Expiry \in Nat
    BY <1>1, CompactionAssumption DEF IInv, TypeOK, SegmentRow
  <2>5. Active(s) => seg[s].received + Expiry <= now
    BY <1>4, <2>4 DEF Unexpired
  <2>6. s \in Raw => s \in retired \/ seg[s].received + Expiry <= now
    BY <1>1, <2>5 DEF IInv, Rows, RawRows, Active
  <2> QED
    BY <1>1, <1>2, <2>2, <2>3, <2>5, <2>6, LeaveKeeps
<1> QED
  BY <1>3, <1>4

\* The fence overwrites what no row shows any more.
LEMMA FenceKeeps ==
  ASSUME IInv, TypeOK', NEW s \in Segment, Fence(s)
  PROVE  IInv'
<1>1. /\ object'[s].kind = "fence" /\ \A t \in Segment : t # s => object'[t] = object[t]
      /\ fencing' \subseteq fencing
      /\ UNCHANGED <<now, seg, retired, gc, job, comp, reader, looked>>
  BY DEF Fence, IInv, TypeOK
<1>2. gc[s] # None /\ gc[s] <= now /\ ~Active(s)
  BY DEF Fence, IInv, Others, FenceDue, Rows, ActiveKept
<1>3. Rows'
  <2>1. s \in Raw => Present(s)
    BY <1>2 DEF IInv, Rows, RawRows
  <2>2. RawRows'
    BY <1>1, <2>1 DEF IInv, Rows, RawRows, Present, Segment
  <2>3. RowScale' /\ Spans' /\ Disjoint' /\ Held'
    BY <1>1 DEF IInv, Rows, RowScale, Spans, Disjoint, Held, Present, Active
  <2>4. ActiveKept' /\ NothingLeaks'
    BY <1>1, <1>2 DEF IInv, Rows, ActiveKept, NothingLeaks, Active
  <2> QED
    BY <2>2, <2>3, <2>4 DEF Rows
<1>4. FenceDue' /\ NoMissedSegment'
  BY <1>1, <1>2 DEF IInv, Others, FenceDue, NoMissedSegment, Active
<1>5. Grows /\ Counts
  BY <1>1 DEF Grows, Counts, Present, Active
<1>6. LeaseShort' /\ Runs' /\ OutsApart'
  BY <1>1, <1>5, IndexRuns DEF Present, Segment
<1>7. Readers' /\ SnapshotReadable'
  BY <1>1, <1>2, <1>5, IndexReaders
<1> QED
  BY <1>3, <1>4, <1>6, <1>7 DEF IInv, Others
-----------------------------------------------------------------------------
(* The candidate of a run: tracked, stored, published.                     *)

\* The garbage entry of a candidate outlives the lease of its run and a last
\* statement under it.
LEMMA TrackKeeps ==
  ASSUME IInv, TypeOK', NEW c \in Compactor, TrackCandidate(c)
  PROVE  IInv'
<1>1. PICK m \in Merged :
        /\ seg[m].status = "none" /\ object[m] = NoObject /\ gc[m] = None
        /\ \A d \in Compactor : comp[d].out # m
        /\ gc' = [gc EXCEPT ![m] = CandidateGc]
        /\ comp' = [comp EXCEPT ![c].pc = "tracked", ![c].out = m]
  BY DEF TrackCandidate
<1> DEFINE r == [comp[c] EXCEPT !.pc = "tracked", !.out = m]
<1>2. /\ comp[c] \in RunState /\ Run(c) /\ comp[c].pc = "read" /\ m \in Segment /\ m \notin Raw
      /\ comp[c].epoch <= job.epoch
  BY CompactionAssumption DEF IInv, TypeOK, Others, Runs, Run, SeenBy, TrackCandidate, Segment
<1>3. comp' = [comp EXCEPT ![c] = r]
  BY <1>1 DEF IInv, TypeOK
<1>4. /\ r.pc = "tracked" /\ r.out = m /\ r.rows = comp[c].rows /\ r.epoch = comp[c].epoch
  BY <1>2 DEF RunState
<1> HIDE DEF r
<1>5. comp'[c] = r /\ \A d \in Compactor : d # c => comp'[d] = comp[d]
  BY <1>3 DEF IInv, TypeOK
<1>6. UNCHANGED <<now, seg, retired, object, job, fencing, reader, looked>>
  BY DEF TrackCandidate
<1>7. /\ gc'[m] = now + Candidate /\ \A t \in Segment : t # m => gc'[t] = gc[t]
      /\ now + Candidate # None /\ m # None
  BY <1>1, <1>2, CompactionAssumption DEF IInv, TypeOK, CandidateGc
<1>8. ~Present(m) /\ ~Active(m) /\ Grows /\ Counts
  BY <1>1, <1>6 DEF Present, Active, Grows, Counts
<1>9. Rows'
  <2>1. RawRows'
    BY <1>2, <1>6, <1>7 DEF IInv, Rows, RawRows, Present, Segment
  <2>2. RowScale' /\ Spans' /\ Disjoint' /\ Held'
    BY <1>6 DEF IInv, Rows, RowScale, Spans, Disjoint, Held, Present, Active
  <2>3. ActiveKept' /\ NothingLeaks'
    BY <1>6, <1>7, <1>8 DEF IInv, Rows, ActiveKept, NothingLeaks, Active
  <2> QED
    BY <2>1, <2>2, <2>3 DEF Rows
<1>10. FenceDue'
  <2>1. m \notin fencing /\ object[m].kind # "fence"
    BY <1>1, <1>2 DEF IInv, Others, FenceDue
  <2> QED
    BY <1>6, <1>7, <2>1 DEF IInv, Others, FenceDue
<1>11. LeaseShort' /\ NoMissedSegment'
  BY <1>6 DEF IInv, Others, LeaseShort, NoMissedSegment, Active
<1>12. Run(c)'
  <2>1. SourcesOf(c)' /\ StoredBy(c)' /\ BoundBy(c)' /\ SeenBy(c)'
    BY <1>2, <1>4, <1>5, <1>6
    DEF Run, SourcesOf, StoredBy, BoundBy, SeenBy, AtWork, Present, SpanBounded
  <2>2. job.until + Flight < now + Candidate
    <3>1. job.until \in Nat /\ now \in Nat
      BY DEF IInv, TypeOK, JobRow
    <3>2. {Lease, Flight, Candidate} \subseteq Nat /\ Lease + Flight < Candidate
      BY CompactionAssumption
    <3>3. job.until <= now + Lease
      BY DEF IInv, Others, LeaseShort
    <3> QED
      BY <3>1, <3>2, <3>3
  <2>3. CandidateOf(c)'
    BY <1>4, <1>5, <1>6, <1>7, <1>8, <2>2 DEF CandidateOf, Present
  <2> QED
    BY <2>1, <2>3 DEF Run
<1>13. ASSUME NEW d \in Compactor, d # c PROVE Run(d)'
  <2>1. Run(d) /\ comp'[d] = comp[d] /\ now <= now'
    BY <1>5, <1>6, <1>13 DEF IInv, Others, Runs, TypeOK
  <2>2. comp[d].pc = "bound" => now' <= comp[d].at + Flight
    BY <1>6, <2>1 DEF Run, BoundBy
  <2>3. comp[d].pc \in {"tracked", "stored", "bound"} =>
          /\ ~Present(comp[d].out)' /\ gc'[comp[d].out] = gc[comp[d].out]
          /\ object'[comp[d].out] = object[comp[d].out]
    <3>1. comp[d].pc \in {"tracked", "stored", "bound"} => comp[d].out \in Segment
      BY <2>1 DEF Run, CandidateOf, IInv, TypeOK, RunState, Segment
    <3> QED
      BY <1>1, <1>6, <1>7, <2>1, <3>1 DEF Run, CandidateOf, Present
  <2>4. job'.token = d => job.token = d /\ job'.until <= job.until
    BY <1>6 DEF IInv, TypeOK, JobRow
  <2> QED
    BY <1>8, <2>1, <2>2, <2>3, <2>4, RunFrame DEF IInv
<1>14. OutsApart'
  <2> SUFFICES ASSUME NEW d \in Compactor, NEW e \in Compactor, d # e, comp'[d].out # None
               PROVE  comp'[d].out # comp'[e].out
    BY DEF OutsApart
  <2>1. CASE d = c
    BY <1>1, <1>4, <1>5, <2>1
  <2>2. CASE e = c
    BY <1>1, <1>4, <1>5, <2>2
  <2>3. CASE d # c /\ e # c
    BY <1>5, <2>3 DEF IInv, Others, OutsApart
  <2> QED
    BY <2>1, <2>2, <2>3
<1>15. Readers' /\ SnapshotReadable'
  BY <1>6, <1>7, <1>8, IndexReaders
<1> QED
  BY <1>9, <1>10, <1>11, <1>12, <1>13, <1>14, <1>15 DEF IInv, Others, Runs

\* The object of a candidate is created once, with the events of its sources.
LEMMA StoreKeeps ==
  ASSUME IInv, TypeOK', NEW c \in Compactor, StoreCandidate(c)
  PROVE  IInv'
<1> DEFINE m == comp[c].out
<1>1. /\ comp[c] \in RunState /\ Run(c) /\ comp[c].pc = "tracked" /\ comp[c].epoch <= job.epoch
      /\ m \in Segment /\ m \notin Raw /\ ~Present(m) /\ gc[m] # None /\ m # None
  BY CompactionAssumption
  DEF IInv, TypeOK, Others, Runs, Run, SeenBy, CandidateOf, StoreCandidate, RunState, Segment
<1>2. UNCHANGED <<now, seg, retired, gc, job, fencing, reader, looked>>
  BY DEF StoreCandidate
<1>3. CASE object[m] # NoObject
  <2> DEFINE r == [comp[c] EXCEPT !.pc = "failed"]
  <2>1. comp' = [comp EXCEPT ![c] = r] /\ UNCHANGED object
    BY <1>3 DEF StoreCandidate, IInv, TypeOK
  <2>2. r \in RunState /\ r.out = comp[c].out /\ r.pc = "failed" /\ r.epoch = comp[c].epoch
    BY <1>1 DEF RunState
  <2> HIDE DEF r
  <2>3. comp'[c] = r
    BY <2>1 DEF IInv, TypeOK
  <2>4. Run(c)'
    BY <1>1, <1>2, <2>2, <2>3, RestingRun
  <2> QED
    BY <1>2, <2>1, <2>2, <2>4, PrivateKeeps DEF Quiet
<1>4. CASE object[m] = NoObject
  <2> DEFINE r == [comp[c] EXCEPT !.pc = "stored"]
  <2>1. comp' = [comp EXCEPT ![c] = r]
    BY <1>4 DEF StoreCandidate, IInv, TypeOK
  <2>2. /\ r \in RunState /\ r.out = m /\ r.pc = "stored" /\ r.epoch = comp[c].epoch
        /\ r.rows = comp[c].rows
    BY <1>1 DEF RunState
  <2> HIDE DEF r
  <2>3. comp'[c] = r /\ \A d \in Compactor : d # c => comp'[d] = comp[d]
    BY <2>1 DEF IInv, TypeOK
  <2>4. /\ object'[m] = Body(MergedEvents(c))
        /\ \A t \in Segment : t # m => object'[t] = object[t]
    BY <1>1, <1>4 DEF StoreCandidate, IInv, TypeOK
  <2> HIDE DEF m
  <2>5. Grows /\ Counts
    BY <1>2 DEF Grows, Counts, Present, Active
  <2>6. Rows'
    <3>1. RawRows'
      BY <1>1, <1>2, <2>4 DEF IInv, Rows, RawRows, Present, Segment
    <3>2. RowScale' /\ Spans' /\ Disjoint' /\ Held'
      BY <1>2 DEF IInv, Rows, RowScale, Spans, Disjoint, Held, Present, Active
    <3>3. ActiveKept' /\ NothingLeaks'
      BY <1>1, <1>2, <2>4 DEF IInv, Rows, ActiveKept, NothingLeaks, Active, Present
    <3> QED
      BY <3>1, <3>2, <3>3 DEF Rows
  <2>7. FenceDue' /\ LeaseShort' /\ NoMissedSegment'
    BY <1>2, <2>4, <1>4 DEF IInv, Others, FenceDue, LeaseShort, NoMissedSegment, Active, Body
  <2>8. Run(c)'
    <3>1. MergedEvents(c)' = MergedEvents(c)
      BY <1>2, <2>2, <2>3 DEF MergedEvents
    <3>2. StoredBy(c)'
      BY <2>2, <2>3, <2>4, <3>1 DEF StoredBy, Body
    <3>3. SourcesOf(c)' /\ CandidateOf(c)' /\ BoundBy(c)' /\ SeenBy(c)'
      BY <1>1, <1>2, <2>2, <2>3
      DEF Run, SourcesOf, CandidateOf, BoundBy, SeenBy, AtWork, Present, SpanBounded, m
    <3> QED
      BY <3>2, <3>3 DEF Run
  <2>9. ASSUME NEW d \in Compactor, d # c PROVE Run(d)'
    <3>1. Run(d) /\ comp'[d] = comp[d] /\ now <= now'
      BY <1>2, <2>3, <2>9 DEF IInv, Others, Runs, TypeOK
    <3>2. comp[d].pc = "bound" => now' <= comp[d].at + Flight
      BY <1>2, <3>1 DEF Run, BoundBy
    <3>3. comp[d].pc \in {"tracked", "stored", "bound"} =>
            /\ ~Present(comp[d].out)' /\ gc'[comp[d].out] = gc[comp[d].out]
            /\ object'[comp[d].out] = object[comp[d].out]
      <4>1. comp[d].pc \in {"tracked", "stored", "bound"} =>
              comp[d].out \in Segment /\ comp[d].out # m
        BY <1>1, <2>9, <3>1
        DEF Run, CandidateOf, IInv, Others, OutsApart, TypeOK, RunState, Segment, m
      <4> QED
        BY <1>2, <2>4, <3>1, <4>1 DEF Run, CandidateOf, Present
    <3>4. job'.token = d => job.token = d /\ job'.until <= job.until
      BY <1>2 DEF IInv, TypeOK, JobRow
    <3> QED
      BY <2>5, <3>1, <3>2, <3>3, <3>4, RunFrame DEF IInv
  <2>10. OutsApart'
    BY <2>2, <2>3 DEF IInv, Others, OutsApart, m
  <2>11. Readers' /\ SnapshotReadable'
    BY <1>1, <1>2, <2>4, <2>5, IndexReaders
  <2> QED
    BY <2>6, <2>7, <2>8, <2>9, <2>10, <2>11 DEF IInv, Others, Runs
<1> QED
  BY <1>3, <1>4

\* A publication moves the events of its sources to the merged row, whose object
\* nobody has fenced: the lease ended after the bound clock, and the candidate is
\* due later than that.
LEMMA PublishKeeps ==
  ASSUME IInv, TypeOK', NEW c \in Compactor, Publish(c)
  PROVE  IInv'
<1> DEFINE m == comp[c].out
           R == comp[c].rows
           r == [comp[c] EXCEPT !.pc = "done"]
           M == MergedSegment(c)
<1>1. /\ comp[c] \in RunState /\ Run(c) /\ comp[c].pc = "bound" /\ comp[c].epoch <= job.epoch
      /\ m \in Segment /\ m \notin Raw /\ ~Present(m) /\ gc[m] # None /\ m # None
      /\ R # {} /\ R \subseteq Segment /\ m \notin R
  BY CompactionAssumption
  DEF IInv, TypeOK, Others, Runs, Run, SeenBy, SourcesOf, CandidateOf, Publish, RunState,
      Segment, AtWork
<1>2. UNCHANGED <<now, object, fencing, reader, looked>> /\ comp' = [comp EXCEPT ![c] = r]
  BY DEF Publish, IInv, TypeOK
<1>3. /\ r \in RunState /\ r.out = m /\ r.pc = "done" /\ r.epoch = comp[c].epoch
  BY <1>1 DEF RunState
<1> HIDE DEF r
<1>4. comp'[c] = r /\ \A d \in Compactor : d # c => comp'[d] = comp[d]
  BY <1>2 DEF IInv, TypeOK
<1>5. CASE ~(LeaseHeld(c) /\ SourcesActive(c))
  <2>1. Quiet /\ UNCHANGED job
    BY <1>2, <1>5 DEF Publish, Quiet
  <2>2. Run(c)'
    BY <1>1, <1>3, <1>4, <2>1, RestingRun
  <2> QED
    BY <1>2, <1>3, <2>1, <2>2, PrivateKeeps
<1>6. CASE LeaseHeld(c) /\ SourcesActive(c)
  \* The effect of the transaction, by row.
  <2>1. seg' = [s \in Segment |->
                 IF s = m THEN M
                 ELSE IF s \in R
                   THEN [seg[s] EXCEPT !.status = "inactive",
                                       !.cleanup = comp[c].at + Grace]
                 ELSE seg[s]]
    BY <1>6 DEF Publish
  <2>2. \A s \in R : /\ Active(s) /\ seg[s] \in SegmentRow /\ gc[s] = None
                     /\ seg'[s] = [seg[s] EXCEPT !.status = "inactive",
                                                 !.cleanup = comp[c].at + Grace]
    BY <1>1, <1>6, <2>1 DEF SourcesActive, IInv, TypeOK, Rows, ActiveKept
  <2>3. \A s \in R : /\ seg'[s].status = "inactive" /\ seg'[s].events = seg[s].events
                     /\ seg'[s].received = seg[s].received /\ seg'[s].last = seg[s].last
                     /\ seg'[s].level = seg[s].level
    BY <2>2 DEF SegmentRow
  <2>4. seg'[m] = M /\ \A s \in Segment : s # m /\ s \notin R => seg'[s] = seg[s]
    BY <1>1, <2>1
  <2>5. /\ M.status = "active" /\ M.events = MergedEvents(c) /\ M.level <= job.epoch + 1
        /\ M.last <= now /\ M.last \in Nat /\ M.received \in Nat
        /\ \A s \in R : seg[s].last <= M.last
        /\ \E s \in R : M.received = seg[s].received
    BY <1>1, MergedRow DEF IInv, Rows, Run, AtWork, SegmentRow
  <2> HIDE DEF M
  <2>6. /\ gc'[m] = None
        /\ \A s \in R : gc'[s] = comp[c].at + Grace
        /\ \A s \in Segment : s # m /\ s \notin R => gc'[s] = gc[s]
    <3>1. gc' = [s \in Segment |-> GcAfterPublish(c, s)]
      BY <1>6 DEF Publish
    <3> QED
      BY <1>1, <2>2, <3>1 DEF GcAfterPublish, Collect, SourceGc
  <2>7. /\ job.epoch \in Nat /\ job'.epoch = job.epoch + 1 /\ job'.dirty = TRUE
        /\ job'.token = job.token /\ job'.until = job.until
    <3>1. job' = [Dirtied EXCEPT !.retryAt = 0] /\ job \in JobRow
      BY <1>6 DEF Publish, IInv, TypeOK
    <3> QED
      BY <3>1 DEF Dirtied, JobRow
  <2>8. retired' = retired \union (R \intersect Raw)
    BY <1>6 DEF Publish
  <2>9. /\ now \in Nat /\ comp[c].at \in Nat /\ gc[m] \in Nat /\ job.until \in Nat
        /\ Flight \in Nat /\ Grace \in Nat /\ ReadLife \in Nat /\ Day \in Nat /\ Expiry \in Nat
        /\ ReadLife + Flight < Grace
        /\ \A s \in Segment : /\ seg[s].events \subseteq Raw /\ seg[s].last \in Nat
                              /\ seg[s].received \in Nat /\ seg[s].level \in Nat
    BY <1>1, CompactionAssumption DEF IInv, TypeOK, RunState, JobRow, SegmentRow
  \* The candidate is not due, so its object is still there.
  <2>10. now <= comp[c].at + Flight /\ now < gc[m]
    <3>1. /\ comp[c].at < job.until /\ job.until + Flight < gc[m]
          /\ now <= comp[c].at + Flight
      BY <1>1, <1>6 DEF LeaseHeld, Run, CandidateOf, BoundBy
    <3> QED
      BY <2>9, <3>1
  <2>11. m \notin fencing /\ object[m].kind # "fence" /\ object[m] = Body(MergedEvents(c))
    <3>1. m \notin fencing /\ object[m].kind # "fence"
      BY <1>1, <2>9, <2>10 DEF IInv, Others, FenceDue
    <3> QED
      BY <1>1, <3>1 DEF Run, StoredBy
  <2> HIDE DEF m, R
  <2>12. Grows /\ Counts
    BY <1>1, <2>3, <2>4, <2>7 DEF Grows, Counts, Present
  <2>13. RawRows'
    <3> SUFFICES ASSUME NEW s \in Raw
                 PROVE  /\ object'[s].kind # "absent" => Present(s)'
                        /\ Present(s)' => seg'[s].events = {s} /\ seg'[s].last = seg'[s].received
                        /\ ~Present(s)' => gc'[s] = None
                        /\ seg'[s].status \in {"inactive", "gone"} =>
                             s \in retired' \/ seg'[s].received + Expiry <= now'
      BY DEF RawRows
    <3>1. s \in Segment /\ s # m
      BY <1>1 DEF Segment
    <3>2. CASE s \in R
      BY <1>2, <2>2, <2>3, <2>8, <3>1, <3>2 DEF IInv, Rows, RawRows, Present, Active
    <3>3. CASE s \notin R
      BY <1>2, <2>4, <2>6, <2>8, <3>1, <3>3 DEF IInv, Rows, RawRows, Present
    <3> QED
      BY <3>2, <3>3
  <2>14. RowScale'
    <3> SUFFICES ASSUME NEW s \in Segment, Present(s)'
                 PROVE  seg'[s].last <= now /\ seg'[s].level <= job'.epoch
      BY <1>2 DEF RowScale
    <3>1. CASE s = m
      BY <2>4, <2>5, <2>7, <3>1
    <3>2. CASE s \in R
      <4>1. Present(s) /\ seg[s].last <= now /\ seg[s].level <= job.epoch
        BY <2>2, <3>2 DEF IInv, Rows, RowScale, Present, Active
      <4> QED
        BY <2>3, <2>7, <2>9, <3>2, <4>1
    <3>3. CASE s # m /\ s \notin R
      BY <2>4, <2>7, <2>9, <3>3 DEF IInv, Rows, RowScale, Present
    <3> QED
      BY <3>1, <3>2, <3>3
  <2>15. ASSUME NEW e \in Raw, Present(e)
         PROVE  Present(e)' /\ seg'[e].last = seg[e].last
    BY <1>1, <2>12, <2>15 DEF Grows, Segment
  <2>16. \A e \in MergedEvents(c) : e \in Raw /\ \E s \in R : e \in seg[s].events
    BY <1>1, <2>9 DEF MergedEvents, R
  <2>17. Spans'
    <3> SUFFICES ASSUME NEW t \in Segment, Present(t)', NEW e \in seg'[t].events
                 PROVE  /\ Present(e)' /\ seg'[e].last <= seg'[t].last
                        /\ seg'[e].last <= seg'[t].received + Day
      BY DEF Spans
    <3>1. CASE t = m
      <4>1. PICK s \in R : e \in seg[s].events
        BY <2>4, <2>5, <2>16, <3>1
      <4>2. /\ e \in Raw /\ s \in Segment /\ Present(e) /\ seg[e].last <= seg[s].last
        BY <1>1, <2>2, <2>9, <4>1 DEF IInv, Rows, Spans, Present, Active
      <4>3. PICK u \in R : M.received = seg[u].received
        BY <2>5
      <4>4. seg[s].last <= seg[u].received + Day
        BY <1>1, <4>1, <4>3 DEF Run, SourcesOf, SpanBounded, AtWork, R
      <4>5. seg[s].last <= M.last /\ seg[e].last \in Nat /\ seg[s].last \in Nat
        BY <2>5, <2>9, <4>2 DEF Segment
      <4> QED
        BY <2>4, <2>5, <2>9, <2>15, <3>1, <4>2, <4>3, <4>4, <4>5
    <3>2. CASE t # m
      <4>1. /\ Present(t) /\ e \in seg[t].events /\ seg'[t].last = seg[t].last
            /\ seg'[t].received = seg[t].received
        BY <2>2, <2>3, <2>4, <3>2 DEF Present, Active
      <4>2. /\ e \in Raw /\ Present(e) /\ seg[e].last <= seg[t].last
            /\ seg[e].last <= seg[t].received + Day
        BY <2>9, <4>1 DEF IInv, Rows, Spans
      <4> QED
        BY <2>15, <4>1, <4>2
    <3> QED
      BY <3>1, <3>2
  <2>18. \A t \in Segment : seg'[t].status = "active" /\ t # m =>
           t \notin R /\ Active(t) /\ seg'[t] = seg[t]
    BY <2>3, <2>4 DEF Active
  <2>19. \A t \in Segment : seg'[t].status = "active" /\ t # m =>
           seg[t].events \intersect MergedEvents(c) = {}
    <3> SUFFICES ASSUME NEW t \in Segment, seg'[t].status = "active", t # m,
                        NEW e \in seg[t].events, e \in MergedEvents(c)
                 PROVE  FALSE
      OBVIOUS
    <3>1. PICK s \in R : e \in seg[s].events
      BY <2>16
    <3> QED
      BY <1>1, <2>2, <2>18, <3>1 DEF IInv, Rows, Disjoint
  <2>20. Disjoint'
    <3> SUFFICES ASSUME NEW t \in Segment, NEW u \in Segment, seg'[t].status = "active",
                        seg'[u].status = "active", t # u
                 PROVE  seg'[t].events \intersect seg'[u].events = {}
      BY DEF Disjoint, Active
    <3>1. CASE t = m
      BY <2>4, <2>5, <2>18, <2>19, <3>1
    <3>2. CASE u = m
      BY <2>4, <2>5, <2>18, <2>19, <3>2
    <3>3. CASE t # m /\ u # m
      BY <2>18, <3>3 DEF IInv, Rows, Disjoint
    <3> QED
      BY <3>1, <3>2, <3>3
  <2>21. Held'
    <3> SUFFICES ASSUME NEW e \in Raw, Present(e)', now < seg'[e].last + Expiry - Day
                 PROVE  \E t \in Segment : seg'[t].status = "active" /\ e \in seg'[t].events
      BY <1>2 DEF Held, Active
    <3>1. Present(e) /\ seg'[e].last = seg[e].last
      BY <1>1, <2>2, <2>3, <2>4 DEF Present, Active, Segment
    <3>2. PICK t \in Segment : Active(t) /\ e \in seg[t].events
      BY <3>1 DEF IInv, Rows, Held
    <3>3. CASE t \in R
      <4>1. e \in MergedEvents(c)
        BY <3>2, <3>3 DEF MergedEvents, R
      <4> QED
        BY <1>1, <2>4, <2>5, <4>1
    <3>4. CASE t \notin R
      <4>1. t # m
        BY <1>1, <3>2 DEF Active, Present
      <4> QED
        BY <2>4, <3>2, <3>4, <4>1 DEF Active
    <3> QED
      BY <3>3, <3>4
  <2>22. ActiveKept' /\ NothingLeaks'
    <3>1. ActiveKept'
      <4> SUFFICES ASSUME NEW t \in Segment, seg'[t].status = "active"
                   PROVE  gc'[t] = None /\ object'[t] = [kind |-> "body", events |-> seg'[t].events]
        BY DEF ActiveKept, Active, Body
      <4>1. CASE t = m
        BY <1>2, <2>4, <2>5, <2>6, <2>11, <4>1 DEF Body
      <4>2. CASE t # m
        BY <1>2, <2>6, <2>18, <4>2 DEF IInv, Rows, ActiveKept, Body
      <4> QED
        BY <4>1, <4>2
    <3>2. NothingLeaks'
      <4> SUFFICES ASSUME NEW t \in Segment, object'[t].kind = "body"
                   PROVE  seg'[t].status \in {"active", "inactive"} \/ gc'[t] # None
        BY DEF NothingLeaks
      <4> QED
        BY <1>2, <2>3, <2>4, <2>5, <2>6 DEF IInv, Rows, NothingLeaks
    <3> QED
      BY <3>1, <3>2
  <2>23. Rows'
    BY <2>13, <2>14, <2>17, <2>20, <2>21, <2>22 DEF Rows
  <2>24. FenceDue' /\ LeaseShort' /\ NoMissedSegment'
    <3>1. FenceDue'
      BY <1>2, <2>2, <2>6, <2>11 DEF IInv, Others, FenceDue
    <3> QED
      BY <1>2, <2>7, <3>1 DEF IInv, Others, LeaseShort, NoMissedSegment
  <2>25. Run(c)'
    <3>1. comp'[c].epoch <= job'.epoch
      BY <1>1, <1>3, <1>4, <2>7 DEF IInv, TypeOK, RunState
    <3> QED
      BY <1>3, <1>4, <3>1, RestingRun
  <2>26. ASSUME NEW d \in Compactor, d # c PROVE Run(d)'
    <3>1. Run(d) /\ comp'[d] = comp[d] /\ now <= now'
      BY <1>2, <1>4, <2>9, <2>26 DEF IInv, Others, Runs
    <3>2. comp[d].pc = "bound" => now' <= comp[d].at + Flight
      BY <1>2, <3>1 DEF Run, BoundBy
    <3>3. ASSUME comp[d].pc \in {"tracked", "stored", "bound"}
          PROVE  /\ ~Present(comp[d].out)' /\ gc'[comp[d].out] = gc[comp[d].out]
                 /\ object'[comp[d].out] = object[comp[d].out]
      <4>1. comp[d].out \in Segment /\ comp[d].out # m /\ ~Present(comp[d].out)
        BY <1>1, <2>26, <3>1, <3>3
        DEF Run, CandidateOf, IInv, Others, OutsApart, TypeOK, RunState, Segment, m
      <4>2. comp[d].out \notin R
        BY <2>2, <4>1 DEF Active, Present
      <4>3. seg'[comp[d].out] = seg[comp[d].out] /\ gc'[comp[d].out] = gc[comp[d].out]
        BY <2>4, <2>6, <4>1, <4>2
      <4> QED
        BY <1>2, <3>1, <4>1, <4>3 DEF Present
    <3>4. job'.token = d => job.token = d /\ job'.until <= job.until
      BY <2>7, <2>9
    <3> QED
      BY <2>12, <3>1, <3>2, <3>3, <3>4, RunFrame DEF IInv
  <2>27. OutsApart'
    BY <1>3, <1>4 DEF IInv, Others, OutsApart, m
  <2>28. Readers' /\ SnapshotReadable'
    <3>1. \A s \in R : now + ReadLife < gc'[s]
      BY <2>6, <2>9, <2>10
    <3>2. \A s \in Segment : Present(s) => s # m
      BY <1>1
    <3> QED
      BY <1>2, <2>6, <2>12, <3>1, <3>2, IndexReaders
  <2> QED
    BY <2>23, <2>24, <2>25, <2>26, <2>27, <2>28 DEF IInv, Others, Runs
<1> QED
  BY <1>5, <1>6
-----------------------------------------------------------------------------
LEMMA StepIInv == IInv /\ [Next]_vars => IInv'
<1> SUFFICES ASSUME IInv, [Next]_vars PROVE IInv'
  OBVIOUS
<1>1. TypeOK'
  BY TypeStep
<1>2. CASE \E c \in Compactor : Compact(c)
  <2> PICK c \in Compactor : Compact(c)
    BY <1>2
  <2> QED
    BY <1>1, ClaimKeeps, SelectKeeps, CleanKeeps, ReadBindKeeps, TrackKeeps, StoreKeeps,
       PublishKeeps, EndKeeps
    DEF Compact
<1>3. CASE \E s \in Raw : Seal(s) \/ Reseal(s) \/ RetireRaw(s)
  BY <1>1, <1>3, SealKeeps, ResealKeeps, RetireRawKeeps
<1>4. CASE \E s \in Segment : Cleanup(s)
  BY <1>1, <1>4, CleanupKeeps, PickKeeps, FenceKeeps DEF Cleanup
<1>5. CASE \E d \in Reader : Snapshot(d) \/ ReadObject(d) \/ FinishRead(d)
  BY <1>1, <1>5, ReadKeeps DEF ReadStep
<1>6. CASE Tick
  BY <1>1, <1>6, ClockKeeps
<1>7. CASE UNCHANGED vars
  <2>1. Quiet /\ UNCHANGED <<now, job, comp, fencing, reader, looked>>
    BY <1>7 DEF vars, Quiet
  <2> QED
    BY <1>1, <2>1, QuietRuns, QuietReaders, QuietOthers
<1> QED
  BY <1>2, <1>3, <1>4, <1>5, <1>6, <1>7 DEF Next
-----------------------------------------------------------------------------
\* The invariant of the report index, its runs, its cleanup and its reports.
THEOREM CompactionInvariant == Spec => []IInv
<1> QED
  BY InitIInv, StepIInv, PTL DEF Spec

THEOREM TypeCorrect == Spec => []TypeOK
<1>1. IInv => TypeOK
  BY DEF IInv
<1> QED
  BY <1>1, CompactionInvariant, PTL

LEMMA InvIndexed == IInv => IndexedIntact
  BY DEF IInv, Rows, ActiveKept, IndexedIntact

\* No cleanup of a candidate overtakes its publication, whatever stalls: an
\* indexed segment has its object, with exactly its events.
THEOREM IndexedObjects == Spec => []IndexedIntact
<1> QED
  BY InvIndexed, CompactionInvariant, PTL

LEMMA InvLeaks == IInv => NothingLeaks
  BY DEF IInv, Rows

\* A run that dies between any two of its writes leaves no object that neither
\* the index nor the garbage table knows.
THEOREM NoObjectLeaks == Spec => []NothingLeaks
<1> QED
  BY InvLeaks, CompactionInvariant, PTL

LEMMA InvReads == IInv => SnapshotReadable
  BY DEF IInv, Others

\* A report that reads within its deadline finds every object of its snapshot.
THEOREM ReportsReadable == Spec => []SnapshotReadable
<1> QED
  BY InvReads, CompactionInvariant, PTL

LEMMA InvMissed == IInv => NoMissedSegment
  BY DEF IInv, Others

\* A job that is not dirty was cleaned by a run that had every active segment in
\* sight.
THEOREM CleanMeansSeen == Spec => []NoMissedSegment
<1> QED
  BY InvMissed, CompactionInvariant, PTL

LEMMA InvOnce == IInv => CountedOnce
<1> SUFFICES ASSUME IInv PROVE CountedOnce
  OBVIOUS
<1> SUFFICES ASSUME NEW e \in Accepted
             PROVE  LET holders == {s \in Segment : Active(s) /\ e \in seg[s].events} IN
                    /\ Cardinality(holders) <= 1
                    /\ now < seg[e].last + Expiry - Day => holders # {}
  BY DEF CountedOnce
<1> DEFINE holders == {s \in Segment : Active(s) /\ e \in seg[s].events}
<1>1. e \in Raw /\ Present(e)
  BY DEF Accepted, IInv, Rows, RawRows
<1>2. now < seg[e].last + Expiry - Day => holders # {}
  BY <1>1 DEF IInv, Rows, Held
<1>3. \A s, t \in holders : s = t
  BY DEF IInv, Rows, Disjoint
<1> HIDE DEF holders
<1>4. Cardinality(holders) <= 1
  <2>1. CASE holders = {}
    BY <2>1, FS_EmptySet
  <2>2. CASE holders # {}
    <3>1. PICK s \in holders : TRUE
      BY <2>2
    <3>2. holders = {s}
      BY <1>3, <3>1
    <3>3. Cardinality({s}) = 1
      BY FS_Singleton
    <3> QED
      BY <3>2, <3>3
  <2> QED
    BY <2>1, <2>2
<1> QED
  BY <1>2, <1>4 DEF holders

\* An accepted event is in one active segment, and in none only after its time.
THEOREM EventsCountedOnce == Spec => []CountedOnce
<1> QED
  BY InvOnce, CompactionInvariant, PTL
=============================================================================
