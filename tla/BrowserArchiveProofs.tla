------------------------- MODULE BrowserArchiveProofs -------------------------
(***************************************************************************)
(* Theorems about BrowserArchive: its inductive invariant, that no batch   *)
(* is in two objects, and that every step of the shard is a step of        *)
(* BrowserHistory or leaves its variables alone.                           *)
(***************************************************************************)
EXTENDS BrowserArchive, FiniteSetTheorems, TLAPS

Row(b) == [id |-> b, facts |-> ledger[b].facts]
Indexed(m) == \E s \in DOMAIN index : m \in index[s]

\* Segment ids are consecutive, and the open one is the next.
Numbered == \E n \in 0..Segments : /\ DOMAIN index = 1..n
                                   /\ segment \in {None, n + 1}

\* A sealed row is of the open segment, and a pending row keeps its ledger row.
Undone == \A b \in Batch :
  /\ pending[b] \in Segment => pending[b] = segment
  /\ pending[b] # None => ledger[b] # Absent /\ ~ledger[b].dated

Recorded == \A b \in Batch : ledger[b] # Absent => ledger[b].facts \in Facts

\* Only the open segment's object is stored ahead of its index entry.
Stored ==
  /\ DOMAIN index \subseteq DOMAIN objects
  /\ DOMAIN objects \subseteq DOMAIN index \union {segment}
  /\ \A s \in DOMAIN index : objects[s] = index[s]
  /\ segment \in DOMAIN objects => objects[segment] = Body

Uploading ==
  /\ handler \in {"put", "verify", "complete"} => segment # None
  /\ handler = "complete" => segment \in DOMAIN objects

\* What is archived is not pending, and is either still in the ledger with the
\* same facts or can no longer be delivered.
Archives == \A s \in DOMAIN index : \A m \in index[s] :
  /\ pending[m.id] = None
  /\ ledger[m.id] = Absent \/ ledger[m.id] = [facts |-> m.facts, dated |-> TRUE]
  /\ ledger[m.id] = Absent => \A q \in queue : q.id # m.id

ArchivedOnce == \A s, t \in DOMAIN index : \A m \in index[s], n \in index[t] :
  m.id = n.id => s = t /\ m = n

\* A row that may expire is archived.
DatedArchived == \A b \in Batch : ledger[b].dated => Indexed(Row(b))

Projectable == outbox \subseteq Seen

IInv == /\ TypeOK /\ Numbered /\ Undone /\ Recorded /\ Stored /\ Uploading
        /\ Archives /\ ArchivedOnce /\ DatedArchived /\ Projectable
-----------------------------------------------------------------------------
LEMMA Apart == /\ Segment \subseteq Nat /\ None \notin Segment /\ None # Free
               /\ Free \notin Segment
  BY BoundsAssumption, SentAssumption DEF Segment, Free

LEMMA InitIInv == Init => IInv
<1> SUFFICES ASSUME Init PROVE IInv
  OBVIOUS
<1> USE DEF Init
<1>1. TypeOK
  <2>1. Idle \in Delivery /\ Absent \in LedgerRow
    BY DEF Idle, Absent, Delivery, LedgerRow
  <2>2. DOMAIN index = {} /\ DOMAIN objects = {}
    OBVIOUS
  <2>3. crashes \in 0..Crashes
    BY BoundsAssumption
  <2>4. ledger \in [Batch -> LedgerRow] /\ consumer \in [Consumer -> Delivery]
    BY <2>1
  <2> QED
    BY <2>2, <2>3, <2>4 DEF TypeOK
<1>2. Numbered
  <2>1. 0 \in 0..Segments /\ DOMAIN index = 1..0 /\ segment = None
    BY BoundsAssumption
  <2> QED
    BY <2>1 DEF Numbered
<1>3. Undone /\ Recorded /\ DatedArchived /\ Projectable
  BY Apart DEF Undone, Recorded, DatedArchived, Projectable, Absent
<1>4. Stored /\ Uploading /\ Archives /\ ArchivedOnce
  BY DEF Stored, Uploading, Archives, ArchivedOnce
<1> QED
  BY <1>1, <1>2, <1>3, <1>4 DEF IInv
-----------------------------------------------------------------------------
LEMMA BodyKept ==
  ASSUME segment' = segment,
         \A b \in Batch : pending'[b] = segment <=> pending[b] = segment,
         \A b \in Batch : pending[b] = segment => ledger'[b].facts = ledger[b].facts
  PROVE  Body' = Body
<1>1. Body = {Row(b) : b \in {e \in Batch : pending[e] = segment}}
  BY DEF Body, Rows, Row
<1>2. Body' = {[id |-> b, facts |-> ledger'[b].facts] :
                 b \in {e \in Batch : pending'[e] = segment'}}
  BY DEF Body, Rows
<1> QED
  BY <1>1, <1>2 DEF Row

\* The steps that touch neither the tables nor the objects.
Quiet == /\ UNCHANGED <<ledger, pending, outbox, segment, index, objects>>
         /\ queue' \subseteq queue

LEMMA QuietKeeps ==
  IInv /\ Quiet /\ TypeOK' /\ Uploading' => IInv'
<1> SUFFICES ASSUME IInv, Quiet, TypeOK', Uploading' PROVE IInv'
  OBVIOUS
<1> USE DEF IInv, Quiet
<1>1. Numbered' /\ Undone' /\ Recorded'
  BY DEF Numbered, Undone, Recorded
<1>2. Stored'
  <2>1. Body' = Body
    BY BodyKept
  <2> QED
    BY <2>1 DEF Stored
<1>3. Archives' /\ ArchivedOnce'
  BY DEF Archives, ArchivedOnce
<1>4. DatedArchived' /\ Projectable'
  BY DEF DatedArchived, Projectable, Indexed, Row, Seen
<1> QED
  BY <1>1, <1>2, <1>3, <1>4

LEMMA QuietUpload ==
  /\ IInv
  /\ UNCHANGED <<segment, objects>>
  /\ \/ handler' \in {"idle", "seal", "schedule", handler}
     \/ handler' = "complete" /\ segment \in DOMAIN objects /\ segment # None
     \/ handler' = "verify" /\ segment # None
  => Uploading'
  BY DEF IInv, Uploading
-----------------------------------------------------------------------------
LEMMA RetryShrinks == \A group : Retry(group) => queue' \subseteq queue
  BY DEF Retry

\* The consumer's own steps, but for the transaction of Stage.
LEMMA ConsumerKeeps ==
  ASSUME IInv, NEW c \in Consumer, Scheduled(c) \/ RecordReceipts(c)
  PROVE  IInv'
<1>1. Quiet
  BY RetryShrinks DEF Quiet, Scheduled, RecordReceipts, tables
<1>2. TypeOK'
  <2>1. CASE Scheduled(c)
    <3>1. alarm' \in BOOLEAN
      BY <2>1 DEF Scheduled, Schedule
    <3>2. consumer' \in [Consumer -> Delivery]
      BY <2>1 DEF IInv, TypeOK, Scheduled, Goto, Delivery
    <3> QED
      BY <2>1, <3>1, <3>2 DEF IInv, TypeOK, Scheduled, tables
  <2>2. CASE RecordReceipts(c)
    <3>1. consumer[c].group \subseteq Message
      BY DEF IInv, TypeOK, Delivery
    <3>2. receipts' \subseteq Batch
      BY <2>2, <3>1 DEF IInv, TypeOK, RecordReceipts, Message
    <3>3. Idle \in Delivery
      BY DEF Idle, Delivery
    <3> QED
      BY <1>1, <2>2, <3>2, <3>3 DEF IInv, TypeOK, RecordReceipts, End, tables, Quiet
  <2> QED
    BY <2>1, <2>2
<1>3. Uploading'
  <2>1. UNCHANGED <<segment, objects, handler>>
    BY DEF Scheduled, RecordReceipts, tables
  <2> QED
    BY <2>1, QuietUpload
<1> QED
  BY <1>1, <1>2, <1>3, QuietKeeps
-----------------------------------------------------------------------------
\* Steps of the alarm handler that move no row, and the crash.
LEMMA HandlerKeeps ==
  ASSUME IInv, Answered \/ UploadFails \/ EndAlarm \/ RetryAfter \/ Crash
  PROVE  IInv'
<1>1. Quiet
  BY RetryShrinks
  DEF Quiet, Answered, UploadFails, EndAlarm, RetryAfter, Crash, tables, queueVars
<1>2. TypeOK'
  <2>1. alarm' \in BOOLEAN /\ held_off' \in BOOLEAN /\ handler' \in
          {"idle", "seal", "put", "verify", "complete", "schedule"}
    <3>1. CASE Answered \/ RetryAfter
      BY <3>1 DEF IInv, TypeOK, Answered, RetryAfter, Continue, tables
    <3>2. CASE UploadFails
      BY <3>2 DEF IInv, TypeOK, UploadFails, Continue, tables
    <3>3. CASE EndAlarm
      BY <3>3 DEF IInv, TypeOK, EndAlarm, Continue, tables, Schedule
    <3>4. CASE Crash
      BY <3>4 DEF IInv, TypeOK, Crash, Continue, tables
    <3> QED
      BY <3>1, <3>2, <3>3, <3>4
  <2>2. consumer' \in [Consumer -> Delivery] /\ receipts' = receipts
        /\ crashes' \in 0..Crashes
    <3>1. CASE Crash
      <4>1. Idle \in Delivery
        BY DEF Idle, Delivery
      <4>2. crashes' \in 0..Crashes
        BY <3>1, BoundsAssumption DEF IInv, TypeOK, Crash
      <4>3. consumer' \in [Consumer -> Delivery]
        BY <3>1, <4>1 DEF IInv, TypeOK, Crash
      <4> QED
        BY <3>1, <4>2, <4>3 DEF Crash
    <3>2. CASE ~Crash
      BY <3>2
      DEF IInv, TypeOK, Answered, UploadFails, EndAlarm, RetryAfter, queueVars
    <3> QED
      BY <3>1, <3>2
  <2> QED
    BY <1>1, <2>1, <2>2 DEF IInv, TypeOK, Quiet
<1>3. Uploading'
  <2>1. CASE Answered
    BY <1>1, <2>1, QuietUpload DEF IInv, Uploading, Answered, Continue, Quiet
  <2>2. CASE ~Answered
    <3>1. handler' \in {"idle", handler}
      BY <2>2 DEF UploadFails, EndAlarm, RetryAfter, Crash, Continue
    <3> QED
      BY <1>1, <3>1, QuietUpload DEF Quiet
  <2> QED
    BY <2>1, <2>2
<1> QED
  BY <1>1, <1>2, <1>3, QuietKeeps
-----------------------------------------------------------------------------
\* What pruning may drop: archived rows whose projection is over and that the
\* queue cannot deliver again.
LEMMA Prunes ==
  ASSUME IInv, NEW P \in SUBSET Expired
  PROVE  /\ Prune(P) \in [Batch -> LedgerRow]
         /\ \A b \in Batch :
              \/ Prune(P)[b] = ledger[b]
              \/ /\ Prune(P)[b] = Absent
                 /\ pending[b] = None /\ b \notin outbox
                 /\ ledger[b] # Absent /\ ledger[b].dated
                 /\ \A q \in queue : q.id # b
<1>1. Absent \in LedgerRow
  BY DEF Absent, LedgerRow
<1>2. Prune(P) \in [Batch -> LedgerRow]
  BY <1>1 DEF Prune, IInv, TypeOK
<1>3. ASSUME NEW b \in Batch, Prune(P)[b] # ledger[b]
      PROVE  /\ Prune(P)[b] = Absent
             /\ pending[b] = None /\ b \notin outbox
             /\ ledger[b] # Absent /\ ledger[b].dated
             /\ \A q \in queue : q.id # b
  <2>1. b \in P /\ Prune(P)[b] = Absent
    BY <1>3 DEF Prune
  <2>2. b \in Seen /\ ledger[b].dated /\ b \notin outbox /\ \A q \in queue : q.id # b
    BY <2>1 DEF Expired
  <2>3. pending[b] = None
    BY <2>2 DEF IInv, Undone
  <2> QED
    BY <2>1, <2>2, <2>3 DEF Seen
<1> QED
  BY <1>2, <1>3

LEMMA AlarmKeeps ==
  ASSUME IInv, NEW projected \in SUBSET outbox, Alarm(projected)
  PROVE  IInv'
<1> USE DEF IInv
<1>1. PICK P \in SUBSET Expired : ledger' = Prune(P)
  BY DEF Alarm
<1>2. /\ UNCHANGED <<queue, consumer, receipts, pending, segment, index, held_off>>
      /\ UNCHANGED <<objects, crashes>>
      /\ outbox' = outbox \ projected /\ alarm' = FALSE
      /\ handler' \in {"schedule", "seal"}
  BY DEF Alarm, Continue, queueVars
<1>3. /\ ledger' \in [Batch -> LedgerRow]
      /\ \A b \in Batch :
           \/ ledger'[b] = ledger[b]
           \/ /\ ledger'[b] = Absent
              /\ pending[b] = None /\ b \notin outbox
              /\ \A q \in queue : q.id # b
  BY <1>1, Prunes
<1>4. TypeOK'
  BY <1>2, <1>3 DEF TypeOK
<1>5. Absent.facts = None /\ ~Absent.dated
  BY DEF Absent
<1>6. Undone' /\ Recorded' /\ Projectable' /\ Numbered'
  BY <1>2, <1>3 DEF Undone, Recorded, Projectable, Numbered, Seen
<1>7. Stored'
  <2>1. ASSUME segment \in DOMAIN objects PROVE Body' = Body
    <3>1. segment # None
      BY <2>1, Apart DEF TypeOK
    <3> QED
      BY <1>2, <1>3, <3>1, BodyKept
  <2> QED
    BY <1>2, <2>1 DEF Stored
<1>8. Uploading'
  BY <1>2, QuietUpload
<1>9. Archives' /\ ArchivedOnce'
  <2>1. \A s \in DOMAIN index : \A m \in index[s] : m.id \in Batch
    BY DEF TypeOK, Message
  <2> QED
    BY <1>2, <1>3, <2>1 DEF Archives, ArchivedOnce
<1>10. DatedArchived'
  BY <1>2, <1>3, <1>5 DEF DatedArchived, Indexed, Row
<1> QED
  BY <1>4, <1>6, <1>7, <1>8, <1>9, <1>10
-----------------------------------------------------------------------------
\* The ledger row of a batch is left alone, or pruned because it may be.
KeptOrPruned(b) ==
  \/ ledger'[b] = ledger[b]
  \/ /\ ledger'[b] = Absent
     /\ ledger[b].dated /\ pending[b] = None /\ b \notin outbox
     /\ \A q \in queue : q.id # b

\* The transaction of the consumer: pruning, then rows for the batches of S,
\* which are new.
Staging(S) ==
  /\ UNCHANGED <<queue, receipts, segment, index, held_off, alarm, handler>>
  /\ UNCHANGED <<objects, crashes>>
  /\ outbox' = outbox \union S
  /\ \A b \in S : /\ pending'[b] = Free /\ pending[b] = None
                  /\ ledger'[b].facts \in Facts /\ ~ledger'[b].dated
                  /\ ledger'[b] # Absent /\ ledger[b] = Absent
                  /\ \A s \in DOMAIN index : \A m \in index[s] : m.id # b
  /\ \A b \in Batch \ S : pending'[b] = pending[b] /\ KeptOrPruned(b)
  /\ TypeOK'

LEMMA StageEffect ==
  ASSUME IInv, NEW c \in Consumer, NEW group \in SUBSET queue, Stage(c, group)
  PROVE  \/ Quiet /\ UNCHANGED <<receipts, alarm, handler, crashes, consumer, held_off>>
         \/ \E S \in SUBSET Batch : Staging(S)
<1> USE DEF IInv
<1> DEFINE ids == {m.id : m \in Fresh(group)}
<1>1. CASE Retry(group) /\ UNCHANGED <<consumer, tables>>
  BY <1>1, RetryShrinks DEF Stage, Quiet, tables
<1>2. CASE ~(Retry(group) /\ UNCHANGED <<consumer, tables>>)
  <2>1. /\ UNCHANGED <<queue, receipts, segment, index, held_off, alarm, handler>>
        /\ UNCHANGED <<objects, crashes>>
        /\ consumer' = [consumer EXCEPT ![c] = [pc |-> "schedule", group |-> group]]
        /\ outbox' = outbox \union ids
        /\ pending' = [b \in Batch |-> IF b \in ids THEN Free ELSE pending[b]]
    BY <1>2 DEF Stage
  <2>2. PICK P \in SUBSET Expired :
          ledger' = [b \in Batch |->
            IF b \in ids
            THEN [facts |-> (CHOOSE m \in Fresh(group) : m.id = b).facts,
                  dated |-> FALSE]
            ELSE Prune(P)[b]]
    BY <1>2 DEF Stage
  <2>3. group \subseteq Message
    BY SentAssumption DEF TypeOK
  <2>4. ids \subseteq Batch
    BY <2>3 DEF Fresh, Message
  <2>5. Absent.facts = None /\ None \notin Facts
    BY SentAssumption DEF Absent
  <2>6. ASSUME NEW b \in ids
        PROVE  /\ pending'[b] = Free /\ pending[b] = None
               /\ ledger'[b] \in LedgerRow /\ ledger'[b] # Absent
               /\ ledger'[b].facts \in Facts /\ ~ledger'[b].dated
               /\ ledger[b] = Absent
               /\ \E q \in queue : q.id = b
    <3>1. \E m \in Fresh(group) : m.id = b
      OBVIOUS
    <3> DEFINE m == CHOOSE n \in Fresh(group) : n.id = b
    <3>2. m \in Fresh(group) /\ m.id = b
      BY <3>1
    <3> HIDE DEF m
    <3>3. m \in queue /\ m.facts \in Facts /\ ledger[b] = Absent
      BY <2>3, <3>2 DEF Fresh, Message
    <3>4. ledger'[b] = [facts |-> m.facts, dated |-> FALSE]
      BY <2>2, <2>4 DEF m
    <3>5. ledger'[b] \in LedgerRow /\ ledger'[b].facts \in Facts /\ ~ledger'[b].dated
      BY <3>3, <3>4 DEF LedgerRow
    <3>6. pending[b] = None
      BY <2>4, <3>3 DEF Undone
    <3> QED
      BY <2>1, <2>4, <2>5, <3>2, <3>3, <3>5, <3>6
  <2>7. ASSUME NEW b \in Batch \ ids
        PROVE  pending'[b] = pending[b] /\ ledger'[b] \in LedgerRow /\ KeptOrPruned(b)
    <3>1. ledger'[b] = Prune(P)[b]
      BY <2>2
    <3> QED
      BY <2>1, <3>1, Prunes DEF KeptOrPruned
  <2>8. ledger' \in [Batch -> LedgerRow] /\ pending' \in [Batch -> Segment \union {None, Free}]
    <3>1. DOMAIN ledger' = Batch /\ ledger' = [b \in Batch |-> ledger'[b]]
      BY <2>2
    <3>2. \A b \in Batch : ledger'[b] \in LedgerRow
      BY <2>6, <2>7
    <3>3. ledger' \in [Batch -> LedgerRow]
      BY <3>1, <3>2
    <3>4. pending' \in [Batch -> Segment \union {None, Free}]
      BY <2>1 DEF TypeOK
    <3> QED
      BY <3>3, <3>4
  <2>9. consumer' \in [Consumer -> Delivery]
    <3>1. [pc |-> "schedule", group |-> group] \in Delivery
      BY <2>3 DEF Delivery
    <3> QED
      BY <2>1, <3>1 DEF TypeOK
  <2> HIDE DEF ids
  <2>10. TypeOK'
    BY <2>1, <2>4, <2>8, <2>9 DEF TypeOK
  <2>11. ASSUME NEW s \in DOMAIN index, NEW m \in index[s] PROVE m.id \notin ids
    <3>1. ledger[m.id] = Absent => \A q \in queue : q.id # m.id
      BY DEF Archives
    <3> QED
      BY <2>6, <3>1
  <2> QED
    BY <2>1, <2>4, <2>6, <2>7, <2>10, <2>11 DEF Staging
<1> QED
  BY <1>1, <1>2

LEMMA StagingKeeps ==
  ASSUME IInv, NEW S \in SUBSET Batch, Staging(S)
  PROVE  IInv'
<1> USE DEF IInv
<1>1. /\ UNCHANGED <<queue, segment, index, handler, objects>>
      /\ outbox' = outbox \union S /\ TypeOK'
  BY DEF Staging
<1>2. ASSUME NEW b \in S
      PROVE  /\ pending'[b] = Free /\ pending[b] = None
             /\ ledger'[b].facts \in Facts /\ ~ledger'[b].dated
             /\ ledger'[b] # Absent
             /\ \A s \in DOMAIN index : \A m \in index[s] : m.id # b
  BY DEF Staging
<1>3. ASSUME NEW b \in Batch \ S
      PROVE  /\ pending'[b] = pending[b]
             /\ \/ ledger'[b] = ledger[b]
                \/ /\ ledger'[b] = Absent
                   /\ pending[b] = None /\ b \notin outbox
                   /\ \A q \in queue : q.id # b
  BY DEF Staging, KeptOrPruned
<1>4. ~Absent.dated
  BY DEF Absent
<1>5. Undone'
  <2>1. ASSUME NEW b \in S PROVE ledger'[b] # Absent /\ pending'[b] \notin Segment
    BY <1>2, Apart
  <2> QED
    BY <1>1, <1>2, <1>3, <2>1 DEF Undone
<1>6. Recorded' /\ Numbered'
  BY <1>1, <1>2, <1>3 DEF Recorded, Numbered
<1>7. Projectable'
  BY <1>1, <1>2, <1>3 DEF Projectable, Seen
<1>8. Stored'
  <2>1. ASSUME segment \in DOMAIN objects PROVE Body' = Body
    <3>1. segment # None /\ segment # Free
      BY <2>1, Apart DEF TypeOK
    <3> QED
      BY <1>1, <1>2, <1>3, <3>1, BodyKept
  <2> QED
    BY <1>1, <2>1 DEF Stored
<1>9. Uploading'
  BY <1>1, QuietUpload
<1>10. Archives' /\ ArchivedOnce'
  <2>1. \A s \in DOMAIN index : \A m \in index[s] : m.id \in Batch \ S
    BY <1>2 DEF TypeOK, Message
  <2> QED
    BY <1>1, <1>3, <2>1 DEF Archives, ArchivedOnce
<1>11. DatedArchived'
  <2>1. ASSUME NEW b \in Batch, ledger'[b].dated
        PROVE  ledger'[b] = ledger[b]
    BY <1>2, <1>3, <1>4, <2>1
  <2> QED
    BY <1>1, <2>1 DEF DatedArchived, Indexed, Row
<1> QED
  BY <1>1, <1>5, <1>6, <1>7, <1>8, <1>9, <1>10, <1>11

LEMMA StageKeeps ==
  ASSUME IInv, NEW c \in Consumer, NEW group \in SUBSET queue, Stage(c, group)
  PROVE  IInv'
<1>1. CASE Quiet /\ UNCHANGED <<receipts, alarm, handler, crashes, consumer, held_off>>
  <2>1. TypeOK' /\ Uploading'
    BY <1>1, QuietUpload DEF Quiet, TypeOK, IInv
  <2> QED
    BY <1>1, <2>1, QuietKeeps
<1> QED
  BY <1>1, StageEffect, StagingKeeps
-----------------------------------------------------------------------------
\* A new segment takes the next id and pending rows, none of them sealed.
LEMMA SealKeeps == IInv /\ Seal => IInv'
<1> SUFFICES ASSUME IInv, Seal PROVE IInv'
  OBVIOUS
<1> USE DEF IInv
<1>1. /\ UNCHANGED <<queue, consumer, receipts, ledger, outbox, index, held_off>>
      /\ UNCHANGED <<alarm, objects, crashes>>
      /\ handler' = "put"
  BY DEF Seal, Continue, queueVars
<1>2. CASE segment # None
  <2>1. UNCHANGED <<segment, pending>>
    BY <1>2 DEF Seal
  <2>2. Uploading'
    BY <1>1, <1>2, <2>1 DEF Uploading
  <2> QED
    BY <1>1, <2>1, <2>2, QuietKeeps DEF Quiet, TypeOK
<1>3. CASE segment = None
  <2> DEFINE s == Cardinality(DOMAIN index) + 1
  <2>1. PICK S \in SUBSET Pending :
          /\ s \in Segment /\ segment' = s
          /\ pending' = [b \in Batch |-> IF b \in S THEN s ELSE pending[b]]
    BY <1>3 DEF Seal
  <2>2. PICK n \in 0..Segments : DOMAIN index = 1..n
    BY DEF Numbered
  <2>3. s = n + 1 /\ s \in Nat
    <3>1. Cardinality(1..n) = n
      BY <2>2, FS_Interval
    <3> QED
      BY <2>2, <3>1
  <2> HIDE DEF s
  <2>4. s \notin DOMAIN index /\ s # None
    BY <2>1, <2>2, <2>3, Apart
  <2>5. s \notin DOMAIN objects
    BY <1>3, <2>1, <2>4, Apart DEF Stored, TypeOK
  <2>6. \A b \in Batch : pending[b] \notin Segment
    BY <1>3, Apart DEF Undone
  <2>7. S \subseteq Batch /\ \A b \in S : pending[b] # None
    BY DEF Pending
  <2>8. TypeOK'
    <3>1. pending' \in [Batch -> Segment \union {None, Free}]
      BY <2>1, <2>7 DEF TypeOK
    <3> QED
      BY <1>1, <2>1, <3>1 DEF TypeOK
  <2>9. Numbered'
    BY <1>1, <2>1, <2>2, <2>3 DEF Numbered
  <2>10. \A b \in Batch :
           pending'[b] = pending[b] \/ (pending'[b] = segment' /\ pending[b] # None)
    BY <2>1, <2>7
  <2>11. Undone' /\ Recorded' /\ Projectable' /\ DatedArchived'
    BY <1>1, <2>6, <2>10
    DEF Undone, Recorded, Projectable, DatedArchived, Seen, Indexed, Row
  <2>12. Stored' /\ Uploading'
    BY <1>1, <1>3, <2>1, <2>4, <2>5, Apart DEF Stored, Uploading, TypeOK
  <2>13. Archives' /\ ArchivedOnce'
    <3>1. \A t \in DOMAIN index : \A m \in index[t] : m.id \in Batch
      BY DEF TypeOK, Message
    <3> QED
      BY <1>1, <2>10, <3>1 DEF Archives, ArchivedOnce
  <2> QED
    BY <2>8, <2>9, <2>11, <2>12, <2>13
<1> QED
  BY <1>2, <1>3

LEMMA BodyRows ==
  ASSUME IInv, segment # None
  PROVE  /\ Body \subseteq Message
         /\ \A m \in Body : /\ pending[m.id] = segment
                            /\ ledger[m.id].facts = m.facts
<1>1. Body = {Row(b) : b \in {e \in Batch : pending[e] = segment}}
  BY DEF Body, Rows, Row
<1>2. ASSUME NEW b \in Batch, pending[b] = segment
      PROVE  Row(b) \in Message /\ Row(b).id = b /\ Row(b).facts = ledger[b].facts
  BY <1>2 DEF IInv, Undone, Recorded, Row, Message
<1> QED
  BY <1>1, <1>2

LEMMA PutKeeps == IInv /\ Put => IInv'
<1> SUFFICES ASSUME IInv, Put PROVE IInv'
  OBVIOUS
<1> USE DEF IInv
<1>1. /\ UNCHANGED <<queue, consumer, receipts, ledger, pending, outbox, segment>>
      /\ UNCHANGED <<index, held_off, alarm, crashes>>
      /\ handler' = "verify" /\ handler = "put"
      /\ objects' \in {objects, Created}
  BY DEF Put, Continue, queueVars, tables
<1>2. segment # None /\ segment \in Segment
  BY <1>1 DEF Uploading, TypeOK
<1>3. /\ DOMAIN objects \subseteq DOMAIN objects'
      /\ DOMAIN objects' \subseteq DOMAIN objects \union {segment}
      /\ \A s \in DOMAIN objects : objects'[s] = objects[s]
      /\ segment \in DOMAIN objects' => objects'[segment] = Body
  BY <1>1 DEF Created, Stored
<1>4. TypeOK'
  <2>1. \A s \in DOMAIN objects' : objects'[s] \subseteq Message
    BY <1>2, <1>3, BodyRows DEF TypeOK
  <2> QED
    BY <1>1, <1>2, <1>3, <2>1 DEF TypeOK
<1>5. Stored'
  <2>1. Body' = Body
    BY <1>1, BodyKept
  <2>2. /\ DOMAIN index \subseteq DOMAIN objects'
        /\ DOMAIN objects' \subseteq DOMAIN index \union {segment}
        /\ \A s \in DOMAIN index : objects'[s] = index[s]
    BY <1>3 DEF Stored
  <2> QED
    BY <1>1, <1>3, <2>1, <2>2 DEF Stored
<1>6. Uploading'
  BY <1>1, <1>2 DEF Uploading
<1>7. Numbered' /\ Undone' /\ Recorded' /\ Archives' /\ ArchivedOnce'
  BY <1>1 DEF Numbered, Undone, Recorded, Archives, ArchivedOnce
<1>8. DatedArchived' /\ Projectable'
  BY <1>1 DEF DatedArchived, Projectable, Indexed, Row, Seen
<1> QED
  BY <1>4, <1>5, <1>6, <1>7, <1>8

\* The open segment is indexed with the rows its object holds.
LEMMA CompleteKeeps == IInv /\ Complete => IInv'
<1> SUFFICES ASSUME IInv, Complete PROVE IInv'
  OBVIOUS
<1> USE DEF IInv
<1> DEFINE done == {b \in Batch : pending[b] = segment}
<1>1. /\ UNCHANGED <<queue, consumer, receipts, outbox, alarm, objects, crashes>>
      /\ handler = "complete" /\ handler' = "schedule"
      /\ segment' = None /\ held_off' = FALSE
      /\ index' = [s \in DOMAIN index \union {segment} |->
                     IF s = segment THEN Body ELSE index[s]]
      /\ ledger' = [b \in Batch |->
           IF b \in done THEN [ledger[b] EXCEPT !.dated = TRUE] ELSE ledger[b]]
      /\ pending' = [b \in Batch |-> IF b \in done THEN None ELSE pending[b]]
  BY DEF Complete, Continue, queueVars, Body
<1>2. segment # None /\ segment \in Segment /\ segment \in DOMAIN objects
  BY <1>1 DEF Uploading, TypeOK
<1>3. PICK n \in 0..Segments : DOMAIN index = 1..n /\ segment = n + 1
  BY <1>2 DEF Numbered
<1>4. segment \notin DOMAIN index /\ n \in Nat /\ segment \in 1..Segments
  BY <1>2, <1>3 DEF Segment
<1>5. /\ DOMAIN index' = DOMAIN index \union {segment}
      /\ index'[segment] = Body
      /\ \A s \in DOMAIN index : index'[s] = index[s]
  BY <1>1, <1>4
<1>6. ASSUME NEW b \in done
      PROVE  /\ pending'[b] = None /\ b \in Batch /\ ledger[b] \in LedgerRow
             /\ ledger'[b] = [facts |-> ledger[b].facts, dated |-> TRUE]
             /\ ledger[b] # Absent /\ ledger[b].facts \in Facts
             /\ ledger'[b] \in LedgerRow /\ ledger'[b] # Absent
             /\ ledger'[b].facts = ledger[b].facts
             /\ Row(b) \in Body /\ Row(b) = [id |-> b, facts |-> ledger[b].facts]
  <2>1. ledger[b] \in LedgerRow
    BY DEF TypeOK
  <2>2. ledger'[b] = [facts |-> ledger[b].facts, dated |-> TRUE]
    BY <1>1, <2>1 DEF LedgerRow
  <2>3. ledger[b] # Absent /\ ledger[b].facts \in Facts
    BY <1>2 DEF Undone, Recorded
  <2>4. Row(b) \in Body /\ Row(b) = [id |-> b, facts |-> ledger[b].facts]
    BY DEF Body, Rows, Row
  <2>5. ledger'[b] \in LedgerRow /\ ledger'[b] # Absent
        /\ ledger'[b].facts = ledger[b].facts
    BY <2>1, <2>2, <2>3 DEF LedgerRow, Absent
  <2> QED
    BY <1>1, <2>1, <2>2, <2>3, <2>4, <2>5
<1>7. ASSUME NEW b \in Batch \ done
      PROVE  pending'[b] = pending[b] /\ ledger'[b] = ledger[b]
  BY <1>1
<1>8. \A m \in Body : m \in Message /\ m.id \in done /\ ledger[m.id].facts = m.facts
  BY <1>2, BodyRows DEF Message
<1> HIDE DEF done
<1>9. TypeOK'
  <2>1. ledger' \in [Batch -> LedgerRow]
    <3>1. \A b \in Batch : ledger'[b] \in LedgerRow
      BY <1>6, <1>7 DEF TypeOK, LedgerRow
    <3> QED
      BY <1>1, <3>1
  <2>2. pending' \in [Batch -> Segment \union {None, Free}]
    BY <1>1 DEF TypeOK
  <2>3. DOMAIN index' \subseteq Segment /\ \A s \in DOMAIN index' : index'[s] \subseteq Message
    BY <1>2, <1>5, <1>8 DEF TypeOK
  <2> QED
    BY <1>1, <2>1, <2>2, <2>3 DEF TypeOK
<1>10. Numbered'
  BY <1>1, <1>3, <1>4, <1>5 DEF Numbered
<1>11. Absent.facts = None /\ None \notin Facts /\ ~Absent.dated
  BY SentAssumption DEF Absent
<1>12. Undone'
  <2>1. \A b \in Batch : pending'[b] # None => pending'[b] \notin Segment
                          /\ ledger'[b] # Absent /\ ~ledger'[b].dated
    <3> SUFFICES ASSUME NEW b \in Batch, pending'[b] # None
                 PROVE  pending'[b] \notin Segment /\ ledger'[b] # Absent /\ ~ledger'[b].dated
      OBVIOUS
    <3>1. b \notin done
      BY <1>6
    <3> QED
      BY <1>7, <3>1 DEF Undone, done
  <2> QED
    BY <2>1, Apart DEF Undone
<1>13. Recorded'
  BY <1>6, <1>7 DEF Recorded
<1>14. Projectable'
  <2>1. \A b \in Batch : ledger[b] # Absent => ledger'[b] # Absent
    BY <1>6, <1>7, <1>11
  <2> QED
    BY <1>1, <2>1 DEF Projectable, Seen
<1>15. Stored'
  <2>1. objects[segment] = Body
    BY <1>2 DEF Stored
  <2>2. segment' \notin DOMAIN objects'
    BY <1>1, Apart DEF TypeOK
  <2>3. /\ DOMAIN index' \subseteq DOMAIN objects /\ DOMAIN objects \subseteq DOMAIN index'
        /\ \A s \in DOMAIN index' : objects[s] = index'[s]
    BY <1>2, <1>5, <2>1 DEF Stored
  <2> QED
    BY <1>1, <2>2, <2>3 DEF Stored
<1>16. Uploading'
  BY <1>1 DEF Uploading
<1>17. \A s \in DOMAIN index : \A m \in index[s] : m.id \in Batch \ done /\ pending[m.id] = None
  BY <1>2 DEF done, TypeOK, Message, Archives
<1>18. Archives'
  <2> SUFFICES ASSUME NEW s \in DOMAIN index', NEW m \in index'[s]
               PROVE  /\ pending'[m.id] = None
                      /\ \/ ledger'[m.id] = Absent
                         \/ ledger'[m.id] = [facts |-> m.facts, dated |-> TRUE]
                      /\ ledger'[m.id] = Absent => \A q \in queue' : q.id # m.id
    BY DEF Archives
  <2>1. CASE s = segment
    BY <1>1, <1>5, <1>6, <1>8, <1>11, <2>1
  <2>2. CASE s \in DOMAIN index
    BY <1>1, <1>5, <1>7, <1>17, <2>2 DEF Archives
  <2> QED
    BY <1>5, <2>1, <2>2
<1>19. ArchivedOnce'
  <2> SUFFICES ASSUME NEW s \in DOMAIN index', NEW t \in DOMAIN index',
                      NEW m \in index'[s], NEW k \in index'[t], m.id = k.id
               PROVE  s = t /\ m = k
    BY DEF ArchivedOnce
  <2>1. CASE s \in DOMAIN index /\ t \in DOMAIN index
    BY <1>5, <2>1 DEF ArchivedOnce
  <2>2. CASE s = segment /\ t = segment
    BY <1>5, <1>8, <2>2 DEF Message
  <2>3. CASE s = segment /\ t \in DOMAIN index
    BY <1>5, <1>8, <1>17, <2>3
  <2>4. CASE t = segment /\ s \in DOMAIN index
    BY <1>5, <1>8, <1>17, <2>4
  <2>5. /\ s = segment \/ s \in DOMAIN index
        /\ t = segment \/ t \in DOMAIN index
    BY <1>5
  <2> QED
    BY <2>1, <2>2, <2>3, <2>4, <2>5
<1>20. DatedArchived'
  <2> SUFFICES ASSUME NEW b \in Batch, ledger'[b].dated
               PROVE  \E s \in DOMAIN index' : [id |-> b, facts |-> ledger'[b].facts] \in index'[s]
    BY DEF DatedArchived, Indexed, Row
  <2>1. CASE b \in done
    BY <1>5, <1>6, <2>1 DEF Row
  <2>2. CASE b \notin done
    BY <1>5, <1>7, <2>2 DEF DatedArchived, Indexed, Row
  <2> QED
    BY <2>1, <2>2
<1> QED
  BY <1>9, <1>10, <1>12, <1>13, <1>14, <1>15, <1>16, <1>18, <1>19, <1>20
-----------------------------------------------------------------------------
LEMMA StepIInv == IInv /\ [Next]_vars => IInv'
<1> SUFFICES ASSUME IInv, [Next]_vars PROVE IInv'
  OBVIOUS
<1>1. CASE \E c \in Consumer : Consume(c)
  BY <1>1, StageKeeps, ConsumerKeeps DEF Consume
<1>2. CASE \E projected \in SUBSET outbox : Alarm(projected)
  BY <1>2, AlarmKeeps
<1>3. CASE Upload \/ RetryAfter \/ Crash
  BY <1>3, SealKeeps, PutKeeps, CompleteKeeps, HandlerKeeps DEF Upload
<1>4. CASE UNCHANGED vars
  <2>1. TypeOK' /\ Uploading'
    BY <1>4 DEF vars, queueVars, tables, TypeOK, Uploading, IInv
  <2> QED
    BY <1>4, <2>1, QuietKeeps DEF Quiet, vars, queueVars, tables
<1> QED
  BY <1>1, <1>2, <1>3, <1>4 DEF Next
-----------------------------------------------------------------------------
\* The invariant of one shard: its ledger, its segments and their objects.
THEOREM ArchiveInvariant == Spec => []IInv
<1> QED
  BY InitIInv, StepIInv, PTL DEF Spec

THEOREM TypeCorrect == Spec => []TypeOK
<1>1. IInv => TypeOK
  BY DEF IInv
<1> QED
  BY <1>1, ArchiveInvariant, PTL

\* No batch is in two objects, whatever uploads failed or were cut short, and
\* an object that is not indexed is that of the open segment.
THEOREM BatchesOnce == Spec => []OneObject
<1>1. ASSUME IInv PROVE OneObject
  <2> USE <1>1 DEF IInv
  <2>1. \A s \in DOMAIN objects : s \in DOMAIN index \/ s = segment
    BY DEF Stored
  <2>2. ASSUME NEW s \in DOMAIN objects, s \notin DOMAIN index
        PROVE  s = segment /\ segment # None /\ objects[s] = Body
    BY <2>1, <2>2, Apart DEF Stored, TypeOK
  <2>3. ASSUME NEW s \in DOMAIN index PROVE objects[s] = index[s]
    BY DEF Stored
  <2>4. ASSUME NEW s \in DOMAIN index, NEW m \in objects[s] PROVE pending[m.id] = None
    BY <2>3 DEF Archives
  <2>5. ASSUME NEW s \in DOMAIN objects, s \notin DOMAIN index, NEW m \in objects[s]
        PROVE  pending[m.id] = segment /\ segment # None
    BY <2>2, <2>5, BodyRows
  <2>6. ASSUME NEW s \in DOMAIN objects, NEW t \in DOMAIN objects,
               NEW m \in objects[s], NEW n \in objects[t], m.id = n.id
        PROVE  s = t
    <3>1. CASE s \in DOMAIN index /\ t \in DOMAIN index
      BY <2>3, <2>6, <3>1 DEF ArchivedOnce
    <3>2. CASE s \notin DOMAIN index /\ t \notin DOMAIN index
      BY <2>2, <3>2
    <3>3. CASE s \in DOMAIN index /\ t \notin DOMAIN index
      BY <2>4, <2>5, <2>6, <3>3
    <3>4. CASE s \notin DOMAIN index /\ t \in DOMAIN index
      BY <2>4, <2>5, <2>6, <3>4
    <3> QED
      BY <3>1, <3>2, <3>3, <3>4
  <2>7. ASSUME NEW s \in DOMAIN objects
        PROVE  IF s \in DOMAIN index
               THEN index[s] = objects[s]
               ELSE s = segment /\ objects[s] = Rows({b \in Batch : pending[b] = s})
    BY <2>2, <2>3 DEF Body
  <2> QED
    BY <2>6, <2>7 DEF OneObject
<1> QED
  BY <1>1, ArchiveInvariant, PTL
-----------------------------------------------------------------------------
(* Every step is a step of BrowserHistory: what is kept of a batch, which  *)
(* batches are archived and which are shown, in terms of the tables.       *)
HKept == [b \in Batch |-> KeptFacts(b)]
Shown == {b \in Batch : KeptFacts(b) # None /\ b \notin outbox}
IndexedIds == {b \in Batch : \E s \in DOMAIN index : \E m \in index[s] : m.id = b}

Meaning ==
  /\ \A b \in Batch : ledger[b] # Absent => KeptFacts(b) = ledger[b].facts
  /\ \A b \in Batch : ledger[b] = Absent /\ b \notin IndexedIds => KeptFacts(b) = None
  /\ \A s \in DOMAIN index : \A m \in index[s] :
       m.id \in Batch /\ m.facts \in Facts /\ KeptFacts(m.id) = m.facts
  /\ Archived = IndexedIds

LEMMA MeaningHolds == IInv => Meaning
<1> SUFFICES ASSUME IInv PROVE Meaning
  OBVIOUS
<1> USE DEF IInv
<1>1. \A b \in Batch : ledger[b] # Absent => KeptFacts(b) = ledger[b].facts
  BY DEF KeptFacts
<1>2. ASSUME NEW b \in Batch, ledger[b] = Absent, b \notin IndexedIds
      PROVE  KeptFacts(b) = None
  <2>1. {m \in UNION {index[s] : s \in DOMAIN index} : m.id = b} = {}
    BY <1>2 DEF IndexedIds
  <2> QED
    BY <1>2, <2>1 DEF KeptFacts
<1>3. ASSUME NEW s \in DOMAIN index, NEW m \in index[s]
      PROVE  /\ m.id \in Batch /\ m.facts \in Facts
             /\ m = [id |-> m.id, facts |-> m.facts]
  BY DEF TypeOK, Message
<1>4. ASSUME NEW s \in DOMAIN index, NEW m \in index[s]
      PROVE  KeptFacts(m.id) = m.facts
  <2>1. CASE ledger[m.id] # Absent
    <3>1. ledger[m.id] = [facts |-> m.facts, dated |-> TRUE]
      BY <2>1 DEF Archives
    <3>2. KeptFacts(m.id) = ledger[m.id].facts
      BY <1>1, <1>3, <2>1
    <3> QED
      BY <3>1, <3>2
  <2>2. CASE ledger[m.id] = Absent
    <3> DEFINE rows == {k \in UNION {index[t] : t \in DOMAIN index} : k.id = m.id}
    <3>1. m \in rows
      OBVIOUS
    <3>2. \A k \in rows : k = m
      BY DEF ArchivedOnce
    <3>3. KeptFacts(m.id) = IF rows = {} THEN None ELSE (CHOOSE k \in rows : TRUE).facts
      BY <2>2 DEF KeptFacts
    <3> HIDE DEF rows
    <3>4. (CHOOSE k \in rows : TRUE) \in rows
      BY <3>1
    <3> QED
      BY <3>1, <3>2, <3>3, <3>4
  <2> QED
    BY <2>1, <2>2
<1>5. Archived = IndexedIds
  <2>1. ASSUME NEW b \in Archived PROVE b \in IndexedIds
    BY DEF Archived, IndexedIds
  <2>2. ASSUME NEW b \in IndexedIds PROVE b \in Archived
    <3>1. PICK s \in DOMAIN index : \E m \in index[s] : m.id = b
      BY DEF IndexedIds
    <3>2. PICK m \in index[s] : m.id = b
      BY <3>1
    <3>3. [id |-> b, facts |-> KeptFacts(b)] = m
      BY <1>3, <1>4, <3>2
    <3>4. s \in DOMAIN objects /\ objects[s] = index[s]
      BY DEF Stored
    <3> QED
      BY <1>3, <3>2, <3>3, <3>4 DEF Archived
  <2> QED
    BY <2>1, <2>2 DEF Archived, IndexedIds
<1> QED
  BY <1>1, <1>2, <1>3, <1>4, <1>5 DEF Meaning

\* Pruning a row forgets nothing, as what may be pruned is indexed.
LEMMA PruneForgets ==
  ASSUME IInv, Meaning, Meaning', index' = index, NEW b \in Batch, KeptOrPruned(b)
  PROVE  KeptFacts(b)' = KeptFacts(b)
<1>1. CASE ledger'[b] = ledger[b]
  BY <1>1 DEF KeptFacts
<1>2. CASE ledger'[b] = Absent /\ ledger[b].dated
  <2>1. Indexed(Row(b))
    BY <1>2 DEF IInv, DatedArchived
  <2>2. PICK s \in DOMAIN index : Row(b) \in index[s]
    BY <2>1 DEF Indexed
  <2>3. Row(b).id = b
    BY DEF Row
  <2>4. KeptFacts(b) = Row(b).facts
    BY <2>2, <2>3 DEF Meaning
  <2>5. KeptFacts(b)' = Row(b).facts
    <3>1. \A t \in DOMAIN index' : \A m \in index'[t] : KeptFacts(m.id)' = m.facts
      BY DEF Meaning
    <3> QED
      BY <2>2, <2>3, <3>1
  <2> QED
    BY <2>4, <2>5
<1> QED
  BY <1>1, <1>2 DEF KeptOrPruned

LEMMA KeptOnly ==
  ASSUME IInv, Meaning, NEW b \in Batch
  PROVE  KeptFacts(b) # None <=> ledger[b] # Absent \/ b \in IndexedIds
<1>1. None \notin Facts
  BY SentAssumption
<1>2. ledger[b] # Absent => KeptFacts(b) # None
  BY <1>1 DEF IInv, Recorded, Meaning
<1>3. ASSUME b \in IndexedIds PROVE KeptFacts(b) # None
  BY <1>1, <1>3 DEF Meaning, IndexedIds
<1> QED
  BY <1>2, <1>3 DEF Meaning

\* A step that moves neither the index nor the outbox, and prunes at most.
LEMMA HistoryStands ==
  ASSUME IInv, Meaning, Meaning', index' = index, outbox' = outbox,
         \A b \in Batch : KeptOrPruned(b)
  PROVE  UNCHANGED <<HKept, Archived, Shown>>
<1>1. \A b \in Batch : KeptFacts(b)' = KeptFacts(b)
  BY PruneForgets
<1>2. HKept' = HKept /\ Shown' = Shown
  BY <1>1 DEF HKept, Shown
<1>3. Archived' = Archived
  BY DEF Meaning, IndexedIds
<1> QED
  BY <1>2, <1>3

LEMMA StagingKeepsHistory ==
  ASSUME IInv, IInv', Meaning, Meaning', NEW S \in SUBSET Batch, Staging(S)
  PROVE  History!Keep(S)
<1>1. /\ index' = index /\ outbox' = outbox \union S
      /\ \A b \in S : /\ ledger'[b] # Absent /\ ledger'[b].facts \in Facts
                      /\ ledger[b] = Absent /\ b \notin IndexedIds
      /\ \A b \in Batch \ S : KeptOrPruned(b)
  BY DEF Staging, IndexedIds
<1>2. ASSUME NEW b \in S
      PROVE  KeptFacts(b) = None /\ KeptFacts(b)' \in Facts /\ KeptFacts(b)' # None
  <2>1. KeptFacts(b) = None
    BY <1>1 DEF Meaning
  <2>2. KeptFacts(b)' = ledger'[b].facts
    BY <1>1 DEF Meaning
  <2> QED
    BY <1>1, <2>1, <2>2, SentAssumption
<1>3. ASSUME NEW b \in Batch \ S PROVE KeptFacts(b)' = KeptFacts(b)
  BY <1>1, PruneForgets
<1>4. \A b \in Batch : KeptFacts(b) \in Facts \union {None}
  <2> SUFFICES ASSUME NEW b \in Batch PROVE KeptFacts(b) \in Facts \union {None}
    OBVIOUS
  <2>1. CASE ledger[b] # Absent
    BY <2>1 DEF Meaning, IInv, Recorded
  <2>2. CASE ledger[b] = Absent /\ b \in IndexedIds
    BY <2>2 DEF Meaning, IndexedIds
  <2>3. CASE ledger[b] = Absent /\ b \notin IndexedIds
    BY <2>3 DEF Meaning
  <2> QED
    BY <2>1, <2>2, <2>3
<1>5. \A b \in Batch : KeptFacts(b)' \in Facts \union {None}
  BY <1>2, <1>3, <1>4
<1>6. Archived' = Archived
  BY <1>1 DEF Meaning, IndexedIds
<1>7. Shown' = Shown
  BY <1>1, <1>2, <1>3 DEF Shown
<1>8. HKept' \in [Batch -> Facts \union {None}] /\ \A b \in Batch : HKept'[b] = KeptFacts(b)'
  BY <1>5 DEF HKept
<1>9. \A b \in Batch : HKept[b] = KeptFacts(b)
  BY DEF HKept
<1>10. S \intersect {b \in Batch : HKept[b] # None} = {}
  BY <1>2, <1>9
<1>11. \A b \in Batch : IF b \in S THEN HKept'[b] # None ELSE HKept'[b] = HKept[b]
  BY <1>2, <1>3, <1>8, <1>9
<1> QED
  BY <1>6, <1>7, <1>8, <1>10, <1>11 DEF History!Keep, History!Kept, HKept, Shown

LEMMA AlarmShows ==
  ASSUME IInv, Meaning, Meaning', NEW projected \in SUBSET outbox, Alarm(projected)
  PROVE  History!Show(projected)
<1>1. PICK P \in SUBSET Expired : ledger' = Prune(P)
  BY DEF Alarm
<1>2. index' = index /\ outbox' = outbox \ projected
  BY DEF Alarm
<1>3. \A b \in Batch : KeptOrPruned(b)
  BY <1>1, Prunes DEF KeptOrPruned
<1>4. \A b \in Batch : KeptFacts(b)' = KeptFacts(b)
  BY <1>2, <1>3, PruneForgets
<1>5. HKept' = HKept
  BY <1>4 DEF HKept
<1>6. Archived' = Archived
  BY <1>2 DEF Meaning, IndexedIds
<1>7. \A b \in projected : b \in Batch /\ KeptFacts(b) # None
  BY KeptOnly DEF IInv, TypeOK, Projectable, Seen
<1>8. Shown' = Shown \union projected /\ projected \intersect Shown = {}
  BY <1>2, <1>4, <1>7 DEF Shown
<1>9. projected \subseteq {b \in Batch : HKept[b] # None} \ Shown
  BY <1>7, <1>8 DEF HKept
<1> QED
  BY <1>5, <1>6, <1>8, <1>9 DEF History!Show, History!Kept, HKept, Shown

LEMMA CompleteArchives ==
  ASSUME IInv, IInv', Meaning, Meaning', Complete
  PROVE  \E S \in SUBSET Batch : History!Archive(S)
<1> DEFINE done == {b \in Batch : pending[b] = segment}
<1>1. /\ outbox' = outbox
      /\ index' = [s \in DOMAIN index \union {segment} |->
                     IF s = segment THEN Body ELSE index[s]]
      /\ ledger' = [b \in Batch |->
           IF b \in done THEN [ledger[b] EXCEPT !.dated = TRUE] ELSE ledger[b]]
      /\ handler = "complete"
  BY DEF Complete, Body
<1>2. segment # None /\ segment \notin DOMAIN index
  BY <1>1 DEF IInv, Uploading, Numbered
<1>3. /\ DOMAIN index' = DOMAIN index \union {segment}
      /\ index'[segment] = Body
      /\ \A s \in DOMAIN index : index'[s] = index[s]
  BY <1>1, <1>2
<1>4. /\ \A b \in done : Row(b) \in Body /\ Row(b).id = b
      /\ \A m \in Body : m.id \in done
  <2>1. \A b \in done : Row(b) \in Body /\ Row(b).id = b
    BY DEF Row, Body, Rows
  <2>2. \A m \in Body : m.id \in done
    BY <1>2, BodyRows DEF Message
  <2> QED
    BY <2>1, <2>2
<1>5. ASSUME NEW b \in done
      PROVE  /\ ledger[b] # Absent /\ ledger'[b] # Absent
             /\ ledger'[b].facts = ledger[b].facts
             /\ b \notin IndexedIds
  <2>1. ledger[b] # Absent /\ ledger[b] \in LedgerRow /\ ledger[b].facts \in Facts
    BY <1>2 DEF IInv, TypeOK, Undone, Recorded
  <2>2. ledger'[b].facts = ledger[b].facts
    BY <1>1, <2>1 DEF LedgerRow
  <2>3. ledger'[b] # Absent
    BY <2>1, <2>2, SentAssumption DEF Absent
  <2>4. b \notin IndexedIds
    <3>1. SUFFICES ASSUME NEW s \in DOMAIN index, NEW m \in index[s], m.id = b
                   PROVE  FALSE
      BY DEF IndexedIds
    <3>2. Archives
      BY DEF IInv
    <3>3. pending[b] = None
      BY <3>1, <3>2 DEF Archives
    <3> QED
      BY <1>2, <3>3
  <2> QED
    BY <2>1, <2>2, <2>3, <2>4
<1>6. ASSUME NEW b \in Batch \ done
      PROVE  /\ ledger'[b] = ledger[b]
             /\ b \in IndexedIds' <=> b \in IndexedIds
  <2>1. ledger'[b] = ledger[b]
    BY <1>1
  <2>2. b \in IndexedIds' <=> b \in IndexedIds
    BY <1>3, <1>4 DEF IndexedIds
  <2> QED
    BY <2>1, <2>2
<1>7. IndexedIds' = IndexedIds \union done
  <2>1. done \subseteq IndexedIds'
    BY <1>3, <1>4 DEF IndexedIds
  <2>2. IndexedIds \subseteq Batch /\ IndexedIds' \subseteq Batch /\ done \subseteq Batch
    BY DEF IndexedIds
  <2> HIDE DEF done
  <2> QED
    BY <1>5, <1>6, <2>1, <2>2
<1> HIDE DEF done
<1>8. \A b \in Batch : KeptFacts(b)' = KeptFacts(b)
  <2> SUFFICES ASSUME NEW b \in Batch PROVE KeptFacts(b)' = KeptFacts(b)
    OBVIOUS
  <2>1. CASE b \in done
    BY <1>5, <2>1 DEF Meaning
  <2>2. CASE b \notin done /\ ledger[b] # Absent
    BY <1>6, <2>2 DEF Meaning
  <2>3. CASE b \notin done /\ ledger[b] = Absent /\ b \notin IndexedIds
    BY <1>6, <2>3 DEF Meaning
  <2>4. CASE b \notin done /\ b \in IndexedIds
    <3>1. PICK s \in DOMAIN index : \E m \in index[s] : m.id = b
      BY <2>4 DEF IndexedIds
    <3>2. PICK m \in index[s] : m.id = b
      BY <3>1
    <3>3. s \in DOMAIN index' /\ m \in index'[s]
      BY <1>3, <3>2
    <3>4. KeptFacts(b) = m.facts
      BY <3>2 DEF Meaning
    <3>5. \A t \in DOMAIN index' : \A k \in index'[t] : KeptFacts(k.id)' = k.facts
      BY DEF Meaning
    <3> QED
      BY <3>2, <3>3, <3>4, <3>5
  <2> QED
    BY <2>1, <2>2, <2>3, <2>4
<1>9. HKept' = HKept /\ Shown' = Shown
  BY <1>1, <1>8 DEF HKept, Shown
<1>10. Archived' = Archived \union done /\ done \intersect Archived = {}
  BY <1>5, <1>7 DEF Meaning
<1>11. done \subseteq Batch /\ done \subseteq {b \in Batch : HKept[b] # None} \ Archived
  <2>1. done \subseteq Batch
    BY DEF done
  <2>2. \A b \in done : KeptFacts(b) # None
    BY <1>5, <2>1, KeptOnly
  <2> QED
    BY <1>10, <2>1, <2>2 DEF HKept
<1>12. History!Archive(done)
  BY <1>9, <1>10, <1>11 DEF History!Archive, History!Kept, HKept, Shown
<1> QED
  BY <1>11, <1>12

LEMMA HistoryStep ==
  IInv /\ Meaning /\ IInv' /\ Meaning' /\ [Next]_vars
    => [History!Next]_<<HKept, Archived, Shown>>
<1> SUFFICES ASSUME IInv, Meaning, IInv', Meaning', [Next]_vars
             PROVE  History!Next \/ UNCHANGED <<HKept, Archived, Shown>>
  OBVIOUS
<1>1. CASE ledger' = ledger /\ index' = index /\ outbox' = outbox
  BY <1>1, HistoryStands DEF KeptOrPruned
<1>2. ASSUME NEW c \in Consumer, NEW group \in SUBSET queue, Stage(c, group)
      PROVE  History!Next \/ UNCHANGED <<HKept, Archived, Shown>>
  <2>1. CASE Quiet
    BY <1>1, <2>1 DEF Quiet
  <2>2. CASE \E S \in SUBSET Batch : Staging(S)
    BY <2>2, StagingKeepsHistory DEF History!Next
  <2> QED
    BY <1>2, <2>1, <2>2, StageEffect
<1>3. ASSUME NEW c \in Consumer, Scheduled(c) \/ RecordReceipts(c)
      PROVE  UNCHANGED <<HKept, Archived, Shown>>
  <2>1. ledger' = ledger /\ index' = index /\ outbox' = outbox
    BY <1>3 DEF Scheduled, RecordReceipts, tables
  <2> QED
    BY <2>1, HistoryStands DEF KeptOrPruned
<1>4. ASSUME NEW projected \in SUBSET outbox, Alarm(projected) PROVE History!Next
  <2>1. projected \in SUBSET Batch
    BY DEF IInv, TypeOK
  <2> QED
    BY <1>4, <2>1, AlarmShows DEF History!Next
<1>5. CASE Complete
  BY <1>5, CompleteArchives DEF History!Next
<1>6. CASE Seal \/ Put \/ Answered \/ UploadFails \/ EndAlarm \/ RetryAfter \/ Crash
  BY <1>1, <1>6
  DEF Seal, Put, Answered, UploadFails, EndAlarm, RetryAfter, Crash, tables
<1>7. CASE UNCHANGED vars
  BY <1>1, <1>7 DEF vars, tables
<1> QED
  BY <1>2, <1>3, <1>4, <1>5, <1>6, <1>7 DEF Next, Consume, Upload

LEMMA HistoryInit == Init => History!Init
<1> SUFFICES ASSUME Init PROVE History!Init
  OBVIOUS
<1>1. \A b \in Batch : KeptFacts(b) = None
  <2>1. \A b \in Batch : ledger[b] = Absent
    BY DEF Init
  <2>2. \A b \in Batch : {m \in UNION {index[s] : s \in DOMAIN index} : m.id = b} = {}
    BY DEF Init
  <2> QED
    BY <2>1, <2>2 DEF KeptFacts, Init
<1>2. Archived = {}
  BY DEF Archived, Init
<1> QED
  BY <1>1, <1>2 DEF History!Init

\* The shard implements BrowserHistory: the facts of a staged batch never change
\* and are never forgotten, and a batch is archived and shown once, with them.
THEOREM ArchiveRefines == Spec => History!Spec
<1>1. IInv /\ IInv' /\ [Next]_vars => [History!Next]_<<HKept, Archived, Shown>>
  BY MeaningHolds, HistoryStep, PTL
<1> QED
  BY <1>1, HistoryInit, ArchiveInvariant, PTL DEF Spec, History!Spec, HKept, Shown
=============================================================================
