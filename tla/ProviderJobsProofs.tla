--------------------------- MODULE ProviderJobsProofs ---------------------------
(***************************************************************************)
(* Theorems about ProviderJobs: leases, generations, destinations, and     *)
(* what the cursor of an import has left behind.                           *)
(***************************************************************************)
EXTENDS ProviderJobs, FiniteSetTheorems, SequenceTheorems, TLAPS

\* What a worker is at, and what it writes of it.
Writing == {"assign", "insert", "write"}
AtResource == Writing \union {"remember", "issue", "advance"}
Busyness == {"open", "loop", "failed"} \union AtResource

Settled(c) == {r \in Resource : ledger[c][r] # None \/ r \in noted[c]}

\* The resources that a cursor has gone past.
Passed(cur) ==
  {r \in Resource :
     \/ cur.phase \in {"refunds", "done"} /\ r \in ListedIn("payments")
     \/ cur.phase = "done" /\ r \in ListedIn("refunds")
     \/ /\ cur.phase \in DOMAIN Pages
        /\ \E n \in 1..Len(Pages[cur.phase]) :
             \E i \in 1..Len(Pages[cur.phase][n]) :
               /\ r = Pages[cur.phase][n][i]
               /\ n < cur.page \/ (n = cur.page /\ i <= cur.offset)}

\* A cursor of job j: where it may be, and that what it passed is settled.
Placed(j, cur) ==
  /\ cur.phase \in DOMAIN Pages => cur.page \in 1..Len(Pages[cur.phase])
  /\ cur.loaded => cur.phase \in DOMAIN Pages
  /\ j \in Import => cur.phase # "resource"
Behind(j, cur) ==
  j \in Import => Passed(cur) \subseteq Settled(ConnOf[j]) \union Filtered

\* The row of a job.
Row(j) ==
  /\ job[j].why # None => job[j].status = "cancelled"
  /\ Placed(j, job[j].cursor) /\ Behind(j, job[j].cursor)
  /\ j \in Import /\ job[j].status = "finished" => job[j].cursor.phase = "done"
  /\ job[j].cursor.phase = "done" => job[j].status = "finished"
Rows == \A j \in Job : Row(j)

\* A worker whose token the row has is the one that runs it.
Holder(w) ==
  LET v == worker[w] IN
  v.pc \in Busyness /\ job[v.job].token = w
    => job[v.job].status = "running" /\ job[v.job].cursor = v.cursor

\* What a worker still has to record: a refund's original comes before it.
Pair(todo) == \E r \in Refund : todo = <<OriginalOf[r], r>>
Todo(w) ==
  LET v == worker[w]
      c == ConnOf[v.job]
  IN
  /\ v.pc \in Writing =>
       \/ Pair(v.todo)
       \/ \E p \in Payment : v.todo = <<p>>
       \/ \E r \in Refund : v.todo = <<r>> /\ ledger[c][OriginalOf[r]] # None
  /\ v.pc \in {"insert", "write"} => v.target # None
  /\ v.pc = "remember" =>
       /\ Pair(v.todo) \/ \E r \in Resource : v.todo = <<r>>
       /\ v.reason \/ ledger[c][Fact(w)] # None
  /\ v.pc = "issue" => \E r \in Resource : v.todo = <<r>>

\* An import is at a listed resource, and past it only once it is settled.
Listing(w) ==
  LET v == worker[w] IN
  v.job \in Import /\ v.pc \in AtResource =>
    /\ v.cursor.loaded /\ Listed(v.cursor)
    /\ IF v.pc = "advance"
       THEN At(w) \in Settled(ConnOf[v.job]) \union Filtered
       ELSE v.todo[Len(v.todo)] = At(w)

Running(w) ==
  LET v == worker[w] IN
  /\ v.pc # "idle" =>
       v.job \in Job /\ Placed(v.job, v.cursor) /\ Behind(v.job, v.cursor)
  /\ Holder(w) /\ Todo(w) /\ Listing(w)
Workers == \A w \in Worker : Running(w)

\* Leases: one job of a connection, two of a workspace.
Exclusively ==
  \A j, k \in Job :
    ConnOf[j] = ConnOf[k] /\ Busy(j, 0) /\ Busy(k, 0) => j = k
TwoAtMost == \A c \in Conn : Cardinality({j \in In(c) : Busy(j, 0)}) <= 2

IInv == /\ TypeOK /\ Rows /\ Workers
        /\ Exclusively /\ TwoAtMost
        /\ NoStrandedJob /\ OneDestination /\ RefundsHaveOriginals
-----------------------------------------------------------------------------
LEMMA Values ==
  /\ None \notin Worker /\ None \notin Target
  /\ Lease \in Nat /\ Delay \in Nat /\ Backoff \in Nat /\ MaxGen \in Nat
  /\ Delay < Lease /\ 1 \in 1..MaxGen
  /\ Gone \in Int /\ Gone \in Gone..Lease /\ Gone \in Gone..Backoff
  /\ Backoff \in Gone..Backoff /\ Late \subseteq Nat
  /\ \A j \in Job : ConnOf[j] \in Conn
  /\ \A r \in Refund : OriginalOf[r] \in Payment /\ r \notin Payment
  /\ Payment \subseteq Resource /\ Refund \subseteq Resource
  /\ None # "owner" /\ None # "connection"
  BY ProviderAssumption DEF Gone, Late, Resource

LEMMA Cursors ==
  /\ Start \in Cursor /\ Single \in Cursor /\ Done \in Cursor
  /\ Start.phase = "payments" /\ Start.page = 1 /\ ~Start.loaded /\ Start.offset = 0
  /\ Single.phase = "resource" /\ ~Single.loaded
  /\ Done.phase = "done" /\ ~Done.loaded
  BY DEF Start, Single, Done, Cursor

LEMMA Listings ==
  /\ DOMAIN Pages = {"payments", "refunds"}
  /\ \A phase \in DOMAIN Pages :
       /\ Pages[phase] \in Seq(Seq(Resource)) /\ 1 \in 1..Len(Pages[phase])
       /\ Len(Pages[phase]) \in Nat
       /\ \A n \in 1..Len(Pages[phase]) :
            /\ Pages[phase][n] \in Seq(Resource) /\ Len(Pages[phase][n]) \in Nat
            /\ \A i \in 1..Len(Pages[phase][n]) : Pages[phase][n][i] \in Resource
<1>1. DOMAIN Pages = {"payments", "refunds"}
  BY PagesAssumption
<1>2. ASSUME NEW phase \in DOMAIN Pages
      PROVE  /\ Pages[phase] \in Seq(Seq(Resource)) /\ 1 \in 1..Len(Pages[phase])
             /\ Len(Pages[phase]) \in Nat
             /\ \A n \in 1..Len(Pages[phase]) :
                  /\ Pages[phase][n] \in Seq(Resource) /\ Len(Pages[phase][n]) \in Nat
                  /\ \A i \in 1..Len(Pages[phase][n]) : Pages[phase][n][i] \in Resource
  <2>1. Pages[phase] \in Seq(Seq(Resource)) /\ Pages[phase] # <<>>
    BY PagesAssumption
  <2>2. Len(Pages[phase]) \in Nat /\ Len(Pages[phase]) # 0
    BY <2>1, EmptySeq, LenProperties
  <2>3. \A n \in 1..Len(Pages[phase]) : Pages[phase][n] \in Seq(Resource)
    BY <2>1, ElementOfSeq
  <2>4. \A n \in 1..Len(Pages[phase]) : \A i \in 1..Len(Pages[phase][n]) :
          Pages[phase][n][i] \in Resource
    BY <2>3, ElementOfSeq
  <2>5. \A n \in 1..Len(Pages[phase]) : Len(Pages[phase][n]) \in Nat
    BY <2>3, LenProperties
  <2> QED
    BY <2>1, <2>2, <2>3, <2>4, <2>5
<1> QED
  BY <1>1, <1>2

LEMMA ShortLists ==
  /\ \A r \in Resource : <<r>> \in Seq(Resource)
  /\ \A r \in Refund : <<OriginalOf[r], r>> \in Seq(Resource)
  BY Values

LEMMA Fresh ==
  /\ Idle \in Local /\ Unborn \in JobRow
  /\ Idle.pc = "idle" /\ Unborn.status = "none" /\ Unborn.why = None
  /\ Unborn.token = None /\ Unborn.cursor = Start
<1>1. Idle \in Local
  <2>1. <<>> \in Seq(Resource)
    OBVIOUS
  <2> QED
    BY <2>1, Values, Cursors DEF Idle, Local
<1>2. Unborn \in JobRow
  BY Values, Cursors DEF Unborn, JobRow
<1> QED
  BY <1>1, <1>2 DEF Idle, Unborn

\* What is behind the first cursor and the one at the end.
LEMMA PassedEnds ==
  /\ Passed(Start) = {}
  /\ Passed(Done) = {r \in Resource : r \in ListedIn("payments") \union ListedIn("refunds")}
<1>1. Passed(Start) = {}
  BY Cursors, Listings DEF Passed
<1>2. Passed(Done) = {r \in Resource : r \in ListedIn("payments") \union ListedIn("refunds")}
  BY Cursors, Listings DEF Passed
<1> QED
  BY <1>1, <1>2

LEMMA InitIInv == Init => IInv
<1> SUFFICES ASSUME Init PROVE IInv
  OBVIOUS
<1>1. TypeOK
  <2>1. \A c \in Conn : [p \in Payment |-> None] \in [Payment -> Target \union {None}]
                     /\ [r \in Resource |-> None] \in [Resource -> Target \union {None}]
    OBVIOUS
  <2>2. [active |-> TRUE, gen |-> 1, route |-> Exclusive] \in ConnRow
    BY Values DEF ConnRow
  <2>3. conn \in [Conn -> ConnRow] /\ job \in [Job -> JobRow] /\ worker \in [Worker -> Local]
    BY <2>2, Fresh DEF Init
  <2> QED
    BY <2>1, <2>3 DEF TypeOK, Init
<1>2. Rows
  <2> SUFFICES ASSUME NEW j \in Job PROVE Row(j)
    BY DEF Rows
  <2>1. job[j] = Unborn
    BY DEF Init
  <2> QED
    BY <2>1, Fresh, Cursors, Listings, PassedEnds DEF Row, Placed, Behind
<1>3. Workers
  <2> SUFFICES ASSUME NEW w \in Worker PROVE Running(w)
    BY DEF Workers
  <2>1. worker[w].pc = "idle"
    BY Fresh DEF Init
  <2> QED
    BY <2>1 DEF Running, Holder, Todo, Listing, Busyness, AtResource, Writing
<1>4. \A j \in Job : ~Busy(j, 0) /\ ~Live(j)
  BY Fresh DEF Init, Busy, Live
<1>5. Exclusively /\ TwoAtMost
  <2>1. \A c \in Conn : {j \in In(c) : Busy(j, 0)} = {}
    BY <1>4 DEF In
  <2>2. Cardinality({}) = 0
    BY FS_EmptySet
  <2> QED
    BY <1>4, <2>1, <2>2 DEF Exclusively, TwoAtMost
<1>6. NoStrandedJob /\ OneDestination /\ RefundsHaveOriginals
  <2>1. \A c \in Conn, r \in Resource : ledger[c][r] = None
    BY DEF Init
  <2> QED
    BY <1>4, <2>1, Values DEF NoStrandedJob, OneDestination, RefundsHaveOriginals
<1> QED
  BY <1>1, <1>2, <1>3, <1>5, <1>6 DEF IInv
-----------------------------------------------------------------------------
\* What the stores keep in a step.
SettledAfter(c) == {r \in Resource : ledger'[c][r] # None \/ r \in noted'[c]}
Grows == \A c \in Conn :
  /\ Settled(c) \subseteq SettledAfter(c)
  /\ \A r \in Resource : ledger[c][r] # None => ledger'[c][r] # None

LEMMA StoresStand == UNCHANGED <<ledger, noted>> => Grows
  BY DEF Grows, Settled, SettledAfter

\* A worker that a step does not move, whose row it leaves alone or takes away.
LEMMA RunningFrame ==
  ASSUME TypeOK, Grows, NEW x \in Worker, Running(x), worker'[x] = worker[x],
         worker[x].pc \in Busyness /\ job'[worker[x].job].token = x
           => /\ job[worker[x].job].token = x
              /\ job'[worker[x].job].status = job[worker[x].job].status
              /\ job'[worker[x].job].cursor = job[worker[x].job].cursor
  PROVE  Running(x)'
<1> DEFINE v == worker[x]
           c == ConnOf[v.job]
<1>1. v.pc # "idle" => v.job \in Job /\ c \in Conn
  BY Values DEF Running
<1>2. v.pc \in Busyness => v.pc # "idle"
  BY DEF Busyness, AtResource, Writing
<1>3. (v.pc # "idle" => v.job \in Job /\ Placed(v.job, v.cursor) /\ Behind(v.job, v.cursor))'
  BY <1>1 DEF Running, Placed, Behind, Grows, Settled, SettledAfter
<1>4. Holder(x)'
  BY DEF Running, Holder
<1>5. Todo(x)'
  <2>1. v.pc \in Writing \union {"remember", "issue"} => c \in Conn
    BY <1>1, <1>2 DEF Busyness, AtResource
  <2>2. v.pc \in Writing =>
          \/ Pair(v.todo)
          \/ \E p \in Payment : v.todo = <<p>>
          \/ \E r \in Refund : v.todo = <<r>> /\ ledger'[c][OriginalOf[r]] # None
    BY <2>1, Values DEF Running, Todo, Grows
  <2>3. v.pc = "remember" => Fact(x) \in Resource
    BY Values DEF Running, Todo, Pair, Fact
  <2>4. v.pc = "remember" => v.reason \/ ledger'[c][Fact(x)] # None
    BY <2>1, <2>3 DEF Running, Todo, Grows
  <2> QED
    BY <2>2, <2>4 DEF Running, Todo, Fact, Pair
<1>6. Listing(x)'
  <2>1. At(x)' = At(x) /\ (Listed(v.cursor)' <=> Listed(v.cursor))
    BY DEF At, Listed, Page
  <2>2. v.pc \in AtResource => c \in Conn
    BY <1>1, <1>2 DEF Busyness
  <2> QED
    BY <2>1, <2>2 DEF Running, Listing, Grows, Settled, SettledAfter
<1> QED
  BY <1>3, <1>4, <1>5, <1>6 DEF Running

\* A row that keeps its cursor.
LEMMA RowFrame ==
  ASSUME Grows, NEW j \in Job, Row(j), job'[j].cursor = job[j].cursor,
         job'[j].why # None => job'[j].status = "cancelled",
         job'[j].status = "finished" <=> job[j].status = "finished"
  PROVE  Row(j)'
<1>1. ConnOf[j] \in Conn
  BY Values
<1> QED
  BY <1>1 DEF Row, Placed, Behind, Grows, Settled, SettledAfter

LEMMA LeasesFrame ==
  ASSUME IInv, TypeOK', \A j \in Job : job'[j].status = "running" /\ job'[j].left > 0 => Busy(j, 0)
  PROVE  Exclusively' /\ TwoAtMost'
<1>1. \A j \in Job : Busy(j, 0)' => Busy(j, 0)
  <2>1. ASSUME NEW j \in Job, Busy(j, 0)' PROVE Busy(j, 0)
    <3>1. job'[j].left \in Int
      BY Values DEF TypeOK, JobRow
    <3> QED
      BY <2>1, <3>1 DEF Busy
  <2> QED
    BY <2>1
<1>2. Exclusively'
  BY <1>1 DEF IInv, Exclusively
<1>3. ASSUME NEW c \in Conn PROVE Cardinality({j \in In(c) : Busy(j, 0)'}) <= 2
  <2>1. {j \in In(c) : Busy(j, 0)'} \subseteq {j \in In(c) : Busy(j, 0)}
    BY <1>1 DEF In
  <2>2. {j \in In(c) : Busy(j, 0)} \subseteq Job
    BY DEF In
  <2>3. IsFiniteSet({j \in In(c) : Busy(j, 0)})
    BY <2>2, ProviderAssumption, FS_Subset
  <2>4. Cardinality({j \in In(c) : Busy(j, 0)'}) <= Cardinality({j \in In(c) : Busy(j, 0)})
    BY <2>1, <2>3, FS_Subset
  <2>5. Cardinality({j \in In(c) : Busy(j, 0)}) \in Nat
        /\ Cardinality({j \in In(c) : Busy(j, 0)'}) \in Nat
    BY <2>1, <2>3, FS_Subset, FS_CardinalityType
  <2> QED
    BY <2>4, <2>5 DEF IInv, TwoAtMost
<1> QED
  BY <1>2, <1>3 DEF TwoAtMost, In
-----------------------------------------------------------------------------
LEMMA FreedRow ==
  ASSUME NEW row \in JobRow
  PROVE  /\ Freed(row) \in JobRow
         /\ Freed(row).status = row.status /\ Freed(row).why = row.why
         /\ Freed(row).gen = row.gen /\ Freed(row).cursor = row.cursor
         /\ Freed(row).token = None /\ Freed(row).left = Gone
  BY Values DEF Freed, JobRow

LEMMA CancelledRow ==
  ASSUME NEW row \in JobRow, NEW who \in {"owner", "connection"}
  PROVE  /\ Cancelled(row, who) \in JobRow
         /\ Cancelled(row, who).status = "cancelled" /\ Cancelled(row, who).why = who
         /\ Cancelled(row, who).gen = row.gen /\ Cancelled(row, who).cursor = row.cursor
         /\ Cancelled(row, who).token = None
<1>1. Freed(row) \in JobRow /\ Freed(row).gen = row.gen
      /\ Freed(row).cursor = row.cursor /\ Freed(row).token = None
  BY FreedRow
<1> QED
  BY <1>1 DEF Cancelled, JobRow

LEMMA QueuedRow ==
  ASSUME NEW row \in JobRow, NEW g \in 0..MaxGen
  PROVE  /\ Queued(row, g) \in JobRow
         /\ Queued(row, g).status = "queued" /\ Queued(row, g).why = None
         /\ Queued(row, g).gen = g /\ Queued(row, g).cursor = row.cursor
         /\ Queued(row, g).token = None
<1>1. Freed(row) \in JobRow
      /\ Freed(row).cursor = row.cursor /\ Freed(row).token = None
  BY FreedRow
<1> QED
  BY <1>1, Values DEF Queued, JobRow
-----------------------------------------------------------------------------
\* A step of the owner, the provider or the clock.
LEMMA OwnerFrame ==
  ASSUME IInv, TypeOK', UNCHANGED <<worker, assigned, ledger, noted>>,
         \A j \in Job : Row(j)', NoStrandedJob',
         \A j \in Job : job'[j].token # None =>
           /\ job'[j].token = job[j].token
           /\ job[j].status = "running" =>
                job'[j].status = "running" /\ job'[j].cursor = job[j].cursor,
         \A j \in Job : job'[j].status = "running" /\ job'[j].left > 0 => Busy(j, 0)
  PROVE  IInv'
<1>1. Rows'
  BY DEF Rows
<1>2. Workers'
  <2> SUFFICES ASSUME NEW x \in Worker PROVE Running(x)'
    BY DEF Workers
  <2>1. Running(x) /\ worker'[x] = worker[x] /\ TypeOK
    BY DEF IInv, Workers
  <2>2. ASSUME worker[x].pc \in Busyness, job'[worker[x].job].token = x
        PROVE  /\ job[worker[x].job].token = x
               /\ job'[worker[x].job].status = job[worker[x].job].status
               /\ job'[worker[x].job].cursor = job[worker[x].job].cursor
    <3>1. worker[x].job \in Job
      BY <2>1, <2>2 DEF Running, Busyness, AtResource, Writing
    <3>2. job[worker[x].job].token = x
      BY <2>2, <3>1, Values
    <3>3. job[worker[x].job].status = "running"
      BY <2>1, <2>2, <3>2 DEF Running, Holder
    <3> QED
      BY <2>2, <3>1, <3>2, <3>3, Values
  <2>3. Grows
    BY StoresStand
  <2> QED
    BY <2>1, <2>2, <2>3, RunningFrame
<1>3. Exclusively' /\ TwoAtMost'
  BY LeasesFrame
<1>4. OneDestination' /\ RefundsHaveOriginals'
  BY DEF IInv, OneDestination, RefundsHaveOriginals
<1> QED
  BY <1>1, <1>2, <1>3, <1>4 DEF IInv

LEMMA BusyStands ==
  ASSUME NEW j \in Job, TypeOK, job'[j] = job[j]
  PROVE  job'[j].status = "running" /\ job'[j].left > 0 => Busy(j, 0)
<1>1. job[j].left \in Int
  BY Values DEF TypeOK, JobRow
<1> QED
  BY <1>1 DEF Busy

LEMMA RowStands ==
  ASSUME NEW j \in Job, IInv, UNCHANGED <<ledger, noted>>, job'[j] = job[j]
  PROVE  Row(j)'
<1>1. Row(j) /\ Grows
  BY StoresStand DEF IInv, Rows
<1> QED
  BY <1>1, RowFrame DEF Row

\* One job enters the table or changes its status by the owner's hand.
LEMMA OneJobKeeps ==
  ASSUME IInv, NEW j \in Job, StartImport(j) \/ AcceptWebhook(j) \/ Cancel(j) \/ Resume(j)
  PROVE  IInv'
<1>1. UNCHANGED <<conn, worker, assigned, ledger, noted>>
  BY DEF StartImport, AcceptWebhook, Cancel, Resume
<1> DEFINE c == ConnOf[j]
           row == job'[j]
<1>2. /\ c \in Conn /\ job[j] \in JobRow /\ conn[c] \in ConnRow
      /\ conn[c].gen \in 0..MaxGen
  BY Values DEF IInv, TypeOK, ConnRow
<1>3. \A k \in Job \ {j} : job'[k] = job[k]
  BY DEF StartImport, AcceptWebhook, Cancel, Resume, IInv, TypeOK
<1>4. job' = [job EXCEPT ![j] = row]
  BY DEF StartImport, AcceptWebhook, Cancel, Resume, IInv, TypeOK
<1>5. /\ row \in JobRow
      /\ Row(j)'
      /\ row.token # None => row.token = job[j].token /\ job[j].status # "running"
      /\ row.status # "running"
      /\ row.status \in {"queued", "running", "paused"} =>
           conn[c].active /\ conn[c].gen = row.gen
  <2>1. Row(j) /\ Grows
    BY <1>1, StoresStand DEF IInv, Rows
  <2>2. CASE StartImport(j)
    <3>1. row = Queued(Unborn, conn[c].gen) /\ job[j] = Unborn /\ conn[c].active
      BY <2>2 DEF StartImport, IInv, TypeOK
    <3>2. /\ row \in JobRow /\ row.status = "queued" /\ row.why = None
          /\ row.gen = conn[c].gen /\ row.cursor = job[j].cursor /\ row.token = None
      BY <1>2, <3>1, QueuedRow, Fresh
    <3>3. Row(j)'
      BY <2>1, <3>1, <3>2, Fresh, RowFrame
    <3> QED
      BY <3>1, <3>2, <3>3
  <2>3. CASE AcceptWebhook(j)
    <3> DEFINE q == Queued(Unborn, conn[c].gen)
    <3>1. row = [q EXCEPT !.cursor = Single] /\ conn[c].active /\ j \in Webhook
      BY <2>3 DEF AcceptWebhook, IInv, TypeOK
    <3>2. /\ q \in JobRow /\ q.status = "queued" /\ q.why = None
          /\ q.gen = conn[c].gen /\ q.token = None
      BY <1>2, QueuedRow, Fresh
    <3> HIDE DEF q
    <3>3. /\ row \in JobRow /\ row.status = "queued" /\ row.why = None
          /\ row.gen = conn[c].gen /\ row.cursor = Single /\ row.token = None
      BY <3>1, <3>2, Cursors DEF JobRow
    <3>4. j \notin Import
      BY <3>1, ProviderAssumption
    <3>5. Row(j)'
      BY <3>3, <3>4, Cursors, Listings DEF Row, Placed, Behind
    <3> QED
      BY <3>1, <3>3, <3>5
  <2>4. CASE Cancel(j)
    <3>1. row = Cancelled(job[j], "owner") /\ job[j].status # "finished"
      BY <2>4 DEF Cancel, IInv, TypeOK
    <3>2. /\ row \in JobRow /\ row.status = "cancelled"
          /\ row.cursor = job[j].cursor /\ row.token = None
      BY <1>2, <3>1, CancelledRow
    <3>3. Row(j)'
      BY <2>1, <3>1, <3>2, RowFrame
    <3> QED
      BY <3>2, <3>3
  <2>5. CASE Resume(j)
    <3>1. /\ row = [job[j] EXCEPT !.status = "queued", !.retry = Gone]
          /\ job[j].status = "paused" /\ Active(j)
      BY <2>5 DEF Resume, IInv, TypeOK
    <3>2. /\ row \in JobRow /\ row.status = "queued" /\ row.why = job[j].why
          /\ row.cursor = job[j].cursor /\ row.token = job[j].token
          /\ row.gen = job[j].gen
      BY <1>2, <3>1, Values DEF JobRow
    <3>3. Row(j)'
      BY <2>1, <3>1, <3>2, RowFrame DEF Row
    <3> QED
      BY <3>1, <3>2, <3>3 DEF Active
  <2> QED
    BY <2>2, <2>3, <2>4, <2>5
<1> HIDE DEF row
<1>6. TypeOK'
  BY <1>1, <1>4, <1>5 DEF IInv, TypeOK
<1>7. \A k \in Job : Row(k)'
  BY <1>1, <1>3, <1>5, RowStands
<1>8. NoStrandedJob'
  <2> SUFFICES ASSUME NEW k \in Job, Live(k)' PROVE Active(k)'
    BY DEF NoStrandedJob
  <2>1. CASE k = j
    BY <1>1, <1>5, <2>1 DEF Live, Active, row
  <2>2. CASE k # j
    BY <1>1, <1>3, <2>2 DEF Live, Active, IInv, NoStrandedJob
  <2> QED
    BY <2>1, <2>2
<1>9. \A k \in Job : job'[k].status = "running" /\ job'[k].left > 0 => Busy(k, 0)
  BY <1>3, <1>5, BusyStands DEF row, IInv
<1>10. \A k \in Job : job'[k].token # None =>
         /\ job'[k].token = job[k].token
         /\ job[k].status = "running" =>
              job'[k].status = "running" /\ job'[k].cursor = job[k].cursor
  BY <1>3, <1>5 DEF row
<1> QED
  BY <1>1, <1>6, <1>7, <1>8, <1>9, <1>10, OwnerFrame
-----------------------------------------------------------------------------
\* Disconnecting and replacing the credentials take every live job along.
LEMMA GenerationKeeps ==
  ASSUME IInv, NEW c \in Conn, Disconnect(c) \/ ReplaceCredentials(c)
  PROVE  IInv'
<1>1. UNCHANGED <<worker, assigned, ledger, noted>>
  BY DEF Disconnect, ReplaceCredentials
<1>2. conn[c] \in ConnRow /\ conn[c].gen \in Nat /\ conn[c].gen + 1 \in 1..MaxGen
  BY Values DEF IInv, TypeOK, ConnRow, Disconnect, ReplaceCredentials
<1>3. /\ conn' \in [Conn -> ConnRow]
      /\ conn'[c].gen = conn[c].gen + 1
      /\ ReplaceCredentials(c) => conn'[c].active
      /\ \A d \in Conn \ {c} : conn'[d] = conn[d]
  <2>1. CASE Disconnect(c)
    BY <1>2, <2>1 DEF IInv, TypeOK, ConnRow, Disconnect, ReplaceCredentials
  <2>2. CASE ReplaceCredentials(c)
    BY <1>2, <2>2 DEF IInv, TypeOK, ConnRow, ReplaceCredentials
  <2> QED
    BY <2>1, <2>2
<1>4. ASSUME NEW j \in Job
      PROVE  /\ job'[j] \in JobRow
             /\ Row(j)'
             /\ Live(j)' => Active(j)'
             /\ job'[j] # job[j] => job'[j].token = None /\ job'[j].status # "running"
  <2>1. Row(j) /\ Grows /\ job[j] \in JobRow /\ ConnOf[j] \in Conn
    BY <1>1, StoresStand, Values DEF IInv, Rows, TypeOK
  <2>2. CASE job'[j] = Cancelled(job[j], "connection") /\ Live(j)
    <3>1. /\ job'[j] \in JobRow /\ job'[j].status = "cancelled"
          /\ job'[j].cursor = job[j].cursor /\ job'[j].token = None
      BY <2>1, <2>2, CancelledRow
    <3>2. Row(j)'
      BY <2>1, <2>2, <3>1, RowFrame DEF Live
    <3> QED
      BY <3>1, <3>2 DEF Live
  <2>3. CASE /\ ReplaceCredentials(c) /\ j \in Of(c) /\ job[j].status # "finished"
             /\ job'[j] = Queued(job[j], conn[c].gen + 1)
    <3>1. /\ job'[j] \in JobRow /\ job'[j].status = "queued" /\ job'[j].why = None
          /\ job'[j].gen = conn[c].gen + 1
          /\ job'[j].cursor = job[j].cursor /\ job'[j].token = None
      BY <1>2, <2>1, <2>3, QueuedRow
    <3>2. Row(j)'
      BY <2>1, <2>3, <3>1, RowFrame
    <3> QED
      BY <1>3, <2>3, <3>1, <3>2 DEF Live, Active, Of
  <2>4. CASE job'[j] = job[j] /\ (Live(j) => j \notin Of(c))
    <3>1. Row(j)'
      BY <1>1, <2>4, RowStands
    <3>2. Live(j)' => Active(j)'
      BY <1>3, <2>1, <2>4 DEF Live, Active, Of, IInv, NoStrandedJob
    <3> QED
      BY <2>1, <2>4, <3>1, <3>2
  <2>5. CASE Disconnect(c)
    <3>1. job'[j] = IF j \in Severed(c) THEN Cancelled(job[j], "connection") ELSE job[j]
      BY <2>5 DEF Disconnect
    <3>2. Live(j) /\ j \in Of(c) => j \in Severed(c)
      BY DEF Severed, IInv, NoStrandedJob, Active, Of
    <3>3. j \in Severed(c) => Live(j)
      BY DEF Severed
    <3> QED
      BY <2>2, <2>4, <3>1, <3>2, <3>3
  <2>6. CASE ReplaceCredentials(c)
    <3>1. job'[j] = IF j \in Revived(c) THEN Queued(job[j], conn[c].gen + 1)
                    ELSE IF j \in OpenImports(Of(c)) THEN Cancelled(job[j], "connection")
                    ELSE job[j]
      BY <2>6 DEF ReplaceCredentials
    <3>2. Live(j) /\ j \in Of(c) => j \in Revived(c) \/ j \in OpenImports(Of(c))
      BY DEF Revived, OpenImports, Job
    <3>3. /\ j \in Revived(c) => j \in Of(c) /\ job[j].status # "finished"
          /\ (j \in OpenImports(Of(c)) => Live(j))
      BY DEF Revived, OpenImports, Live
    <3> QED
      BY <2>2, <2>3, <2>4, <2>6, <3>1, <3>2, <3>3
  <2> QED
    BY <2>5, <2>6
<1>5. TypeOK'
  <2>1. DOMAIN job' = Job /\ job' = [j \in Job |-> job'[j]]
    BY DEF Disconnect, ReplaceCredentials
  <2>2. job' \in [Job -> JobRow]
    BY <1>4, <2>1
  <2> QED
    BY <1>1, <1>3, <2>2 DEF IInv, TypeOK
<1>6. NoStrandedJob'
  BY <1>4 DEF NoStrandedJob
<1>7. \A j \in Job : job'[j].status = "running" /\ job'[j].left > 0 => Busy(j, 0)
  BY <1>4, BusyStands DEF IInv
<1>8. \A j \in Job : job'[j].token # None =>
        /\ job'[j].token = job[j].token
        /\ job[j].status = "running" =>
             job'[j].status = "running" /\ job'[j].cursor = job[j].cursor
  BY <1>4
<1> QED
  BY <1>1, <1>4, <1>5, <1>6, <1>7, <1>8, OwnerFrame

LEMMA RoutingKeeps ==
  ASSUME IInv, NEW c \in Conn, SaveRouting(c)
  PROVE  IInv'
<1>1. UNCHANGED <<job, worker, assigned, ledger, noted>>
  BY DEF SaveRouting
<1>2. conn' \in [Conn -> ConnRow]
      /\ \A d \in Conn : conn'[d].active = conn[d].active /\ conn'[d].gen = conn[d].gen
  <2>1. PICK r \in Routing : conn' = [conn EXCEPT ![c].route = r]
    BY DEF SaveRouting
  <2>2. r \in Target \union {Exclusive, None}
    BY ProviderAssumption
  <2> QED
    BY <2>1, <2>2 DEF IInv, TypeOK, ConnRow
<1>3. TypeOK'
  BY <1>1, <1>2 DEF IInv, TypeOK
<1>4. \A j \in Job : Row(j)'
  BY <1>1, RowStands
<1>5. NoStrandedJob'
  BY <1>1, <1>2, Values DEF IInv, NoStrandedJob, Live, Active
<1>6. \A j \in Job : job'[j].status = "running" /\ job'[j].left > 0 => Busy(j, 0)
  BY <1>1, BusyStands DEF IInv
<1> QED
  BY <1>1, <1>3, <1>4, <1>5, <1>6, OwnerFrame

LEMMA TickKeeps == IInv /\ Tick => IInv'
<1> SUFFICES ASSUME IInv, Tick PROVE IInv'
  OBVIOUS
<1>1. UNCHANGED <<conn, worker, assigned, ledger, noted>>
  BY DEF Tick
<1>2. ASSUME NEW j \in Job
      PROVE  /\ job'[j] \in JobRow /\ job'[j].left <= job[j].left
             /\ job'[j].status = job[j].status /\ job'[j].why = job[j].why
             /\ job'[j].gen = job[j].gen /\ job'[j].cursor = job[j].cursor
             /\ job'[j].token = job[j].token
             /\ job[j].left \in Int /\ job'[j].left \in Int
  <2>1. job'[j] = [job[j] EXCEPT !.left = Sooner(job[j].left), !.retry = Sooner(job[j].retry)]
    BY DEF Tick
  <2>2. job[j] \in JobRow
    BY DEF IInv, TypeOK
  <2>3. ASSUME NEW m \in Nat, NEW n \in Gone..m
        PROVE  Sooner(n) \in Gone..m /\ Sooner(n) <= n /\ n \in Int
    BY Values DEF Sooner
  <2>4. /\ Sooner(job[j].left) \in Gone..Lease /\ Sooner(job[j].left) <= job[j].left
        /\ Sooner(job[j].retry) \in Gone..Backoff
        /\ job[j].left \in Int
    BY <2>2, <2>3, Values DEF JobRow
  <2>5. Sooner(job[j].left) \in Int
    BY <2>4, Values
  <2> QED
    BY <2>1, <2>2, <2>4, <2>5 DEF JobRow
<1>3. TypeOK'
  <2>1. DOMAIN job' = Job /\ job' = [j \in Job |-> job'[j]]
    BY DEF Tick
  <2>2. job' \in [Job -> JobRow]
    BY <1>2, <2>1
  <2> QED
    BY <1>1, <2>2 DEF IInv, TypeOK
<1>4. ASSUME NEW j \in Job PROVE Row(j)'
  <2>1. Row(j) /\ Grows
    BY <1>1, StoresStand DEF IInv, Rows
  <2> QED
    BY <1>2, <2>1, RowFrame DEF Row
<1>5. NoStrandedJob'
  BY <1>1, <1>2 DEF IInv, NoStrandedJob, Live, Active
<1>6. \A j \in Job : job'[j].status = "running" /\ job'[j].left > 0 => Busy(j, 0)
  BY <1>2 DEF Busy
<1> QED
  BY <1>1, <1>2, <1>3, <1>4, <1>5, <1>6, OwnerFrame
-----------------------------------------------------------------------------
\* A worker comes and goes.
LEMMA OtherRuns ==
  ASSUME IInv, Grows, NEW x \in Worker, worker'[x] = worker[x],
         \A j \in Job : job'[j] = job[j] \/ job'[j].token # x
  PROVE  Running(x)'
<1>1. Running(x) /\ TypeOK
  BY DEF IInv, Workers
<1>2. worker[x].pc \in Busyness => worker[x].job \in Job
  BY <1>1 DEF Running, Busyness, AtResource, Writing
<1> QED
  BY <1>1, <1>2, RunningFrame

LEMMA EndKeeps ==
  ASSUME IInv, NEW w \in Worker, Release(w) \/ Die(w)
  PROVE  IInv'
<1>1. /\ UNCHANGED <<conn, assigned, ledger, noted>>
      /\ worker' = [worker EXCEPT ![w] = Idle]
  BY DEF Release, Die
<1>2. ASSUME NEW j \in Job
      PROVE  job'[j] = job[j] \/ job'[j] = Freed(job[j])
  BY DEF Release, Die, IInv, TypeOK
<1>3. job' \in [Job -> JobRow]
  <2>1. CASE job' = job
    BY <2>1 DEF IInv, TypeOK
  <2>2. CASE job' # job
    <3> DEFINE j == worker[w].job
    <3>1. job' = [job EXCEPT ![j] = Freed(@)]
      BY <2>2 DEF Release, Die
    <3>2. j \in Job => Freed(job[j]) \in JobRow
      BY FreedRow DEF IInv, TypeOK
    <3> HIDE DEF j
    <3> QED
      BY <3>1, <3>2 DEF IInv, TypeOK
  <2> QED
    BY <2>1, <2>2
<1>4. TypeOK'
  BY <1>1, <1>3, Fresh DEF IInv, TypeOK
<1>5. ASSUME NEW j \in Job
      PROVE  /\ job'[j].status = job[j].status /\ job'[j].why = job[j].why
             /\ job'[j].gen = job[j].gen /\ job'[j].cursor = job[j].cursor
             /\ \/ job'[j] = job[j]
                \/ job'[j].token = None /\ job'[j].left = Gone
  <2>1. job[j] \in JobRow
    BY DEF IInv, TypeOK
  <2>2. CASE job'[j] = job[j]
    BY <2>2
  <2>3. CASE job'[j] = Freed(job[j])
    BY <2>1, <2>3, FreedRow
  <2> QED
    BY <1>2, <2>2, <2>3
<1>6. Grows
  BY <1>1, StoresStand
<1>7. Rows'
  BY <1>5, <1>6, RowFrame DEF IInv, Rows, Row
<1>8. Workers'
  <2>1. worker'[w].pc = "idle"
    BY <1>1, Fresh DEF IInv, TypeOK
  <2>2. Running(w)'
    BY <2>1 DEF Running, Holder, Todo, Listing, Busyness, AtResource, Writing
  <2>3. ASSUME NEW x \in Worker \ {w} PROVE Running(x)'
    BY <1>1, <1>5, <1>6, OtherRuns, Values DEF IInv, TypeOK
  <2> QED
    BY <2>2, <2>3 DEF Workers
<1>9. Exclusively' /\ TwoAtMost'
  <2>1. \A j \in Job : job'[j].status = "running" /\ job'[j].left > 0 => Busy(j, 0)
    <3>1. ~(Gone > 0)
      BY Values DEF Gone
    <3> QED
      BY <1>5, <3>1, BusyStands DEF IInv
  <2> QED
    BY <1>4, <2>1, LeasesFrame
<1>10. NoStrandedJob'
  BY <1>1, <1>5 DEF IInv, NoStrandedJob, Live, Active
<1>11. OneDestination' /\ RefundsHaveOriginals'
  BY <1>1 DEF IInv, OneDestination, RefundsHaveOriginals
<1> QED
  BY <1>4, <1>7, <1>8, <1>9, <1>10, <1>11 DEF IInv

\* A claim sees no other lease of the connection, by a clock that may be late.
LEMMA ClaimKeeps ==
  ASSUME IInv, NEW w \in Worker, NEW j \in Job, Claim(w, j)
  PROVE  IInv'
<1>1. /\ UNCHANGED <<conn, assigned, ledger, noted>>
      /\ worker[w] = Idle
      /\ worker' = [worker EXCEPT ![w] =
           [Idle EXCEPT !.pc = "open", !.job = j, !.gen = job[j].gen,
                        !.cursor = job[j].cursor]]
  BY DEF Claim
<1>2. PICK d \in Late :
        /\ Claimable(j, d)
        /\ job' = [job EXCEPT ![j].status = "running", ![j].token = w, ![j].left = Lease - d]
  BY DEF Claim
<1>3. job[j] \in JobRow /\ d \in 0..Delay /\ d \in Int
  BY Values DEF IInv, TypeOK, Late
<1>4. /\ job'[j] \in JobRow /\ job'[j].status = "running" /\ job'[j].token = w
      /\ job'[j].why = job[j].why /\ job'[j].cursor = job[j].cursor
      /\ job'[j].gen = job[j].gen
      /\ \A k \in Job \ {j} : job'[k] = job[k]
  <2>1. Lease - d \in Gone..Lease
    BY <1>3, Values DEF Gone
  <2> QED
    BY <1>2, <1>3, <2>1 DEF IInv, TypeOK, JobRow
<1>5. /\ worker'[w] \in Local /\ worker'[w].pc = "open" /\ worker'[w].job = j
      /\ worker'[w].cursor = job[j].cursor
      /\ \A x \in Worker \ {w} : worker'[x] = worker[x]
  BY <1>1, <1>3, Fresh DEF IInv, TypeOK, Local, JobRow
<1>6. TypeOK'
  BY <1>1, <1>2, <1>4, <1>5 DEF IInv, TypeOK
<1>7. job[j].status \in {"queued", "running"} /\ Active(j)
  BY <1>2 DEF Claimable
<1>8. Grows
  BY <1>1, StoresStand
<1>9. Rows'
  <2>1. Row(j)'
    BY <1>4, <1>7, <1>8, RowFrame DEF IInv, Rows, Row
  <2>2. \A k \in Job \ {j} : Row(k)'
    BY <1>1, <1>4, RowStands
  <2> QED
    BY <2>1, <2>2 DEF Rows
<1>10. Workers'
  <2>1. Running(w)'
    <3>1. (Placed(j, job[j].cursor) /\ Behind(j, job[j].cursor))'
      BY <1>4, <1>9 DEF Rows, Row
    <3>2. (worker[w].pc # "idle" => worker[w].job \in Job
             /\ Placed(worker[w].job, worker[w].cursor)
             /\ Behind(worker[w].job, worker[w].cursor))'
      BY <1>4, <1>5, <3>1
    <3>3. Holder(w)'
      BY <1>4, <1>5 DEF Holder
    <3>4. Todo(w)' /\ Listing(w)'
      BY <1>5 DEF Todo, Listing, AtResource, Writing
    <3> QED
      BY <3>2, <3>3, <3>4 DEF Running
  <2>2. ASSUME NEW x \in Worker \ {w} PROVE Running(x)'
    BY <1>4, <1>5, <1>8, OtherRuns
  <2> QED
    BY <2>1, <2>2 DEF Workers
<1>11. ASSUME NEW k \in Job \ {j}, Busy(k, 0)' PROVE Busy(k, d) /\ Busy(k, 0)
  <2>1. job[k].left \in Int
    BY Values DEF IInv, TypeOK, JobRow
  <2> QED
    BY <1>3, <1>4, <1>11, <2>1 DEF Busy
<1>12. Exclusively'
  <2>1. \A k \in Job \ {j} : ConnOf[k] = ConnOf[j] => ~Busy(k, 0)'
    BY <1>2, <1>11 DEF Claimable, Of
  <2> QED
    BY <1>11, <2>1 DEF IInv, Exclusively
<1>13. TwoAtMost'
  <2> SUFFICES ASSUME NEW c \in Conn PROVE Cardinality({k \in In(c) : Busy(k, 0)'}) <= 2
    BY DEF TwoAtMost, In
  <2> DEFINE new == {k \in In(c) : Busy(k, 0)'}
             old == {k \in In(c) : Busy(k, 0)}
             seen == {k \in In(ConnOf[j]) \ {j} : Busy(k, d)}
  <2>1. old \subseteq Job /\ seen \subseteq Job /\ new \subseteq Job
    BY DEF In
  <2>2. IsFiniteSet(old) /\ IsFiniteSet(seen) /\ IsFiniteSet(new)
    BY <2>1, ProviderAssumption, FS_Subset
  <2>3. CASE j \notin In(c)
    <3>1. new \subseteq old
      BY <1>11, <2>3 DEF In
    <3>2. Cardinality(old) \in Nat /\ Cardinality(new) \in Nat /\ Cardinality(old) <= 2
      BY <2>2, FS_CardinalityType DEF IInv, TwoAtMost
    <3>3. Cardinality(new) <= Cardinality(old)
      BY <2>2, <3>1, FS_Subset
    <3> QED
      BY <3>2, <3>3
  <2>4. CASE j \in In(c)
    <3>1. In(c) = In(ConnOf[j])
      BY <2>4 DEF In
    <3>2. new \subseteq seen \union {j}
      BY <1>11, <3>1 DEF In
    <3>3. Cardinality(seen) < 2 /\ j \notin seen
      BY <1>2 DEF Claimable
    <3>4. IsFiniteSet(seen \union {j}) /\ Cardinality(seen \union {j}) = Cardinality(seen) + 1
      BY <2>2, <3>3, FS_AddElement
    <3>5. Cardinality(seen) \in Nat /\ Cardinality(new) \in Nat
      BY <2>2, FS_CardinalityType
    <3>6. Cardinality(new) <= Cardinality(seen \union {j})
      BY <3>2, <3>4, FS_Subset
    <3> HIDE DEF new, seen
    <3>7. Cardinality(new) <= 2
      BY <3>3, <3>4, <3>5, <3>6
    <3> QED
      BY <3>7 DEF new
  <2> QED
    BY <2>3, <2>4
<1>14. NoStrandedJob'
  BY <1>1, <1>4, <1>7 DEF IInv, NoStrandedJob, Live, Active
<1>15. OneDestination' /\ RefundsHaveOriginals'
  BY <1>1 DEF IInv, OneDestination, RefundsHaveOriginals
<1> QED
  BY <1>6, <1>9, <1>10, <1>12, <1>13, <1>14, <1>15 DEF IInv
-----------------------------------------------------------------------------
\* Moves of a slice that leave the rows alone.
LEMMA AtWork ==
  ASSUME IInv, NEW w \in Worker, worker[w].pc \in Busyness
  PROVE  /\ worker[w] \in Local /\ worker[w].job \in Job /\ ConnOf[worker[w].job] \in Conn
         /\ Placed(worker[w].job, worker[w].cursor) /\ Behind(worker[w].job, worker[w].cursor)
         /\ Holder(w) /\ Todo(w) /\ Listing(w)
<1>1. Running(w) /\ worker[w] \in Local
  BY DEF IInv, Workers, TypeOK
<1>2. worker[w].pc # "idle"
  BY DEF Busyness, AtResource, Writing
<1> QED
  BY <1>1, <1>2, Values DEF Running

LEMMA FactType ==
  ASSUME IInv, NEW w \in Worker, worker[w].pc \in Writing \union {"remember", "issue"}
  PROVE  /\ Fact(w) \in Resource /\ Transaction(Fact(w)) \in Payment
         /\ Pair(worker[w].todo) \/ worker[w].todo = <<Fact(w)>>
<1>1. Todo(w)
  BY AtWork DEF Busyness, AtResource
<1>2. \/ Pair(worker[w].todo)
      \/ \E r \in Resource : worker[w].todo = <<r>>
  BY <1>1, Values DEF Todo
<1>3. CASE Pair(worker[w].todo)
  <2>1. Fact(w) \in Payment
    BY <1>3, Values DEF Pair, Fact
  <2> QED
    BY <1>3, <2>1, Values DEF Transaction
<1>4. CASE \E r \in Resource : worker[w].todo = <<r>>
  <2>1. Fact(w) \in Resource /\ worker[w].todo = <<Fact(w)>>
    BY <1>4 DEF Fact
  <2> QED
    BY <2>1, Values DEF Transaction, Resource
<1> QED
  BY <1>2, <1>3, <1>4

LEMMA WorkerFrame ==
  ASSUME IInv, NEW w \in Worker, TypeOK', UNCHANGED <<conn, job>>, Grows,
         \A x \in Worker \ {w} : worker'[x] = worker[x],
         Running(w)', OneDestination', RefundsHaveOriginals'
  PROVE  IInv'
<1>1. Rows'
  BY RowFrame DEF IInv, Rows, Row
<1>2. Workers'
  BY OtherRuns DEF Workers
<1>3. Exclusively' /\ TwoAtMost'
  <2>1. \A j \in Job : job'[j].status = "running" /\ job'[j].left > 0 => Busy(j, 0)
    BY BusyStands DEF IInv
  <2> QED
    BY <2>1, LeasesFrame
<1>4. NoStrandedJob'
  BY DEF IInv, NoStrandedJob, Live, Active
<1> QED
  BY <1>1, <1>2, <1>3, <1>4 DEF IInv

\* The slice goes on with the same resource.
LEMMA Stays ==
  ASSUME IInv, NEW w \in Worker, TypeOK', UNCHANGED <<conn, job>>, Grows,
         worker[w].pc \in Busyness,
         \A x \in Worker \ {w} : worker'[x] = worker[x],
         worker'[w].job = worker[w].job, worker'[w].cursor = worker[w].cursor,
         Todo(w)', Listing(w)', OneDestination', RefundsHaveOriginals'
  PROVE  IInv'
<1>1. /\ worker[w].job \in Job /\ ConnOf[worker[w].job] \in Conn
      /\ Placed(worker[w].job, worker[w].cursor) /\ Behind(worker[w].job, worker[w].cursor)
      /\ Holder(w)
  BY AtWork
<1>2. (Placed(worker[w].job, worker[w].cursor) /\ Behind(worker[w].job, worker[w].cursor))'
  BY <1>1 DEF Placed, Behind, Grows, Settled, SettledAfter
<1>3. Holder(w)'
  BY <1>1 DEF Holder
<1>4. Running(w)'
  BY <1>1, <1>2, <1>3 DEF Running
<1> QED
  BY <1>4, WorkerFrame

\* The slice gives up.
LEMMA Leaves ==
  ASSUME IInv, NEW w \in Worker, worker[w].pc # "idle", Leave(w),
         UNCHANGED <<conn, job, assigned, ledger, noted>>
  PROVE  IInv'
<1>1. worker[w].job \in Job
  BY DEF IInv, Workers, Running
<1>2. /\ worker' \in [Worker -> Local]
      /\ worker'[w].pc = "release" /\ worker'[w].job = worker[w].job
      /\ worker'[w].cursor = Start
      /\ \A x \in Worker \ {w} : worker'[x] = worker[x]
  <2>1. Idle \in Local /\ Idle.cursor = Start
    BY Fresh DEF Idle
  <2>2. worker \in [Worker -> Local]
    BY DEF IInv, TypeOK
  <2> QED
    BY <1>1, <2>1, <2>2 DEF Leave, Local
<1>3. TypeOK' /\ Grows
  BY <1>2, StoresStand DEF IInv, TypeOK
<1>4. Running(w)'
  <2>1. (Placed(worker[w].job, worker[w].cursor) /\ Behind(worker[w].job, worker[w].cursor))'
    BY <1>2, Cursors, Listings, PassedEnds DEF Placed, Behind
  <2> QED
    BY <1>1, <1>2, <2>1 DEF Running, Holder, Todo, Listing, Busyness, AtResource, Writing
<1>5. OneDestination' /\ RefundsHaveOriginals'
  BY DEF IInv, OneDestination, RefundsHaveOriginals
<1> QED
  BY <1>2, <1>3, <1>4, <1>5, WorkerFrame

LEMMA WorkerMoves ==
  ASSUME TypeOK, NEW w \in Worker, NEW u \in Local, worker' = [worker EXCEPT ![w] = u]
  PROVE  /\ worker' \in [Worker -> Local] /\ worker'[w] = u
         /\ \A x \in Worker \ {w} : worker'[x] = worker[x]
  BY DEF TypeOK

LEMMA OpenKeeps ==
  ASSUME IInv, NEW w \in Worker, Open(w)
  PROVE  IInv'
<1>1. /\ worker[w].pc = "open" /\ worker[w].pc \in Busyness
      /\ UNCHANGED <<conn, job, assigned, ledger, noted>>
  BY DEF Open, Busyness
<1>2. CASE Current(w)
  <2>1. PICK m \in {Exclusive, "products"} :
          worker' = [worker EXCEPT ![w].pc = "loop", ![w].mode = m]
    BY <1>2 DEF Open
  <2>2. /\ worker' \in [Worker -> Local]
        /\ worker'[w].pc = "loop"
        /\ worker'[w].job = worker[w].job /\ worker'[w].cursor = worker[w].cursor
        /\ \A x \in Worker \ {w} : worker'[x] = worker[x]
    <3> DEFINE u == [worker[w] EXCEPT !.pc = "loop", !.mode = m]
    <3>1. worker[w] \in Local
      BY DEF IInv, TypeOK
    <3>2. u \in Local /\ u.pc = "loop" /\ u.job = worker[w].job /\ u.cursor = worker[w].cursor
      BY <3>1 DEF Local
    <3>3. worker' = [worker EXCEPT ![w] = u]
      BY <2>1
    <3> HIDE DEF u
    <3> QED
      BY <3>2, <3>3, WorkerMoves DEF IInv
  <2>3. TypeOK' /\ Grows
    BY <1>1, <2>2, StoresStand DEF IInv, TypeOK
  <2>4. Todo(w)' /\ Listing(w)'
    BY <2>2 DEF Todo, Listing, AtResource, Writing
  <2>5. OneDestination' /\ RefundsHaveOriginals'
    BY <1>1 DEF IInv, OneDestination, RefundsHaveOriginals
  <2> QED
    BY <1>1, <2>2, <2>3, <2>4, <2>5, Stays
<1>3. CASE ~Current(w)
  BY <1>1, <1>3, Leaves DEF Open
<1> QED
  BY <1>2, <1>3

LEMMA FailsKeeps ==
  ASSUME IInv, NEW w \in Worker, worker[w].pc = "loop", Fails(w),
         UNCHANGED <<conn, assigned, ledger, noted>>
  PROVE  IInv'
<1>1. PICK f \in Failures : worker' = [worker EXCEPT ![w].pc = "failed", ![w].fault = f]
  BY DEF Fails
<1>2. /\ worker' \in [Worker -> Local]
      /\ worker'[w].pc = "failed"
      /\ worker'[w].job = worker[w].job /\ worker'[w].cursor = worker[w].cursor
      /\ \A x \in Worker \ {w} : worker'[x] = worker[x]
  <2> DEFINE u == [worker[w] EXCEPT !.pc = "failed", !.fault = f]
  <2>1. worker[w] \in Local
    BY DEF IInv, TypeOK
  <2>2. u \in Local /\ u.pc = "failed" /\ u.job = worker[w].job /\ u.cursor = worker[w].cursor
    BY <2>1 DEF Local
  <2>3. worker' = [worker EXCEPT ![w] = u]
    BY <1>1
  <2> HIDE DEF u
  <2> QED
    BY <2>2, <2>3, WorkerMoves DEF IInv
<1>3. TypeOK' /\ Grows /\ UNCHANGED job
  BY <1>2, StoresStand DEF IInv, TypeOK, Fails
<1>4. Todo(w)' /\ Listing(w)'
  BY <1>2 DEF Todo, Listing, AtResource, Writing
<1>5. OneDestination' /\ RefundsHaveOriginals' /\ worker[w].pc \in Busyness
  BY DEF IInv, OneDestination, RefundsHaveOriginals, Busyness
<1> QED
  BY <1>2, <1>3, <1>4, <1>5, Stays

LEMMA FactsOf ==
  ASSUME NEW r \in Resource
  PROVE  /\ Facts(r) \in Seq(Resource) /\ Facts(r)[Len(Facts(r))] = r
         /\ Pair(Facts(r)) \/ \E p \in Payment : Facts(r) = <<p>>
  BY ShortLists, Values DEF Facts, Pair, Resource

LEMMA SameAt ==
  ASSUME NEW w \in Worker,
         worker'[w].job = worker[w].job, worker'[w].cursor = worker[w].cursor
  PROVE  At(w)' = At(w) /\ (Listed(worker[w].cursor)' <=> Listed(worker[w].cursor))
<1>1. Page(worker[w].cursor)' = Page(worker[w].cursor)
  BY DEF Page
<1> QED
  BY <1>1 DEF At, Listed

\* A fetched resource: what the slice does with it next.
LEMMA ProcessedKeeps ==
  ASSUME IInv, NEW w \in Worker, worker[w].pc = "loop",
         worker[w].job \in Import => worker[w].cursor.loaded /\ Listed(worker[w].cursor),
         NEW pc, NEW todo \in Seq(Resource), NEW reason \in BOOLEAN,
         \/ pc = "advance" /\ (worker[w].job \in Import => At(w) \in Filtered)
         \/ pc = "assign" /\ todo = Facts(At(w)) /\ At(w) \in Resource
         \/ pc = "remember" /\ todo = <<At(w)>> /\ At(w) \in Resource /\ reason
         \/ pc = "issue" /\ todo = <<At(w)>> /\ At(w) \in Resource,
         worker' = [worker EXCEPT ![w].pc = pc, ![w].todo = todo, ![w].reason = reason],
         UNCHANGED <<conn, job, assigned, ledger, noted>>
  PROVE  IInv'
<1>1. /\ worker' \in [Worker -> Local]
      /\ worker'[w].pc = pc /\ worker'[w].todo = todo /\ worker'[w].reason = reason
      /\ worker'[w].job = worker[w].job /\ worker'[w].cursor = worker[w].cursor
      /\ \A x \in Worker \ {w} : worker'[x] = worker[x]
  <2> DEFINE u == [worker[w] EXCEPT !.pc = pc, !.todo = todo, !.reason = reason]
  <2>1. worker[w] \in Local
    BY DEF IInv, TypeOK
  <2>2. pc \in {"advance", "assign", "remember", "issue"}
    OBVIOUS
  <2>3. /\ u \in Local /\ u.pc = pc /\ u.todo = todo /\ u.reason = reason
        /\ u.job = worker[w].job /\ u.cursor = worker[w].cursor
    BY <2>1, <2>2 DEF Local
  <2>4. worker' = [worker EXCEPT ![w] = u]
    OBVIOUS
  <2> HIDE DEF u
  <2> QED
    BY <2>3, <2>4, WorkerMoves DEF IInv
<1>2. TypeOK' /\ Grows
  BY <1>1, StoresStand DEF IInv, TypeOK
<1>3. Todo(w)'
  <2>1. CASE pc = "advance"
    BY <1>1, <2>1 DEF Todo, Writing
  <2>2. CASE pc = "assign" /\ todo = Facts(At(w)) /\ At(w) \in Resource
    BY <1>1, <2>2, FactsOf DEF Todo, Writing
  <2>3. CASE pc = "remember" /\ todo = <<At(w)>> /\ At(w) \in Resource /\ reason
    BY <1>1, <2>3 DEF Todo, Writing
  <2>4. CASE pc = "issue" /\ todo = <<At(w)>> /\ At(w) \in Resource
    BY <1>1, <2>4 DEF Todo, Writing
  <2> QED
    BY <2>1, <2>2, <2>3, <2>4
<1>4. Listing(w)'
  <2>1. At(w)' = At(w) /\ (Listed(worker[w].cursor)' <=> Listed(worker[w].cursor))
    BY <1>1, SameAt
  <2>2. pc = "assign" => todo[Len(todo)] = At(w)
    BY FactsOf
  <2>3. pc \in {"remember", "issue"} => todo[Len(todo)] = At(w)
    <3>1. <<At(w)>>[Len(<<At(w)>>)] = At(w)
      OBVIOUS
    <3> QED
      BY <3>1
  <2>4. pc = "advance" => (worker[w].job \in Import => At(w) \in Filtered)
    OBVIOUS
  <2> QED
    BY <1>1, <2>1, <2>2, <2>3, <2>4 DEF Listing
<1>5. OneDestination' /\ RefundsHaveOriginals' /\ worker[w].pc \in Busyness
  BY DEF IInv, OneDestination, RefundsHaveOriginals, Busyness
<1> QED
  BY <1>1, <1>2, <1>3, <1>4, <1>5, Stays

LEMMA FetchResourceKeeps ==
  ASSUME IInv, NEW w \in Worker, FetchResource(w)
  PROVE  IInv'
<1> DEFINE v == worker[w]
<1>1. /\ v.pc = "loop" /\ UNCHANGED <<conn, job, assigned, ledger, noted>>
      /\ v.cursor.phase = "resource" \/ (v.cursor.loaded /\ Listed(v.cursor))
  BY DEF FetchResource
<1>2. v \in Local /\ v.job \in Job /\ Placed(v.job, v.cursor)
  BY <1>1, AtWork DEF Busyness
<1>3. v.job \in Import => v.cursor.loaded /\ Listed(v.cursor)
  BY <1>1, <1>2 DEF Placed
<1>4. At(w) \in Resource
  <2>1. CASE v.job \in Webhook
    BY <2>1, ProviderAssumption DEF At
  <2>2. CASE v.job \notin Webhook
    <3>1. v.job \in Import
      BY <1>2, <2>2 DEF Job
    <3>2. /\ v.cursor.phase \in DOMAIN Pages
          /\ v.cursor.page \in 1..Len(Pages[v.cursor.phase])
          /\ v.cursor.offset \in Nat
      BY <1>2, <1>3, <3>1 DEF Placed, Local, Cursor
    <3>3. v.cursor.offset + 1 \in 1..Len(Page(v.cursor))
      <4>1. Len(Page(v.cursor)) \in Nat
        BY <3>2, Listings DEF Page
      <4> QED
        BY <1>3, <3>1, <3>2, <4>1 DEF Listed
    <3> QED
      BY <2>2, <3>2, <3>3, Listings DEF At, Page
  <2> QED
    BY <2>1, <2>2
<1>5. <<>> \in Seq(Resource) /\ Facts(At(w)) \in Seq(Resource) /\ <<At(w)>> \in Seq(Resource)
  BY <1>4, FactsOf, ShortLists
<1>6. \/ /\ v.job \in Import /\ At(w) \in Filtered
         /\ worker' = [worker EXCEPT ![w].pc = "advance", ![w].todo = <<>>, ![w].reason = FALSE]
      \/ worker' = [worker EXCEPT ![w].pc = "assign", ![w].todo = Facts(At(w)),
                                  ![w].reason = FALSE]
      \/ worker' = [worker EXCEPT ![w].pc = "remember", ![w].todo = <<At(w)>>,
                                  ![w].reason = TRUE]
      \/ worker' = [worker EXCEPT ![w].pc = "issue", ![w].todo = <<At(w)>>,
                                  ![w].reason = TRUE]
      \/ Fails(w)
  BY DEF FetchResource
<1>7. CASE v.job \in Import /\ At(w) \in Filtered
           /\ worker' = [worker EXCEPT ![w].pc = "advance", ![w].todo = <<>>,
                                       ![w].reason = FALSE]
  BY <1>1, <1>3, <1>5, <1>7, ProcessedKeeps
<1>8. CASE worker' = [worker EXCEPT ![w].pc = "assign", ![w].todo = Facts(At(w)),
                                    ![w].reason = FALSE]
  BY <1>1, <1>3, <1>4, <1>5, <1>8, ProcessedKeeps
<1>9. CASE worker' = [worker EXCEPT ![w].pc = "remember", ![w].todo = <<At(w)>>,
                                    ![w].reason = TRUE]
  BY <1>1, <1>3, <1>4, <1>5, <1>9, ProcessedKeeps
<1>10. CASE worker' = [worker EXCEPT ![w].pc = "issue", ![w].todo = <<At(w)>>,
                                     ![w].reason = TRUE]
  BY <1>1, <1>3, <1>4, <1>5, <1>10, ProcessedKeeps
<1>11. CASE Fails(w)
  BY <1>1, <1>11, FailsKeeps
<1> QED
  BY <1>6, <1>7, <1>8, <1>9, <1>10, <1>11

\* What a slice is at while it records a fact, and the same after a move of it.
LEMMA SameListing ==
  ASSUME IInv, NEW w \in Worker, worker[w].pc \in AtResource \ {"advance"},
         worker'[w].job = worker[w].job, worker'[w].cursor = worker[w].cursor,
         worker'[w].todo = worker[w].todo, worker'[w].pc \in AtResource \ {"advance"}
  PROVE  Listing(w)'
<1>1. Listing(w)
  BY AtWork DEF Busyness
<1>2. At(w)' = At(w) /\ (Listed(worker[w].cursor)' <=> Listed(worker[w].cursor))
  BY SameAt
<1> QED
  BY <1>1, <1>2 DEF Listing

LEMMA LookUpKeeps ==
  ASSUME IInv, NEW w \in Worker, LookUp(w)
  PROVE  IInv'
<1> DEFINE v == worker[w]
           c == ConnOf[v.job]
           there == assigned[c][Transaction(Fact(w))]
<1>1. /\ v.pc = "assign" /\ v.pc \in Busyness /\ v.pc \in Writing
      /\ UNCHANGED <<conn, job, assigned, ledger, noted>>
  BY DEF LookUp, Busyness, AtResource, Writing
<1>2. v \in Local /\ v.job \in Job /\ c \in Conn /\ Todo(w)
  BY <1>1, AtWork
<1>3. there \in Target \union {None}
  BY <1>1, <1>2, FactType DEF IInv, TypeOK
<1>4. Destination(w) \in Target \union {None}
  BY <1>2, ProviderAssumption DEF Destination
<1>5. PICK u \in Local :
        /\ worker' = [worker EXCEPT ![w] = u]
        /\ u.job = v.job /\ u.cursor = v.cursor /\ u.todo = v.todo
        /\ \/ u.pc \in {"write", "insert"} /\ u.target # None
           \/ u.pc = "remember" /\ u.reason
  <2>1. CASE there # None
    <3> DEFINE u == [v EXCEPT !.pc = "write", !.target = there]
    <3>1. worker' = [worker EXCEPT ![w] = u]
      BY <2>1 DEF LookUp
    <3>2. /\ u \in Local /\ u.pc = "write" /\ u.target = there
          /\ u.job = v.job /\ u.cursor = v.cursor /\ u.todo = v.todo
      BY <1>2, <1>3 DEF Local
    <3> HIDE DEF u
    <3> QED
      BY <2>1, <3>1, <3>2
  <2>2. CASE there = None /\ Destination(w) # None
    <3> DEFINE u == [v EXCEPT !.pc = "insert", !.target = Destination(w)]
    <3>1. worker' = [worker EXCEPT ![w] = u]
      BY <2>2 DEF LookUp
    <3>2. /\ u \in Local /\ u.pc = "insert" /\ u.target = Destination(w)
          /\ u.job = v.job /\ u.cursor = v.cursor /\ u.todo = v.todo
      BY <1>2, <1>4 DEF Local
    <3> HIDE DEF u
    <3> QED
      BY <2>2, <3>1, <3>2
  <2>3. CASE there = None /\ Destination(w) = None
    <3> DEFINE u == [v EXCEPT !.pc = "remember", !.reason = TRUE]
    <3>1. worker' = [worker EXCEPT ![w] = u]
      BY <2>3 DEF LookUp
    <3>2. /\ u \in Local /\ u.pc = "remember" /\ u.reason
          /\ u.job = v.job /\ u.cursor = v.cursor /\ u.todo = v.todo
      BY <1>2 DEF Local
    <3> HIDE DEF u
    <3> QED
      BY <3>1, <3>2
  <2> QED
    BY <2>1, <2>2, <2>3
<1>6. /\ worker' \in [Worker -> Local] /\ worker'[w] = u
      /\ \A x \in Worker \ {w} : worker'[x] = worker[x]
  BY <1>5, WorkerMoves DEF IInv
<1>7. TypeOK' /\ Grows
  BY <1>1, <1>6, StoresStand DEF IInv, TypeOK
<1>8. Todo(w)'
  BY <1>1, <1>2, <1>5, <1>6, Values DEF Todo, Writing
<1>9. Listing(w)'
  BY <1>1, <1>5, <1>6, SameListing DEF AtResource, Writing
<1>10. OneDestination' /\ RefundsHaveOriginals'
  BY <1>1 DEF IInv, OneDestination, RefundsHaveOriginals
<1> QED
  BY <1>1, <1>5, <1>6, <1>7, <1>8, <1>9, <1>10, Stays

LEMMA InsertAssignmentKeeps ==
  ASSUME IInv, NEW w \in Worker, InsertAssignment(w)
  PROVE  IInv'
<1> DEFINE v == worker[w]
           c == ConnOf[v.job]
           t == Transaction(Fact(w))
<1>1. /\ v.pc = "insert" /\ v.pc \in Busyness /\ v.pc \in Writing
      /\ UNCHANGED <<conn, job, ledger, noted>>
  BY DEF InsertAssignment, Busyness, AtResource, Writing
<1>2. v \in Local /\ v.job \in Job /\ c \in Conn /\ Todo(w) /\ t \in Payment
  BY <1>1, AtWork, FactType
<1>3. v.target \in Target
  BY <1>1, <1>2 DEF Todo, Local
<1>4. \/ assigned' = assigned
      \/ assigned' = [assigned EXCEPT ![c][t] = v.target] /\ assigned[c][t] = None
  BY DEF InsertAssignment
<1>5. assigned' \in [Conn -> [Payment -> Target \union {None}]]
  <2>1. assigned \in [Conn -> [Payment -> Target \union {None}]]
    BY DEF IInv, TypeOK
  <2> HIDE DEF c, t, v
  <2>2. CASE assigned' = [assigned EXCEPT ![c][t] = v.target]
    BY <1>2, <1>3, <2>1, <2>2
  <2> QED
    BY <1>4, <2>1, <2>2
<1>6. \A d \in Conn, p \in Payment :
        assigned[d][p] # None => assigned'[d][p] = assigned[d][p]
  BY <1>2, <1>4 DEF IInv, TypeOK
<1>7. PICK u \in Local :
        /\ worker' = [worker EXCEPT ![w] = u]
        /\ u.job = v.job /\ u.cursor = v.cursor /\ u.todo = v.todo
        /\ \/ u.pc = "write" /\ u.target # None
           \/ u.pc = "remember" /\ u.reason
  <2>1. CASE assigned'[c][t] # None
    <3> DEFINE u == [v EXCEPT !.pc = "write", !.target = assigned'[c][t]]
    <3>1. worker' = [worker EXCEPT ![w] = u]
      BY <2>1 DEF InsertAssignment
    <3>2. assigned'[c][t] \in Target
      BY <1>2, <1>5, <2>1
    <3>3. /\ u \in Local /\ u.pc = "write" /\ u.target = assigned'[c][t]
          /\ u.job = v.job /\ u.cursor = v.cursor /\ u.todo = v.todo
      BY <1>2, <3>2 DEF Local
    <3> HIDE DEF u
    <3> QED
      BY <2>1, <3>1, <3>3
  <2>2. CASE assigned'[c][t] = None
    <3> DEFINE u == [v EXCEPT !.pc = "remember", !.reason = TRUE]
    <3>1. worker' = [worker EXCEPT ![w] = u]
      BY <2>2 DEF InsertAssignment
    <3>2. /\ u \in Local /\ u.pc = "remember" /\ u.reason
          /\ u.job = v.job /\ u.cursor = v.cursor /\ u.todo = v.todo
      BY <1>2 DEF Local
    <3> HIDE DEF u
    <3> QED
      BY <3>1, <3>2
  <2> QED
    BY <2>1, <2>2
<1>8. /\ worker' \in [Worker -> Local] /\ worker'[w] = u
      /\ \A x \in Worker \ {w} : worker'[x] = worker[x]
  BY <1>7, WorkerMoves DEF IInv
<1>9. TypeOK' /\ Grows
  BY <1>1, <1>5, <1>8, StoresStand DEF IInv, TypeOK
<1>10. Todo(w)'
  BY <1>1, <1>2, <1>7, <1>8, Values DEF Todo, Writing
<1>11. Listing(w)'
  BY <1>1, <1>7, <1>8, SameListing DEF AtResource, Writing
<1>12. OneDestination'
  <2>1. \A r \in Resource : Transaction(r) \in Payment
    BY Values DEF Transaction, Resource
  <2> QED
    BY <1>1, <1>6, <2>1 DEF IInv, OneDestination, Transaction
<1>13. RefundsHaveOriginals'
  BY <1>1 DEF IInv, RefundsHaveOriginals
<1> QED
  BY <1>1, <1>7, <1>8, <1>9, <1>10, <1>11, <1>12, <1>13, Stays

LEMMA WriteFactKeeps ==
  ASSUME IInv, NEW w \in Worker, WriteFact(w)
  PROVE  IInv'
<1> DEFINE v == worker[w]
           c == ConnOf[v.job]
           f == Fact(w)
<1>1. /\ v.pc = "write" /\ v.pc \in Busyness /\ v.pc \in Writing
      /\ UNCHANGED <<conn, job, assigned, noted>>
  BY DEF WriteFact, Busyness, AtResource, Writing
<1>2. v \in Local /\ v.job \in Job /\ c \in Conn /\ Todo(w) /\ f \in Resource
  BY <1>1, AtWork, FactType
<1>3. v.target \in Target
  BY <1>1, <1>2 DEF Todo, Local
<1>4. CASE Leave(w) /\ UNCHANGED ledger
  BY <1>1, <1>4, Leaves DEF Busyness
<1>5. CASE \/ /\ assigned[c][Transaction(f)] = v.target
              /\ ledger' = [ledger EXCEPT ![c][f] = IF @ = None THEN v.target ELSE @]
              /\ worker' = [worker EXCEPT ![w].pc = "remember"]
           \/ /\ worker' = [worker EXCEPT ![w].pc = "remember", ![w].reason = TRUE]
              /\ UNCHANGED ledger
  <2>1. /\ ledger' \in [Conn -> [Resource -> Target \union {None}]]
        /\ \A d \in Conn, r \in Resource : ledger[d][r] # None => ledger'[d][r] = ledger[d][r]
        /\ \A d \in Conn, r \in Resource :
             ledger'[d][r] # ledger[d][r] =>
               d = c /\ r = f /\ ledger'[d][r] = assigned[c][Transaction(f)]
    <3>1. CASE ledger' = ledger
      BY <3>1 DEF IInv, TypeOK
    <3>2. CASE ledger' # ledger
      <4>1. /\ assigned[c][Transaction(f)] = v.target
            /\ ledger' = [ledger EXCEPT ![c][f] = IF @ = None THEN v.target ELSE @]
        BY <1>5, <3>2
      <4>2. ledger \in [Conn -> [Resource -> Target \union {None}]]
        BY DEF IInv, TypeOK
      <4> HIDE DEF c, f, v
      <4> QED
        BY <1>2, <1>3, <4>1, <4>2
    <3> QED
      BY <3>1, <3>2
  <2>2. PICK u \in Local :
          /\ worker' = [worker EXCEPT ![w] = u]
          /\ u.job = v.job /\ u.cursor = v.cursor /\ u.todo = v.todo
          /\ u.pc = "remember"
          /\ u.reason \/ ledger'[c][f] # None
    <3>1. CASE /\ ledger' = [ledger EXCEPT ![c][f] = IF @ = None THEN v.target ELSE @]
               /\ worker' = [worker EXCEPT ![w].pc = "remember"]
      <4> DEFINE u == [v EXCEPT !.pc = "remember"]
      <4>1. worker' = [worker EXCEPT ![w] = u]
        BY <3>1
      <4>2. /\ u \in Local /\ u.pc = "remember"
            /\ u.job = v.job /\ u.cursor = v.cursor /\ u.todo = v.todo
        BY <1>2 DEF Local
      <4>3. ledger'[c][f] # None
        <5>1. ledger \in [Conn -> [Resource -> Target \union {None}]]
          BY DEF IInv, TypeOK
        <5> QED
          BY <1>2, <1>3, <3>1, <5>1, Values
      <4> HIDE DEF u
      <4> QED
        BY <4>1, <4>2, <4>3
    <3>2. CASE worker' = [worker EXCEPT ![w].pc = "remember", ![w].reason = TRUE]
      <4> DEFINE u == [v EXCEPT !.pc = "remember", !.reason = TRUE]
      <4>1. worker' = [worker EXCEPT ![w] = u]
        BY <3>2
      <4>2. /\ u \in Local /\ u.pc = "remember" /\ u.reason
            /\ u.job = v.job /\ u.cursor = v.cursor /\ u.todo = v.todo
        BY <1>2 DEF Local
      <4> HIDE DEF u
      <4> QED
        BY <4>1, <4>2
    <3> QED
      BY <1>5, <3>1, <3>2
  <2>3. /\ worker' \in [Worker -> Local] /\ worker'[w] = u
        /\ \A x \in Worker \ {w} : worker'[x] = worker[x]
    BY <2>2, WorkerMoves DEF IInv
  <2>4. TypeOK'
    BY <1>1, <2>1, <2>3 DEF IInv, TypeOK
  <2>5. Grows
    BY <1>1, <2>1 DEF Grows, Settled, SettledAfter
  <2>6. Todo(w)'
    BY <1>1, <1>2, <2>2, <2>3, Values DEF Todo, Writing, Fact
  <2>7. Listing(w)'
    BY <1>1, <2>2, <2>3, SameListing DEF AtResource, Writing
  <2>8. OneDestination'
    BY <1>1, <2>1 DEF IInv, OneDestination, Transaction
  <2>9. RefundsHaveOriginals'
    <3>1. f \in Refund => ledger[c][OriginalOf[f]] # None
      BY <1>1, <1>2, Values DEF Todo, Pair, Fact
    <3> QED
      BY <2>1, <3>1, Values DEF IInv, RefundsHaveOriginals
  <2> QED
    BY <1>1, <2>2, <2>3, <2>4, <2>5, <2>6, <2>7, <2>8, <2>9, Stays
<1> QED
  BY <1>4, <1>5 DEF WriteFact, Go

LEMMA RememberKeeps ==
  ASSUME IInv, NEW w \in Worker, Remember(w)
  PROVE  IInv'
<1> DEFINE v == worker[w]
           c == ConnOf[v.job]
           f == Fact(w)
<1>1. /\ v.pc = "remember" /\ v.pc \in Busyness /\ v.pc \notin Writing
      /\ UNCHANGED <<conn, job, assigned, ledger>>
  BY DEF Remember, Busyness, AtResource, Writing
<1>2. /\ v \in Local /\ v.job \in Job /\ c \in Conn /\ Todo(w) /\ f \in Resource
      /\ Pair(v.todo) \/ v.todo = <<f>>
  BY <1>1, AtWork, FactType
<1>3. Listing(w)
  BY <1>1, AtWork
<1>4. CASE Leave(w) /\ UNCHANGED noted
  BY <1>1, <1>4, Leaves
<1>5. CASE ~(Leave(w) /\ UNCHANGED noted)
  <2>1. noted' = [noted EXCEPT ![c] = IF v.reason THEN @ \union {f} ELSE @ \ {f}]
    BY <1>5 DEF Remember
  <2>2. noted \in [Conn -> SUBSET Resource]
    BY DEF IInv, TypeOK
  <2>3. /\ noted' \in [Conn -> SUBSET Resource]
        /\ \A d \in Conn \ {c} : noted'[d] = noted[d]
        /\ noted'[c] = IF v.reason THEN noted[c] \union {f} ELSE noted[c] \ {f}
    <3> HIDE DEF c, f
    <3> QED
      BY <1>2, <2>1, <2>2
  <2>4. v.reason \/ ledger[c][f] # None
    BY <1>1, <1>2 DEF Todo
  <2>5. Grows /\ f \in SettledAfter(c)
    BY <1>1, <1>2, <2>3, <2>4 DEF Grows, Settled, SettledAfter
  <2>6. PICK u \in Local :
          /\ worker' = [worker EXCEPT ![w] = u]
          /\ u.job = v.job /\ u.cursor = v.cursor /\ u.todo = Tail(v.todo)
          /\ u.reason = v.reason
          /\ u.pc = IF Len(v.todo) # 2 THEN "advance"
                    ELSE IF v.reason THEN "remember" ELSE "assign"
    <3> DEFINE p == IF Len(v.todo) # 2 THEN "advance"
                    ELSE IF v.reason THEN "remember" ELSE "assign"
               u == [v EXCEPT !.pc = p, !.todo = Tail(v.todo)]
    <3>1. worker' = [worker EXCEPT ![w] = u]
      BY <1>5 DEF Remember
    <3>2. Tail(v.todo) \in Seq(Resource)
      <4>1. CASE Pair(v.todo)
        <5>1. PICK r \in Refund : v.todo = <<OriginalOf[r], r>>
          BY <4>1 DEF Pair
        <5>2. Tail(v.todo) = <<r>>
          BY <5>1
        <5> QED
          BY <5>2, ShortLists, Values
      <4>2. CASE v.todo = <<f>>
        <5>1. Tail(v.todo) = <<>>
          BY <4>2
        <5>2. <<>> \in Seq(Resource)
          OBVIOUS
        <5> QED
          BY <5>1, <5>2
      <4> QED
        BY <1>2, <4>1, <4>2
    <3>3. p \in {"advance", "remember", "assign"}
      OBVIOUS
    <3> HIDE DEF p
    <3>4. /\ u \in Local /\ u.pc = p /\ u.todo = Tail(v.todo) /\ u.reason = v.reason
          /\ u.job = v.job /\ u.cursor = v.cursor
      BY <1>2, <3>2, <3>3 DEF Local
    <3> HIDE DEF u
    <3> QED
      BY <3>1, <3>4 DEF p
  <2>7. /\ worker' \in [Worker -> Local] /\ worker'[w] = u
        /\ \A x \in Worker \ {w} : worker'[x] = worker[x]
    BY <2>6, WorkerMoves DEF IInv
  <2>8. TypeOK'
    BY <1>1, <2>3, <2>7 DEF IInv, TypeOK
  <2>9. At(w)' = At(w) /\ (Listed(v.cursor)' <=> Listed(v.cursor))
    BY <2>6, <2>7, SameAt
  <2>10. v.job \in Import => /\ v.cursor.loaded /\ Listed(v.cursor)
                             /\ v.todo[Len(v.todo)] = At(w)
    BY <1>1, <1>3 DEF Listing, AtResource
  <2>11. Todo(w)' /\ Listing(w)'
    <3>1. CASE Pair(v.todo)
      <4>1. PICK r \in Refund : v.todo = <<OriginalOf[r], r>>
        BY <3>1 DEF Pair
      <4>2. /\ f = OriginalOf[r] /\ Len(v.todo) = 2 /\ Tail(v.todo) = <<r>>
            /\ v.todo[Len(v.todo)] = r
        BY <4>1 DEF Fact
      <4>3. u.todo = <<r>> /\ u.pc = (IF v.reason THEN "remember" ELSE "assign")
        BY <2>6, <4>2
      <4>4. Todo(w)'
        BY <1>1, <2>4, <2>6, <2>7, <4>2, <4>3, Values DEF Todo, Writing
      <4>5. u.todo[Len(u.todo)] = r
        BY <4>3
      <4>6. Listing(w)'
        BY <2>6, <2>7, <2>9, <2>10, <4>2, <4>3, <4>5 DEF Listing
      <4> QED
        BY <4>4, <4>6
    <3>2. CASE v.todo = <<f>>
      <4>1. Len(v.todo) = 1 /\ v.todo[Len(v.todo)] = f
        <5> HIDE DEF v, f
        <5> QED
          BY <3>2
      <4>2. u.pc = "advance"
        BY <2>6, <4>1
      <4>3. Todo(w)'
        BY <2>7, <4>2 DEF Todo, Writing
      <4>4. Listing(w)'
        BY <2>5, <2>6, <2>7, <2>9, <2>10, <4>1, <4>2 DEF Listing, Settled, SettledAfter
      <4> QED
        BY <4>3, <4>4
    <3> QED
      BY <1>2, <3>1, <3>2
  <2>12. OneDestination' /\ RefundsHaveOriginals'
    BY <1>1 DEF IInv, OneDestination, RefundsHaveOriginals
  <2> QED
    BY <1>1, <2>5, <2>6, <2>7, <2>8, <2>11, <2>12, Stays
<1> QED
  BY <1>4, <1>5

LEMMA RememberIssueKeeps ==
  ASSUME IInv, NEW w \in Worker, RememberIssue(w)
  PROVE  IInv'
<1> DEFINE v == worker[w]
           c == ConnOf[v.job]
           f == Fact(w)
<1>1. /\ v.pc = "issue" /\ v.pc \in Busyness
      /\ UNCHANGED <<conn, job, assigned, ledger>>
  BY DEF RememberIssue, Busyness, AtResource
<1>2. /\ v \in Local /\ v.job \in Job /\ c \in Conn /\ Todo(w) /\ Listing(w)
      /\ f \in Resource
  BY <1>1, AtWork, FactType
<1>3. CASE Leave(w) /\ UNCHANGED noted
  BY <1>1, <1>3, Leaves
<1>4. CASE /\ noted' = [noted EXCEPT ![c] = @ \union {f}]
           /\ worker' = [worker EXCEPT ![w].pc = "advance"]
  <2>1. noted \in [Conn -> SUBSET Resource]
    BY DEF IInv, TypeOK
  <2>2. /\ noted' \in [Conn -> SUBSET Resource]
        /\ \A d \in Conn \ {c} : noted'[d] = noted[d]
        /\ noted'[c] = noted[c] \union {f}
    <3> HIDE DEF c, f
    <3> QED
      BY <1>2, <1>4, <2>1
  <2>3. Grows /\ f \in SettledAfter(c)
    BY <1>1, <1>2, <2>2 DEF Grows, Settled, SettledAfter
  <2> DEFINE u == [v EXCEPT !.pc = "advance"]
  <2>4. /\ u \in Local /\ u.pc = "advance" /\ u.job = v.job /\ u.cursor = v.cursor
    BY <1>2 DEF Local
  <2>5. worker' = [worker EXCEPT ![w] = u]
    BY <1>4
  <2> HIDE DEF u
  <2>6. /\ worker' \in [Worker -> Local] /\ worker'[w] = u
        /\ \A x \in Worker \ {w} : worker'[x] = worker[x]
    BY <2>4, <2>5, WorkerMoves DEF IInv
  <2>7. TypeOK'
    BY <1>1, <2>2, <2>6 DEF IInv, TypeOK
  <2>8. Todo(w)'
    BY <2>4, <2>6 DEF Todo, Writing
  <2>9. At(w)' = At(w) /\ (Listed(v.cursor)' <=> Listed(v.cursor))
    BY <2>4, <2>6, SameAt
  <2>10. v.job \in Import => v.cursor.loaded /\ Listed(v.cursor) /\ At(w) = f
    <3>1. PICK r \in Resource : v.todo = <<r>>
      BY <1>1, <1>2 DEF Todo
    <3>2. v.todo[Len(v.todo)] = r /\ f = r
      BY <3>1 DEF Fact
    <3> QED
      BY <1>1, <1>2, <3>2 DEF Listing, AtResource
  <2>11. Listing(w)'
    BY <2>3, <2>4, <2>6, <2>9, <2>10 DEF Listing, Settled, SettledAfter
  <2>12. OneDestination' /\ RefundsHaveOriginals'
    BY <1>1 DEF IInv, OneDestination, RefundsHaveOriginals
  <2> QED
    BY <1>1, <2>3, <2>4, <2>6, <2>7, <2>8, <2>11, <2>12, Stays
<1> QED
  BY <1>3, <1>4 DEF RememberIssue, Go
-----------------------------------------------------------------------------
\* persist: the fence says that the row is the one this slice has read, so
\* that what it stores follows the cursor on record.
LEMMA HeldRow ==
  ASSUME IInv, NEW w \in Worker, worker[w].pc \in Busyness,
         job[worker[w].job].token = w
  PROVE  /\ worker[w].job \in Job /\ job[worker[w].job] \in JobRow
         /\ job[worker[w].job].status = "running" /\ job[worker[w].job].why = None
         /\ job[worker[w].job].cursor = worker[w].cursor
         /\ worker[w].cursor.phase # "done"
         /\ Active(worker[w].job)
<1>1. worker[w].job \in Job /\ Holder(w)
  BY AtWork
<1>2. /\ job[worker[w].job] \in JobRow /\ job[worker[w].job].status = "running"
      /\ job[worker[w].job].cursor = worker[w].cursor
      /\ Row(worker[w].job)
  BY <1>1 DEF Holder, IInv, TypeOK, Rows
<1>3. Active(worker[w].job)
  BY <1>1, <1>2 DEF IInv, NoStrandedJob, Live
<1> QED
  BY <1>1, <1>2, <1>3 DEF Row

\* What a slice may store: a cursor no further than what is settled.
Storable(w, status, cur) ==
  LET j == worker[w].job IN
  /\ cur \in Cursor /\ Placed(j, cur) /\ Behind(j, cur)
  /\ status = "finished" /\ j \in Import => cur.phase = "done"
  /\ worker[w].cursor.phase # "done" => (cur.phase = "done" => status = "finished")

LEMMA PersistKeeps ==
  ASSUME IInv, NEW w \in Worker, worker[w].pc \in {"loop", "advance", "failed"},
         NEW status \in {"running", "queued", "paused", "finished"},
         NEW cur, NEW retry \in Gone..Backoff, NEW pc \in {"loop", "release"},
         Storable(w, status, cur), pc = "loop" => status = "running",
         Persist(w, status, cur, retry, pc),
         UNCHANGED <<conn, assigned, ledger, noted>>
  PROVE  IInv'
<1> DEFINE v == worker[w]
           j == v.job
<1>1. v.pc \in Busyness /\ v.pc # "idle"
  BY DEF Busyness, AtResource
<1>2. v \in Local /\ j \in Job
  BY <1>1, AtWork
<1>3. CASE Leave(w) /\ UNCHANGED job
  BY <1>1, <1>3, Leaves
<1>4. CASE ~(Leave(w) /\ UNCHANGED job)
  <2> DEFINE row == [job[j] EXCEPT !.status = status, !.cursor = cur, !.retry = retry]
             u == [Idle EXCEPT !.pc = pc, !.job = j, !.gen = v.gen, !.cursor = cur,
                               !.mode = v.mode]
  <2>1. /\ job' = [job EXCEPT ![j] = row] /\ job[j].token = w
        /\ worker' = [worker EXCEPT ![w] = u]
    BY <1>4 DEF Persist, Holds
  <2>2. /\ job[j] \in JobRow /\ job[j].status = "running" /\ job[j].why = None
        /\ v.cursor.phase # "done" /\ Active(j)
    BY <1>1, <2>1, HeldRow
  <2>3. cur \in Cursor /\ Placed(j, cur) /\ Behind(j, cur)
        /\ (status = "finished" /\ j \in Import => cur.phase = "done")
        /\ (cur.phase = "done" => status = "finished")
    BY <2>2 DEF Storable
  <2>4. /\ row \in JobRow /\ row.status = status /\ row.cursor = cur
        /\ row.why = None /\ row.gen = job[j].gen /\ row.token = w
        /\ row.left = job[j].left
    BY <2>1, <2>2, <2>3 DEF JobRow
  <2>5. /\ u \in Local /\ u.pc = pc /\ u.job = j /\ u.cursor = cur
    BY <1>2, <2>3, Fresh DEF Local
  <2> HIDE DEF row, u
  <2>6. /\ job'[j] = row /\ job' \in [Job -> JobRow]
        /\ \A k \in Job \ {j} : job'[k] = job[k]
    <3> HIDE DEF j
    <3> QED
      BY <1>2, <2>1, <2>4 DEF IInv, TypeOK
  <2>7. /\ worker' \in [Worker -> Local] /\ worker'[w] = u
        /\ \A x \in Worker \ {w} : worker'[x] = worker[x]
    BY <2>1, <2>5, WorkerMoves DEF IInv
  <2>8. TypeOK' /\ Grows
    BY <2>6, <2>7, StoresStand DEF IInv, TypeOK
  <2>9. (Placed(j, cur) /\ Behind(j, cur))'
    <3>1. worker'[w].job = j /\ ConnOf[j] \in Conn
      BY <1>2, <2>5, <2>7, Values
    <3> QED
      BY <2>3, <2>8, <3>1 DEF Placed, Behind, Grows, Settled, SettledAfter
  <2>10. Rows'
    <3> SUFFICES ASSUME NEW k \in Job PROVE Row(k)'
      BY DEF Rows
    <3>1. CASE k = j
      BY <1>2, <2>3, <2>4, <2>5, <2>6, <2>7, <2>9, <3>1 DEF Row
    <3>2. CASE k # j
      BY <2>6, <3>2, RowStands
    <3> QED
      BY <3>1, <3>2
  <2>11. Workers'
    <3>1. Running(w)'
      <4>1. Holder(w)'
        BY <2>4, <2>5, <2>6, <2>7 DEF Holder, Busyness, AtResource, Writing
      <4>2. Todo(w)' /\ Listing(w)'
        BY <2>5, <2>7 DEF Todo, Listing, AtResource, Writing
      <4> QED
        BY <1>2, <2>5, <2>7, <2>9, <4>1, <4>2 DEF Running
    <3>2. ASSUME NEW x \in Worker \ {w} PROVE Running(x)'
      <4>1. \A k \in Job : job'[k] = job[k] \/ job'[k].token # x
        BY <2>4, <2>6
      <4> QED
        BY <2>7, <2>8, <4>1, OtherRuns
    <3> QED
      BY <3>1, <3>2 DEF Workers
  <2>12. Exclusively' /\ TwoAtMost'
    <3>1. job[j].status = "running" /\ job[j].left > 0 => Busy(j, 0)
      <4>1. job[j].left \in Int
        BY <2>2, Values DEF JobRow
      <4> QED
        BY <4>1 DEF Busy
    <3>2. \A k \in Job : job'[k].status = "running" /\ job'[k].left > 0 => Busy(k, 0)
      BY <2>2, <2>4, <2>6, <3>1, BusyStands DEF IInv
    <3> QED
      BY <2>8, <3>2, LeasesFrame
  <2>13. NoStrandedJob'
    BY <2>2, <2>4, <2>6 DEF IInv, NoStrandedJob, Live, Active
  <2>14. OneDestination' /\ RefundsHaveOriginals'
    BY DEF IInv, OneDestination, RefundsHaveOriginals
  <2> QED
    BY <2>8, <2>10, <2>11, <2>12, <2>13, <2>14 DEF IInv
<1> QED
  BY <1>3, <1>4
-----------------------------------------------------------------------------
\* The cursors that are stored.
LEMMA SamePlace ==
  ASSUME IInv, NEW w \in Worker, worker[w].pc \in Busyness,
         NEW status, status # "finished"
  PROVE  Storable(w, status, worker[w].cursor)
<1>1. /\ worker[w] \in Local
      /\ Placed(worker[w].job, worker[w].cursor) /\ Behind(worker[w].job, worker[w].cursor)
  BY AtWork
<1> QED
  BY <1>1 DEF Storable, Local

LEMMA LoadedPlace ==
  ASSUME IInv, NEW w \in Worker, worker[w].pc \in Busyness,
         worker[w].cursor.phase \in DOMAIN Pages
  PROVE  Storable(w, "running", [worker[w].cursor EXCEPT !.loaded = TRUE])
<1> DEFINE old == worker[w].cursor
           new == [old EXCEPT !.loaded = TRUE]
<1>1. /\ old \in Cursor /\ Placed(worker[w].job, old) /\ Behind(worker[w].job, old)
  BY AtWork DEF Local
<1>2. /\ new \in Cursor /\ new.phase = old.phase /\ new.page = old.page
      /\ new.offset = old.offset
  BY <1>1 DEF Cursor
<1> HIDE DEF new
<1>3. Passed(new) = Passed(old)
  BY <1>2 DEF Passed
<1>4. Placed(worker[w].job, new) /\ Behind(worker[w].job, new)
  BY <1>1, <1>2, <1>3 DEF Placed, Behind
<1>5. new.phase # "done" \/ old.phase = "done"
  BY <1>2
<1>6. Storable(w, "running", new)
  BY <1>2, <1>4, <1>5 DEF Storable
<1> QED
  BY <1>6 DEF new

LEMMA CursorAt ==
  ASSUME NEW cur \in Cursor, NEW n \in Nat,
         NEW new, new = [cur EXCEPT !.page = n, !.loaded = FALSE, !.offset = 0]
  PROVE  /\ new \in Cursor /\ new.phase = cur.phase /\ new.page = n
         /\ new.loaded = FALSE /\ new.offset = 0
  BY DEF Cursor

LEMMA PageAfter ==
  ASSUME NEW cur \in Cursor
  PROVE  /\ NextPage(cur) \in Cursor /\ NextPage(cur).phase = cur.phase
         /\ NextPage(cur).page = cur.page + 1
         /\ NextPage(cur).loaded = FALSE /\ NextPage(cur).offset = 0
<1> DEFINE n == cur.page + 1
<1>1. n \in Nat
  BY DEF Cursor
<1> HIDE DEF n
<1>2. \A new : new = [cur EXCEPT !.page = n, !.loaded = FALSE, !.offset = 0] =>
        /\ new \in Cursor /\ new.phase = cur.phase /\ new.page = n
        /\ new.loaded = FALSE /\ new.offset = 0
  BY <1>1, CursorAt, Zenon
<1> QED
  BY <1>2 DEF NextPage, n

LEMMA FirstRefunds ==
  LET new == [Start EXCEPT !.phase = "refunds"] IN
  /\ new \in Cursor /\ new.phase = "refunds" /\ new.page = 1
  /\ new.loaded = FALSE /\ new.offset = 0
<1>1. Start \in Cursor /\ Start.page = 1 /\ Start.loaded = FALSE /\ Start.offset = 0
  BY Cursors DEF Start
<1> QED
  BY <1>1 DEF Cursor

LEMMA NextPlace ==
  ASSUME IInv, NEW w \in Worker, worker[w].pc \in Busyness,
         worker[w].cursor.loaded, ~Listed(worker[w].cursor)
  PROVE  Storable(w, IF AfterPage(worker[w].cursor) = Done THEN "finished" ELSE "running",
                  AfterPage(worker[w].cursor))
<1> DEFINE j == worker[w].job
           old == worker[w].cursor
           new == AfterPage(old)
           last == Len(Pages[old.phase])
<1>1. /\ old \in Cursor /\ j \in Job /\ Placed(j, old) /\ Behind(j, old)
  BY AtWork DEF Local
<1>2. old.phase \in DOMAIN Pages /\ old.page \in 1..last /\ last \in Nat
  BY <1>1, Listings DEF Placed
<1>3. old.offset \in Nat /\ Len(Page(old)) \in Nat /\ old.offset >= Len(Page(old))
  <2>1. old.offset \in Nat
    BY <1>1 DEF Cursor
  <2>2. Len(Page(old)) \in Nat
    BY <1>2, Listings DEF Page
  <2>3. ~(old.offset < Len(Page(old)))
    BY DEF Listed
  <2> HIDE DEF old
  <2> QED
    BY <2>1, <2>2, <2>3
<1>4. \A r \in Resource :
        (\E n \in 1..last : \E i \in 1..Len(Pages[old.phase][n]) :
           r = Pages[old.phase][n][i] /\ n <= old.page)
        => r \in Passed(old)
  <2> SUFFICES ASSUME NEW r \in Resource, NEW n \in 1..last,
                      NEW i \in 1..Len(Pages[old.phase][n]),
                      r = Pages[old.phase][n][i], n <= old.page
               PROVE  r \in Passed(old)
    OBVIOUS
  <2>1. n < old.page \/ (n = old.page /\ i <= old.offset)
    <3>1. CASE n < old.page
      BY <3>1
    <3>2. CASE n >= old.page
      <4>1. n = old.page
        BY <1>2, <3>2
      <4>2. i \in 1..Len(Page(old))
        BY <4>1 DEF Page
      <4> QED
        BY <1>3, <4>1, <4>2
    <3> QED
      BY <1>2, <3>1, <3>2
  <2> QED
    BY <1>2, <2>1 DEF Passed
<1>5. CASE old.page < last
  <2>1. new = NextPage(old)
    BY <1>5 DEF AfterPage
  <2>2. /\ new \in Cursor /\ new.phase = old.phase /\ new.page = old.page + 1
        /\ ~new.loaded /\ new.offset = 0
    BY <1>1, <2>1, PageAfter
  <2>3. new # Done
    BY <1>2, <2>2, Listings DEF Done
  <2> HIDE DEF new
  <2>4. Placed(j, new)
    BY <1>1, <1>2, <1>5, <2>2 DEF Placed
  <2>5. Passed(new) \subseteq Passed(old)
    <3> SUFFICES ASSUME NEW r \in Passed(new) PROVE r \in Passed(old)
      OBVIOUS
    <3>1. CASE old.phase = "refunds" /\ r \in ListedIn("payments")
      BY <3>1 DEF Passed
    <3>2. CASE \E n \in 1..last : \E i \in 1..Len(Pages[old.phase][n]) :
                 /\ r = Pages[old.phase][n][i]
                 /\ n < new.page \/ (n = new.page /\ i <= new.offset)
      <4>0. PICK n \in 1..last : \E i \in 1..Len(Pages[old.phase][n]) :
              /\ r = Pages[old.phase][n][i]
              /\ n < new.page \/ (n = new.page /\ i <= new.offset)
        BY <3>2
      <4>1. PICK i \in 1..Len(Pages[old.phase][n]) :
              /\ r = Pages[old.phase][n][i]
              /\ n < new.page \/ (n = new.page /\ i <= new.offset)
        BY <4>0
      <4>2. n <= old.page
        <5>1. i \in Int /\ i >= 1
          BY <1>2, Listings
        <5> QED
          BY <1>2, <2>2, <4>1, <5>1
      <4> QED
        BY <1>4, <4>1, <4>2 DEF Passed
    <3> QED
      BY <1>2, <2>2, <3>1, <3>2, Listings DEF Passed
  <2>6. Storable(w, "running", new)
    BY <1>1, <1>2, <2>2, <2>4, <2>5, Listings DEF Storable, Behind
  <2> QED
    BY <2>3, <2>6 DEF new
<1>6. CASE old.page >= last
  <2>1. old.page = last
    BY <1>2, <1>6
  <2>2. \A r \in Resource : r \in ListedIn(old.phase) => r \in Passed(old)
    <3> SUFFICES ASSUME NEW r \in Resource, r \in ListedIn(old.phase)
                 PROVE  r \in Passed(old)
      OBVIOUS
    <3>1. PICK n \in 1..last : \E i \in 1..Len(Pages[old.phase][n]) : r = Pages[old.phase][n][i]
      BY DEF ListedIn
    <3>2. n <= old.page
      BY <1>2, <2>1
    <3> QED
      BY <1>4, <3>1, <3>2
  <2>3. CASE old.phase = "payments"
    <3>1. new = [Start EXCEPT !.phase = "refunds"]
      BY <1>2, <1>6, <2>3 DEF AfterPage
    <3>2. /\ new \in Cursor /\ new.phase = "refunds" /\ new.page = 1
          /\ ~new.loaded /\ new.offset = 0
      BY <3>1, FirstRefunds
    <3>3. new # Done
      BY <3>2 DEF Done
    <3> HIDE DEF new
    <3>4. Placed(j, new)
      BY <3>2, Listings DEF Placed
    <3>5. Passed(new) \subseteq Passed(old)
      <4>1. ~ \E n \in 1..Len(Pages["refunds"]) : \E i \in 1..Len(Pages["refunds"][n]) :
                n < 1 \/ (n = 1 /\ i <= 0)
        BY Listings
      <4>2. \A r \in Passed(new) : r \in Resource /\ r \in ListedIn("payments")
        BY <3>2, <4>1 DEF Passed
      <4> QED
        BY <2>2, <2>3, <4>2
    <3>6. Storable(w, "running", new)
      BY <1>1, <3>2, <3>4, <3>5 DEF Storable, Behind
    <3> QED
      BY <3>3, <3>6 DEF new
  <2>4. CASE old.phase # "payments"
    <3>1. new = Done /\ old.phase = "refunds"
      BY <1>2, <1>6, <2>4, Listings DEF AfterPage
    <3>2. Placed(j, Done) /\ Done \in Cursor /\ Done.phase = "done"
      BY Cursors, Listings DEF Placed
    <3>3. Passed(Done) \subseteq Passed(old)
      <4>1. \A r \in Resource : r \in ListedIn("payments") => r \in Passed(old)
        BY <3>1 DEF Passed
      <4> QED
        BY <2>2, <3>1, <4>1, PassedEnds
    <3>4. Storable(w, "finished", Done)
      BY <1>1, <3>2, <3>3 DEF Storable, Behind
    <3> QED
      BY <3>1, <3>4
  <2> QED
    BY <2>3, <2>4
<1> QED
  BY <1>2, <1>5, <1>6

LEMMA AdvancePlace ==
  ASSUME IInv, NEW w \in Worker, worker[w].pc = "advance", worker[w].job \in Import
  PROVE  Storable(w, "running", [worker[w].cursor EXCEPT !.offset = @ + 1])
<1> DEFINE j == worker[w].job
           old == worker[w].cursor
           new == [old EXCEPT !.offset = @ + 1]
<1>1. /\ old \in Cursor /\ j \in Job /\ Placed(j, old) /\ Behind(j, old)
      /\ Listing(w)
  BY AtWork DEF Local, Busyness, AtResource
<1>2. /\ old.loaded /\ At(w) \in Settled(ConnOf[j]) \union Filtered
  BY <1>1 DEF Listing, AtResource
<1>3. At(w) = Pages[old.phase][old.page][old.offset + 1]
  BY ProviderAssumption DEF At, Page
<1>4. /\ new \in Cursor /\ new.phase = old.phase /\ new.page = old.page
      /\ new.offset = old.offset + 1 /\ new.loaded = old.loaded /\ old.offset \in Nat
  BY <1>1 DEF Cursor
<1>5. old.phase \in DOMAIN Pages
  BY <1>1, <1>2 DEF Placed
<1> HIDE DEF new
<1>6. Passed(new) \subseteq Passed(old) \union {At(w)}
  <2> SUFFICES ASSUME NEW r \in Passed(new), r # At(w) PROVE r \in Passed(old)
    OBVIOUS
  <2>1. CASE old.phase = "refunds" /\ r \in ListedIn("payments")
    BY <2>1 DEF Passed
  <2>2. CASE \E n \in 1..Len(Pages[old.phase]) : \E i \in 1..Len(Pages[old.phase][n]) :
               /\ r = Pages[old.phase][n][i]
               /\ n < new.page \/ (n = new.page /\ i <= new.offset)
    <3>0. PICK n \in 1..Len(Pages[old.phase]) : \E i \in 1..Len(Pages[old.phase][n]) :
            /\ r = Pages[old.phase][n][i]
            /\ n < new.page \/ (n = new.page /\ i <= new.offset)
      BY <2>2
    <3>1. PICK i \in 1..Len(Pages[old.phase][n]) :
            /\ r = Pages[old.phase][n][i]
            /\ n < new.page \/ (n = new.page /\ i <= new.offset)
      BY <3>0
    <3>2. n < old.page \/ (n = old.page /\ i <= old.offset)
      <4>1. i \in Int
        BY <1>5, Listings
      <4>2. ~(n = old.page /\ i = old.offset + 1)
        BY <1>3, <3>1
      <4> QED
        BY <1>4, <3>1, <4>1, <4>2
    <3> QED
      BY <1>5, <3>1, <3>2 DEF Passed
  <2> QED
    BY <1>4, <1>5, <2>1, <2>2, Listings DEF Passed
<1>7. Placed(j, new) /\ Behind(j, new)
  BY <1>1, <1>2, <1>4, <1>6 DEF Placed, Behind
<1>8. Storable(w, "running", new)
  BY <1>4, <1>5, <1>7, Listings DEF Storable
<1> QED
  BY <1>8 DEF new

LEMMA FetchPageKeeps ==
  ASSUME IInv, NEW w \in Worker, FetchPage(w)
  PROVE  IInv'
<1>1. /\ worker[w].pc = "loop" /\ worker[w].pc \in Busyness
      /\ worker[w].cursor.phase \in DOMAIN Pages
      /\ UNCHANGED <<conn, assigned, ledger, noted>>
  BY DEF FetchPage, Busyness
<1>2. CASE Persist(w, "running", [worker[w].cursor EXCEPT !.loaded = TRUE], Gone, "loop")
  BY <1>1, <1>2, LoadedPlace, PersistKeeps, Values
<1>3. CASE Fails(w)
  BY <1>1, <1>3, FailsKeeps
<1> QED
  BY <1>2, <1>3 DEF FetchPage

LEMMA EndPageKeeps ==
  ASSUME IInv, NEW w \in Worker, EndPage(w)
  PROVE  IInv'
<1> DEFINE next == AfterPage(worker[w].cursor)
           status == IF next = Done THEN "finished" ELSE "running"
           pc == IF next = Done THEN "release" ELSE "loop"
<1>1. /\ worker[w].pc = "loop" /\ worker[w].pc \in Busyness
      /\ worker[w].cursor.loaded /\ ~Listed(worker[w].cursor)
      /\ Persist(w, status, next, Gone, pc)
      /\ UNCHANGED <<conn, assigned, ledger, noted>>
  BY DEF EndPage, Busyness
<1>2. Storable(w, status, next)
  BY <1>1, NextPlace
<1>3. /\ status \in {"running", "finished"} /\ pc \in {"loop", "release"}
      /\ pc = "loop" => status = "running"
  OBVIOUS
<1> HIDE DEF next, status, pc
<1> QED
  BY <1>1, <1>2, <1>3, PersistKeeps, Values

LEMMA EndSliceKeeps ==
  ASSUME IInv, NEW w \in Worker, EndSlice(w)
  PROVE  IInv'
<1>1. /\ worker[w].pc = "loop" /\ worker[w].pc \in Busyness
      /\ Persist(w, "queued", worker[w].cursor, Gone, "release")
      /\ UNCHANGED <<conn, assigned, ledger, noted>>
  BY DEF EndSlice, Busyness
<1> QED
  BY <1>1, SamePlace, PersistKeeps, Values

LEMMA AdvanceKeeps ==
  ASSUME IInv, NEW w \in Worker, Advance(w)
  PROVE  IInv'
<1>1. /\ worker[w].pc = "advance" /\ worker[w].pc \in Busyness
      /\ UNCHANGED <<conn, assigned, ledger, noted>>
  BY DEF Advance, Busyness, AtResource
<1>2. CASE worker[w].job \in Import
  <2>1. Persist(w, "running", [worker[w].cursor EXCEPT !.offset = @ + 1], Gone, "loop")
    BY <1>2 DEF Advance
  <2>2. Storable(w, "running", [worker[w].cursor EXCEPT !.offset = @ + 1])
    BY <1>1, <1>2, AdvancePlace
  <2> QED
    BY <1>1, <2>1, <2>2, PersistKeeps, Values
<1>3. CASE worker[w].job \notin Import
  <2>1. Persist(w, "finished", Done, Gone, "release")
    BY <1>3 DEF Advance
  <2>2. Storable(w, "finished", Done)
    BY <1>3, Cursors, Listings DEF Storable, Placed, Behind
  <2> QED
    BY <1>1, <2>1, <2>2, PersistKeeps, Values
<1> QED
  BY <1>2, <1>3

LEMMA FailedKeeps ==
  ASSUME IInv, NEW w \in Worker, Failed(w)
  PROVE  IInv'
<1>1. worker[w].pc = "failed" /\ worker[w].pc \in Busyness
  BY DEF Failed, Busyness
<1>2. PICK status \in {"paused", "queued"}, retry \in {Backoff, Gone} :
        Persist(w, status, worker[w].cursor, retry, "release")
  BY DEF Failed
<1>3. retry \in Gone..Backoff /\ UNCHANGED <<conn, assigned, ledger, noted>>
  BY Values DEF Failed
<1>4. Storable(w, status, worker[w].cursor)
  BY <1>1, SamePlace
<1> QED
  BY <1>1, <1>2, <1>3, <1>4, PersistKeeps
-----------------------------------------------------------------------------
LEMMA SliceKeeps ==
  ASSUME IInv, NEW w \in Worker, Slice(w)
  PROVE  IInv'
<1>1. ASSUME NEW j \in Job, Claim(w, j) PROVE IInv'
  BY <1>1, ClaimKeeps
<1>2. CASE Open(w)
  BY <1>2, OpenKeeps
<1>3. CASE FetchPage(w)
  BY <1>3, FetchPageKeeps
<1>4. CASE EndPage(w)
  BY <1>4, EndPageKeeps
<1>5. CASE EndSlice(w)
  BY <1>5, EndSliceKeeps
<1>6. CASE FetchResource(w)
  BY <1>6, FetchResourceKeeps
<1>7. CASE LookUp(w)
  BY <1>7, LookUpKeeps
<1>8. CASE InsertAssignment(w)
  BY <1>8, InsertAssignmentKeeps
<1>9. CASE WriteFact(w)
  BY <1>9, WriteFactKeeps
<1>10. CASE Remember(w)
  BY <1>10, RememberKeeps
<1>11. CASE RememberIssue(w)
  BY <1>11, RememberIssueKeeps
<1>12. CASE Advance(w)
  BY <1>12, AdvanceKeeps
<1>13. CASE Failed(w)
  BY <1>13, FailedKeeps
<1>14. CASE Release(w) \/ Die(w)
  BY <1>14, EndKeeps
<1> QED
  BY <1>1, <1>2, <1>3, <1>4, <1>5, <1>6, <1>7, <1>8, <1>9, <1>10, <1>11, <1>12,
     <1>13, <1>14 DEF Slice

LEMMA StutterKeeps == IInv /\ UNCHANGED vars => IInv'
<1> SUFFICES ASSUME IInv, UNCHANGED vars PROVE IInv'
  OBVIOUS
<1>1. UNCHANGED <<conn, job, worker, assigned, ledger, noted>>
  BY DEF vars
<1>2. TypeOK' /\ NoStrandedJob'
  BY <1>1 DEF IInv, TypeOK, NoStrandedJob, Live, Active
<1>3. \A j \in Job : Row(j)'
  BY <1>1, RowStands
<1>4. \A j \in Job : job'[j].status = "running" /\ job'[j].left > 0 => Busy(j, 0)
  BY <1>1, BusyStands DEF IInv
<1> QED
  BY <1>1, <1>2, <1>3, <1>4, OwnerFrame

LEMMA StepKeeps == IInv /\ [Next]_vars => IInv'
<1> SUFFICES ASSUME IInv, [Next]_vars PROVE IInv'
  OBVIOUS
<1>1. ASSUME NEW j \in Job,
             StartImport(j) \/ AcceptWebhook(j) \/ Cancel(j) \/ Resume(j)
      PROVE  IInv'
  BY <1>1, OneJobKeeps
<1>2. ASSUME NEW c \in Conn, Disconnect(c) \/ ReplaceCredentials(c) PROVE IInv'
  BY <1>2, GenerationKeeps
<1>3. ASSUME NEW c \in Conn, SaveRouting(c) PROVE IInv'
  BY <1>3, RoutingKeeps
<1>4. ASSUME NEW w \in Worker, Slice(w) PROVE IInv'
  BY <1>4, SliceKeeps
<1>5. CASE Tick
  BY <1>5, TickKeeps
<1>6. CASE UNCHANGED vars
  BY <1>6, StutterKeeps
<1> QED
  BY <1>1, <1>2, <1>3, <1>4, <1>5, <1>6 DEF Next, Owner

\* The inductive invariant of the provider's jobs: rows and slices agree on
\* the cursor while a token holds, and a cursor never runs ahead of what is
\* recorded or noted.
THEOREM JobsInvariant == Spec => []IInv
<1>1. Init => IInv
  BY InitIInv
<1>2. IInv /\ [Next]_vars => IInv'
  BY StepKeeps
<1> QED
  BY <1>1, <1>2, PTL DEF Spec

\* Every state has the types that the table and the locals of a slice have.
THEOREM TypeCorrect == Spec => []TypeOK
<1>1. IInv => TypeOK
  BY DEF IInv
<1> QED
  BY <1>1, JobsInvariant, PTL

\* One job of a connection and two of a workspace run under a live lease,
\* although each claim reads a clock that may be late.
LEMMA OneLeaseHolds == IInv => OneLease
<1> SUFFICES ASSUME IInv, NEW c \in Conn
             PROVE  Cardinality({j \in Of(c) : Busy(j, 0)}) <= 1
                    /\ Cardinality({j \in In(c) : Busy(j, 0)}) <= 2
  BY DEF OneLease
<1> DEFINE busy == {j \in Of(c) : Busy(j, 0)}
<1>1. \A j, k \in busy : j = k
  BY DEF IInv, Exclusively, Of
<1>2. Cardinality(busy) <= 1
  <2>1. CASE busy = {}
    BY <2>1, FS_EmptySet
  <2>2. CASE busy # {}
    <3>1. PICK j \in busy : TRUE
      BY <2>2
    <3>2. busy = {j}
      BY <1>1, <3>1
    <3> HIDE DEF busy
    <3>3. Cardinality({j}) = 1
      BY FS_Singleton
    <3> QED
      BY <3>2, <3>3
  <2> QED
    BY <2>1, <2>2
<1> QED
  BY <1>2 DEF IInv, TwoAtMost

THEOREM LeasesExclude == Spec => []OneLease
BY OneLeaseHolds, JobsInvariant, PTL

\* Every live job has the generation of its connection, so that a wake, a
\* claim or a resume can still take it.
THEOREM JobsReachable == Spec => []NoStrandedJob
<1>1. IInv => NoStrandedJob
  BY DEF IInv
<1> QED
  BY <1>1, JobsInvariant, PTL

\* What is recorded of a transaction went to its one assignment.
THEOREM DestinationsAgree == Spec => []OneDestination
<1>1. IInv => OneDestination
  BY DEF IInv
<1> QED
  BY <1>1, JobsInvariant, PTL

\* A refund on record has its original on record.
THEOREM OriginalsFirst == Spec => []RefundsHaveOriginals
<1>1. IInv => RefundsHaveOriginals
  BY DEF IInv
<1> QED
  BY <1>1, JobsInvariant, PTL

\* A finished import has recorded or noted all that the provider listed in
\* its window, whichever slices were cut short on the way.
LEMMA NothingSkippedHolds == IInv => NothingSkipped
<1> SUFFICES ASSUME IInv, NEW j \in Import, job[j].status = "finished",
                    NEW r \in (ListedIn("payments") \union ListedIn("refunds")) \ Filtered
             PROVE  ledger[ConnOf[j]][r] # None \/ r \in noted[ConnOf[j]]
  BY DEF NothingSkipped
<1>1. r \in Resource
  <2>1. \A phase \in {"payments", "refunds"} : ListedIn(phase) \subseteq Resource
    BY Listings DEF ListedIn
  <2> QED
    BY <2>1
<1>2. j \in Job /\ Row(j)
  BY DEF IInv, Rows, Job
<1>3. job[j].cursor.phase = "done" /\ Behind(j, job[j].cursor)
  BY <1>2 DEF Row
<1>4. r \in Passed(job[j].cursor)
  BY <1>1, <1>3 DEF Passed
<1> QED
  BY <1>1, <1>3, <1>4 DEF Behind, Settled

THEOREM ImportsComplete == Spec => []NothingSkipped
BY NothingSkippedHolds, JobsInvariant, PTL
-----------------------------------------------------------------------------
\* What is recorded, assigned or noted changes under a live lease of a job
\* of the connection as it now is: no slice of a former generation, and none
\* that has lost its lease, writes.
LEMMA FencedWrite ==
  ASSUME IInv, NEW w \in Worker, worker[w].pc \in Busyness, Fence(w),
         NEW c \in Conn, c = ConnOf[worker[w].job]
  PROVE  conn[c].active /\ \E j \in Of(c) : Busy(j, 0) /\ job[j].gen = conn[c].gen
<1>1. worker[w].job \in Job /\ job[worker[w].job] \in JobRow
  BY AtWork DEF IInv, TypeOK
<1>2. job[worker[w].job].left \in Int
  BY <1>1, Values DEF JobRow
<1> QED
  BY <1>1, <1>2 DEF Fence, Current, Busy, Of

LEMMA StepFenced ==
  ASSUME IInv, [Next]_vars, NEW c \in Conn,
         ledger'[c] # ledger[c] \/ assigned'[c] # assigned[c] \/ noted'[c] # noted[c]
  PROVE  conn[c].active /\ \E j \in Of(c) : Busy(j, 0) /\ job[j].gen = conn[c].gen
<1>1. PICK w \in Worker :
        InsertAssignment(w) \/ WriteFact(w) \/ Remember(w) \/ RememberIssue(w)
  BY DEF Next, Owner, Slice, vars, StartImport, AcceptWebhook, Cancel, Resume,
         Disconnect, ReplaceCredentials, SaveRouting, Tick, Claim, Open, FetchPage,
         EndPage, EndSlice, FetchResource, LookUp, Advance, Failed, Release, Die
<1>2. worker[w].pc \in Busyness
  BY <1>1 DEF InsertAssignment, WriteFact, Remember, RememberIssue, Busyness,
              AtResource, Writing
<1>3. Fence(w) /\ c = ConnOf[worker[w].job]
  BY <1>1 DEF InsertAssignment, WriteFact, Remember, RememberIssue, IInv, TypeOK
<1> QED
  BY <1>2, <1>3, FencedWrite

THEOREM WritesFenced == Spec => Fenced
<1>1. IInv /\ [Next]_vars =>
        \A c \in Conn :
          \/ ledger'[c] # ledger[c] \/ assigned'[c] # assigned[c] \/ noted'[c] # noted[c]
          => /\ conn[c].active
             /\ \E j \in Of(c) : Busy(j, 0) /\ job[j].gen = conn[c].gen
  BY StepFenced
<1> QED
  BY <1>1, JobsInvariant, PTL DEF Spec, Fenced
-----------------------------------------------------------------------------
\* The cursor on record never moves back.
LEMMA RankOf ==
  ASSUME NEW cur \in Cursor
  PROVE  /\ Rank(cur) = <<IF cur.phase \in {"payments", "resource"} THEN 0
                          ELSE IF cur.phase = "refunds" THEN 1 ELSE 2,
                          cur.page, IF cur.loaded THEN 1 ELSE 0, cur.offset>>
         /\ cur.page \in Nat /\ cur.offset \in Nat
  BY DEF Rank, Cursor

LEMMA Later ==
  ASSUME NEW a1 \in Int, NEW a2 \in Int, NEW a3 \in Int, NEW a4 \in Int,
         NEW b1 \in Int, NEW b2 \in Int, NEW b3 \in Int, NEW b4 \in Int,
         \/ a1 > b1
         \/ a1 = b1 /\ a2 > b2
         \/ a1 = b1 /\ a2 = b2 /\ a3 > b3
         \/ a1 = b1 /\ a2 = b2 /\ a3 = b3 /\ a4 > b4
  PROVE  NotBefore(<<a1, a2, a3, a4>>, <<b1, b2, b3, b4>>)
<1> DEFINE a == <<a1, a2, a3, a4>>
           b == <<b1, b2, b3, b4>>
<1>1. /\ a[1] = a1 /\ a[2] = a2 /\ a[3] = a3 /\ a[4] = a4
      /\ b[1] = b1 /\ b[2] = b2 /\ b[3] = b3 /\ b[4] = b4
  OBVIOUS
<1> HIDE DEF a, b
<1>2. \E n \in 1..4 : a[n] > b[n] /\ \A m \in 1..(n - 1) : a[m] = b[m]
  BY <1>1
<1> QED
  BY <1>2 DEF NotBefore, a, b

LEMMA StorableForward ==
  ASSUME NEW old \in Cursor, NEW new \in Cursor, old.phase # "done",
         \/ new = old
         \/ new.phase = "done"
         \/ old.phase = "payments" /\ new.phase = "refunds"
         \/ new.phase = old.phase /\ new.page > old.page
         \/ new.phase = old.phase /\ new.page = old.page /\ new.loaded /\ ~old.loaded
         \/ /\ new.phase = old.phase /\ new.page = old.page /\ new.loaded = old.loaded
            /\ new.offset > old.offset
  PROVE  NotBefore(Rank(new), Rank(old))
<1>1. CASE new = old
  BY <1>1 DEF NotBefore
<1>2. CASE new # old
  <2> DEFINE P(cur) == IF cur.phase \in {"payments", "resource"} THEN 0
                       ELSE IF cur.phase = "refunds" THEN 1 ELSE 2
             L(cur) == IF cur.loaded THEN 1 ELSE 0
  <2>1. /\ Rank(new) = <<P(new), new.page, L(new), new.offset>>
        /\ Rank(old) = <<P(old), old.page, L(old), old.offset>>
        /\ new.page \in Int /\ new.offset \in Int
        /\ old.page \in Int /\ old.offset \in Int
    BY RankOf
  <2>2. /\ P(new) \in Int /\ P(old) \in Int /\ L(new) \in Int /\ L(old) \in Int
    OBVIOUS
  <2>3. \/ P(new) > P(old)
        \/ P(new) = P(old) /\ new.page > old.page
        \/ P(new) = P(old) /\ new.page = old.page /\ L(new) > L(old)
        \/ P(new) = P(old) /\ new.page = old.page /\ L(new) = L(old)
           /\ new.offset > old.offset
    BY <1>2 DEF Cursor
  <2> HIDE DEF P, L
  <2>4. NotBefore(<<P(new), new.page, L(new), new.offset>>,
                  <<P(old), old.page, L(old), old.offset>>)
    BY <2>1, <2>2, <2>3, Later
  <2> QED
    BY <2>1, <2>4, Zenon
<1> QED
  BY <1>1, <1>2

\* What a step may do to the row of a job that exists.
Onward(j) ==
  /\ NotBefore(Rank(job'[j].cursor), Rank(job[j].cursor))
  /\ job[j].status = "finished" => job'[j].status = "finished"
  /\ job[j].why = "owner" => job'[j].status = "cancelled"

LEMMA OnwardStill ==
  ASSUME IInv, NEW j \in Job, job'[j].cursor = job[j].cursor,
         job[j].status \in {"finished", "cancelled"} =>
           \/ job'[j].status = job[j].status
           \/ job[j].status = "cancelled" /\ job[j].why # "owner"
  PROVE  Onward(j)
<1>1. job[j].why = "owner" => job[j].status = "cancelled"
  BY Values DEF IInv, Rows, Row
<1> QED
  BY <1>1 DEF Onward, NotBefore

LEMMA OwnerOnward ==
  ASSUME IInv, Owner, NEW j \in Job, job[j].status # "none"
  PROVE  Onward(j)
<1>1. job[j] \in JobRow /\ job' \in [Job -> JobRow]
  BY StepKeeps DEF Next, IInv, TypeOK
<1>2. ASSUME NEW k \in Job, StartImport(k) \/ AcceptWebhook(k) PROVE job'[j] = job[j]
  <2>1. k # j
    BY <1>2, Fresh DEF StartImport, AcceptWebhook
  <2> QED
    BY <1>2, <2>1 DEF StartImport, AcceptWebhook, IInv, TypeOK
<1>3. ASSUME NEW k \in Job, Cancel(k)
      PROVE  job'[j] = job[j] \/ (job'[j].cursor = job[j].cursor /\ job'[j].status = "cancelled"
                                   /\ job[j].status # "finished")
  <2>1. CASE k = j
    <3>1. job'[j] = Cancelled(job[j], "owner") /\ job[j].status # "finished"
      BY <1>3, <2>1 DEF Cancel, IInv, TypeOK
    <3> QED
      BY <1>1, <3>1, CancelledRow
  <2>2. CASE k # j
    BY <1>3, <2>2 DEF Cancel, IInv, TypeOK
  <2> QED
    BY <2>1, <2>2
<1>4. ASSUME NEW k \in Job, Resume(k)
      PROVE  job'[j] = job[j] \/ (job'[j].cursor = job[j].cursor /\ job[j].status = "paused")
  BY <1>4, <1>1 DEF Resume, IInv, TypeOK, JobRow
<1>5. ASSUME NEW c \in Conn, Disconnect(c) \/ ReplaceCredentials(c)
      PROVE  \/ job'[j] = job[j]
             \/ /\ job'[j].cursor = job[j].cursor
                /\ Live(j) \/ (job[j].status = "cancelled" /\ job[j].why = "connection")
  <2>1. /\ conn[c].gen + 1 \in 0..MaxGen
    BY <1>5, Values DEF IInv, TypeOK, ConnRow, Disconnect, ReplaceCredentials
  <2>2. Cancelled(job[j], "connection").cursor = job[j].cursor
    BY <1>1, CancelledRow
  <2>3. Queued(job[j], conn[c].gen + 1).cursor = job[j].cursor
    BY <1>1, <2>1, QueuedRow
  <2>4. CASE Disconnect(c)
    BY <2>2, <2>4 DEF Disconnect, Severed
  <2>5. CASE ReplaceCredentials(c)
    <3>1. job'[j] = IF j \in Revived(c) THEN Queued(job[j], conn[c].gen + 1)
                    ELSE IF j \in OpenImports(Of(c)) THEN Cancelled(job[j], "connection")
                    ELSE job[j]
      BY <2>5 DEF ReplaceCredentials
    <3> QED
      BY <2>2, <2>3, <3>1 DEF Revived, OpenImports
  <2> QED
    BY <1>5, <2>4, <2>5
<1>6. ASSUME NEW c \in Conn, SaveRouting(c) PROVE job'[j] = job[j]
  BY <1>6 DEF SaveRouting
<1>7. job'[j] = job[j] => Onward(j)
  BY OnwardStill
<1>8. CASE \E k \in Job : StartImport(k) \/ AcceptWebhook(k)
  BY <1>2, <1>7, <1>8
<1>9. CASE \E k \in Job : Cancel(k)
  BY <1>3, <1>7, <1>9, OnwardStill
<1>10. CASE \E k \in Job : Resume(k)
  BY <1>4, <1>7, <1>10, OnwardStill
<1>11. CASE \E c \in Conn : Disconnect(c) \/ ReplaceCredentials(c)
  BY <1>5, <1>7, <1>11, OnwardStill, Values DEF Live
<1>12. CASE \E c \in Conn : SaveRouting(c)
  BY <1>6, <1>7, <1>12
<1> QED
  BY <1>8, <1>9, <1>10, <1>11, <1>12 DEF Owner

\* A cursor that a slice may store in place of the one it has read.
Following(old, new) ==
  \/ new = old
  \/ new.phase = "done"
  \/ old.phase = "payments" /\ new.phase = "refunds"
  \/ new.phase = old.phase /\ new.page > old.page
  \/ new.phase = old.phase /\ new.page = old.page /\ new.loaded /\ ~old.loaded
  \/ /\ new.phase = old.phase /\ new.page = old.page /\ new.loaded = old.loaded
     /\ new.offset > old.offset

LEMMA PersistOnward ==
  ASSUME IInv, IInv', NEW w \in Worker, worker[w].pc \in Busyness,
         NEW status, NEW cur, NEW retry, NEW pc,
         cur \in Cursor => Following(worker[w].cursor, cur),
         Persist(w, status, cur, retry, pc),
         NEW j \in Job
  PROVE  Onward(j)
<1>1. CASE job'[j] = job[j]
  BY <1>1, OnwardStill
<1>2. CASE job'[j] # job[j]
  <2>1. /\ j = worker[w].job /\ job[j].token = w
        /\ job' = [job EXCEPT ![j].status = status, ![j].cursor = cur, ![j].retry = retry]
    BY <1>2 DEF Persist, Holds, IInv, TypeOK
  <2>2. /\ job[j] \in JobRow /\ job[j].status = "running" /\ job[j].why = None
        /\ job[j].cursor = worker[w].cursor /\ worker[w].cursor.phase # "done"
    BY <2>1, HeldRow
  <2>3. job'[j].cursor = cur
    BY <2>1, <2>2 DEF IInv, TypeOK, JobRow
  <2>4. job[j].cursor \in Cursor /\ job'[j].cursor \in Cursor
    BY DEF IInv, TypeOK, JobRow
  <2>5. NotBefore(Rank(cur), Rank(job[j].cursor))
    BY <2>2, <2>3, <2>4, StorableForward DEF Following
  <2> QED
    BY <2>2, <2>3, <2>5, Values DEF Onward
<1> QED
  BY <1>1, <1>2

LEMMA SliceOnward ==
  ASSUME IInv, NEW w \in Worker, Slice(w), NEW j \in Job
  PROVE  Onward(j)
<1>1. IInv'
  BY SliceKeeps
<1>2. job'[j] = job[j] => Onward(j)
  BY OnwardStill
<1> DEFINE old == worker[w].cursor
<1>3. ASSUME NEW k \in Job, Claim(w, k) PROVE Onward(j)
  <2>1. job[k].status \in {"queued", "running"}
    BY <1>3 DEF Claim, Claimable
  <2>2. job'[j].cursor = job[j].cursor /\ (j # k => job'[j] = job[j])
    BY <1>3 DEF Claim, IInv, TypeOK, JobRow
  <2> QED
    BY <2>1, <2>2, OnwardStill
<1>4. CASE \/ Open(w) \/ FetchResource(w) \/ LookUp(w) \/ InsertAssignment(w)
           \/ WriteFact(w) \/ Remember(w) \/ RememberIssue(w) \/ Die(w)
  BY <1>2, <1>4 DEF Open, FetchResource, LookUp, InsertAssignment, WriteFact, Remember,
                    RememberIssue, Die
<1>5. CASE FetchPage(w)
  <2>1. worker[w].pc \in Busyness /\ ~old.loaded
    BY <1>5 DEF FetchPage, Busyness
  <2>2. old \in Cursor
    BY <2>1, AtWork DEF Local
  <2>3. CASE Persist(w, "running", [old EXCEPT !.loaded = TRUE], Gone, "loop")
    <3>1. Following(old, [old EXCEPT !.loaded = TRUE])
      BY <2>1, <2>2 DEF Following, Cursor
    <3> QED
      BY <1>1, <2>1, <2>3, <3>1, PersistOnward
  <2>4. CASE Fails(w)
    BY <1>2, <2>4 DEF Fails
  <2> QED
    BY <1>5, <2>3, <2>4 DEF FetchPage
<1>6. CASE EndPage(w)
  <2> DEFINE new == AfterPage(old)
  <2>1. worker[w].pc \in Busyness /\ old.loaded
    BY <1>6 DEF EndPage, Busyness
  <2>2. old \in Cursor /\ Placed(worker[w].job, old)
    BY <2>1, AtWork DEF Local
  <2>3. old.phase \in {"payments", "refunds"} /\ old.page \in Nat
    BY <2>1, <2>2, Listings DEF Placed, Cursor
  <2>4. Following(old, new)
    <3>1. CASE new = NextPage(old)
      <4>1. /\ NextPage(old).phase = old.phase
            /\ NextPage(old).page = old.page + 1
        BY <2>2, PageAfter
      <4>2. NextPage(old).page > old.page
        BY <2>3, <4>1
      <4>3. Following(old, NextPage(old))
        BY <4>1, <4>2 DEF Following
      <4> QED
        BY <3>1, <4>3
    <3>2. CASE old.phase = "payments" /\ new = [Start EXCEPT !.phase = "refunds"]
      BY <3>2, FirstRefunds DEF Following
    <3>3. CASE new = Done
      BY <3>3, Cursors DEF Following
    <3> QED
      BY <2>3, <3>1, <3>2, <3>3 DEF AfterPage
  <2>5. PICK status, pc : Persist(w, status, new, Gone, pc)
    BY <1>6 DEF EndPage
  <2> QED
    BY <1>1, <2>1, <2>4, <2>5, PersistOnward
<1>7. CASE EndSlice(w)
  <2>1. worker[w].pc \in Busyness /\ Persist(w, "queued", old, Gone, "release")
    BY <1>7 DEF EndSlice, Busyness
  <2>2. Following(old, old)
    BY DEF Following
  <2> QED
    BY <1>1, <2>1, <2>2, PersistOnward
<1>8. CASE Advance(w)
  <2>1. worker[w].pc \in Busyness
    BY <1>8 DEF Advance, Busyness, AtResource
  <2>2. old \in Cursor
    BY <2>1, AtWork DEF Local
  <2>3. CASE Persist(w, "running", [old EXCEPT !.offset = @ + 1], Gone, "loop")
    <3>1. Following(old, [old EXCEPT !.offset = @ + 1])
      BY <2>2 DEF Following, Cursor
    <3> QED
      BY <1>1, <2>1, <2>3, <3>1, PersistOnward
  <2>4. CASE Persist(w, "finished", Done, Gone, "release")
    <3>1. Following(old, Done)
      BY Cursors DEF Following
    <3> QED
      BY <1>1, <2>1, <2>4, <3>1, PersistOnward
  <2> QED
    BY <1>8, <2>3, <2>4 DEF Advance
<1>9. CASE Failed(w)
  <2>1. worker[w].pc \in Busyness
    BY <1>9 DEF Failed, Busyness
  <2>2. PICK status, retry : Persist(w, status, old, retry, "release")
    BY <1>9 DEF Failed
  <2>3. Following(old, old)
    BY DEF Following
  <2> QED
    BY <1>1, <2>1, <2>2, <2>3, PersistOnward
<1>10. CASE Release(w)
  <2>1. job'[j] = job[j] \/ job'[j] = Freed(job[j])
    BY <1>10 DEF Release, IInv, TypeOK
  <2>2. job[j] \in JobRow
    BY DEF IInv, TypeOK
  <2>3. job'[j].cursor = job[j].cursor /\ job'[j].status = job[j].status
    BY <2>1, <2>2, FreedRow
  <2> QED
    BY <2>3, OnwardStill
<1> QED
  BY <1>3, <1>4, <1>5, <1>6, <1>7, <1>8, <1>9, <1>10 DEF Slice

LEMMA StepOnward ==
  ASSUME IInv, [Next]_vars, NEW j \in Job, job[j].status # "none"
  PROVE  Onward(j)
<1>1. CASE Owner
  BY <1>1, OwnerOnward
<1>2. ASSUME NEW w \in Worker, Slice(w) PROVE Onward(j)
  BY <1>2, SliceOnward
<1>3. CASE Tick
  <2>1. job[j] \in JobRow
    BY DEF IInv, TypeOK
  <2>2. job'[j].cursor = job[j].cursor /\ job'[j].status = job[j].status
    BY <1>3, <2>1 DEF Tick, JobRow
  <2> QED
    BY <2>2, OnwardStill
<1>4. CASE UNCHANGED vars
  BY <1>4, OnwardStill DEF vars
<1> QED
  BY <1>1, <1>2, <1>3, <1>4 DEF Next

\* The cursor on record never moves back, what is finished stays so, and so
\* does what the owner cancelled.
THEOREM OnlyForward == Spec => Forward
<1>1. IInv /\ [Next]_vars =>
        \A j \in Job : job[j].status # "none" =>
          /\ NotBefore(Rank(job[j].cursor)', Rank(job[j].cursor))
          /\ job[j].status = "finished" => job'[j].status = "finished"
          /\ job[j].why = "owner" => job'[j].status = "cancelled"
  <2> SUFFICES ASSUME IInv, [Next]_vars, NEW j \in Job, job[j].status # "none"
               PROVE  /\ NotBefore(Rank(job[j].cursor)', Rank(job[j].cursor))
                      /\ job[j].status = "finished" => job'[j].status = "finished"
                      /\ job[j].why = "owner" => job'[j].status = "cancelled"
    OBVIOUS
  <2>1. Rank(job[j].cursor)' = Rank(job'[j].cursor)
    BY DEF Rank
  <2> QED
    BY <2>1, StepOnward DEF Onward
<1> QED
  BY <1>1, JobsInvariant, PTL DEF Spec, Forward
=============================================================================
