--------------------------- MODULE EndpointArchive ---------------------------
(***************************************************************************)
(* The history of one endpoint series over one UTC day: rows per minute,   *)
(* hour and day in D1, their compaction into verified R2 objects, and the  *)
(* reports that read rows and objects together.                            *)
(*                                                                         *)
(* A row is its request count; the other counters move with it.  Contents  *)
(* address an object, so its key is the resolution with the counts.  Times *)
(* within the day are minutes, the age of the day is what the cutoffs of   *)
(* compaction tell apart.                                                  *)
(***************************************************************************)
EXTENDS Integers, FiniteSetsExt

CONSTANTS
  Query,      \* reports
  Compactor,  \* compactEndpointRollupPartition invocations
  Hour,       \* minutes of an hour
  Day,        \* minutes of a day
  BusyMinute, \* minutes that see requests
  Requests    \* bound on the recorded requests

ArchiveScale ==
  /\ {Hour, Day} \subseteq Nat \ {0} /\ 1 < Hour /\ Hour < Day
  /\ Day % Hour = 0
  /\ Requests \in Nat /\ BusyMinute \subseteq 0..(Day - 1)

VARIABLES
  hot,        \* endpoint_rollups: per resolution and bucket, the row's count
  age,        \* 0: hot, 1: past 35 days, 2: past 400 days
  objects,    \* keys R2 holds
  manifests,  \* endpoint_cold_archives: key -> "shadow" or "retired"
  run,        \* per compactor: program counter and locals
  ask         \* per report: program counter and locals

vars == <<hot, age, objects, manifests, run, ask>>
-----------------------------------------------------------------------------
Minute == 0..(Day - 1)
Resolution == {1, Hour, Day}
Buckets(r) == {b \in Minute : b % r = 0}

Down(t, r) == (t \div r) * r
Up(t, r) == ((t + r - 1) \div r) * r

Sum(f, S) == MapThenSumSet(LAMBDA i : f[i], S)
Filled(f) == {b \in DOMAIN f : f[b] > 0}
Snapshots(r) == [Buckets(r) -> 0..Requests]
Key == UNION {[res : {r}, rows : Snapshots(r)] : r \in {1, Hour}}

\* Interiors of whole days and hours, minutes at the edges.
Carve(ranges, r) ==
  UNION {LET start == Up(g.from, r)
             end == Down(g.to, r)
         IN IF g.res # 1 \/ start >= end
            THEN {g}
            ELSE {x \in {[g EXCEPT !.to = start],
                         [from |-> start, to |-> end, res |-> r],
                         [g EXCEPT !.from = end]} : x.from < x.to} :
         g \in ranges}
endpointReadRanges(from, to) ==
  Carve(Carve({[from |-> from, to |-> to, res |-> 1]}, Day), Hour)

Selected(r, ranges) ==
  {b \in Buckets(r) :
     \E g \in ranges : g.res = r /\ g.from <= b /\ b < g.to}
-----------------------------------------------------------------------------
NoRun == [pc |-> "idle", res |-> 1, snap |-> [b \in Buckets(1) |-> 0],
          removed |-> FALSE]
NoAsk == [pc |-> "idle", total |-> 0, wanted |-> {}]

TypeOK ==
  /\ hot \in [Resolution -> UNION {Snapshots(r) : r \in Resolution}]
  /\ \A r \in Resolution : DOMAIN hot[r] = Buckets(r)
  /\ age \in 0..2
  /\ objects \subseteq Key
  /\ DOMAIN manifests \subseteq Key
  /\ \A k \in DOMAIN manifests : manifests[k] \in {"shadow", "retired"}
  /\ \A c \in Compactor :
       /\ run[c].pc \in {"idle", "snapshot", "hours", "days", "put",
                         "readback", "record", "retire"}
       /\ run[c].res \in {1, Hour} /\ run[c].removed \in BOOLEAN
  /\ \A q \in Query :
       /\ ask[q].pc \in {"idle", "fetch", "done"}
       /\ ask[q].wanted \subseteq Key

Init ==
  /\ hot = [r \in Resolution |-> [b \in Buckets(r) |-> 0]]
  /\ age = 0
  /\ objects = {}
  /\ manifests = << >>
  /\ run = [c \in Compactor |-> NoRun]
  /\ ask = [q \in Query |-> NoAsk]

Tick ==
  /\ age < 2
  /\ age' = age + 1
  /\ UNCHANGED <<hot, objects, manifests, run, ask>>

\* One transaction adds a measurement to its row of every resolution.
Counted(i) == [r \in Resolution |-> [hot[r] EXCEPT ![Down(i, r)] = @ + 1]]
Record(i) ==
  /\ hot' = Counted(i)
  /\ hot'[Day][0] <= Requests
  /\ UNCHANGED <<age, objects, manifests, run, ask>>
-----------------------------------------------------------------------------
(* One compaction: each step is a statement or an R2 call.                 *)
Eligible(r) == (r = 1 /\ age >= 1) \/ (r = Hour /\ age = 2)
Candidates == {r \in {1, Hour} : Eligible(r) /\ Filled(hot[r]) # {}}
KeyOf(c) == [res |-> run[c].res, rows |-> run[c].snap]

Goto(c, pc) == run' = [run EXCEPT ![c].pc = pc]
Stop(c) == run' = [run EXCEPT ![c] = NoRun]

Candidate(c) ==
  /\ run[c].pc = "idle"
  /\ Candidates # {}
  /\ run' = [run EXCEPT ![c].pc = "snapshot", ![c].res = Min(Candidates)]
  /\ UNCHANGED <<hot, age, objects, manifests, ask>>

Snapshot(c) ==
  /\ run[c].pc = "snapshot"
  /\ LET rows == hot[run[c].res]
     IN IF Filled(rows) = {}
        THEN Stop(c)
        ELSE run' = [run EXCEPT ![c].snap = rows,
               ![c].pc = IF run[c].res = 1 THEN "hours" ELSE "days"]
  /\ UNCHANGED <<hot, age, objects, manifests, ask>>

\* verifyCoarser: the rows of a coarser resolution are the sums of the
\* snapshot's, no row missing and none left over.
Agrees(snap, r) ==
  \A b \in Buckets(r) :
    hot[r][b] = Sum(snap, {i \in DOMAIN snap : Down(i, r) = b})
VerifyCoarser(c) ==
  /\ run[c].pc \in {"hours", "days"}
  /\ IF run[c].pc = "hours"
     THEN IF Agrees(run[c].snap, Hour) THEN Goto(c, "days") ELSE Stop(c)
     ELSE IF Agrees(run[c].snap, Day) THEN Goto(c, "put") ELSE Stop(c)
  /\ UNCHANGED <<hot, age, objects, manifests, ask>>

PutUnread(c) ==
  /\ run[c].pc = "put"
  /\ objects' \in {objects, objects \union {KeyOf(c)}}
  /\ Goto(c, "record")
  /\ UNCHANGED <<hot, age, manifests, ask>>

\* A failing put may have stored the object; only the readback decides.
Put(c) ==
  /\ run[c].pc = "put"
  /\ objects' \in {objects, objects \union {KeyOf(c)}}
  /\ Goto(c, "readback")
  /\ UNCHANGED <<hot, age, manifests, ask>>

ReadBack(c) ==
  /\ run[c].pc = "readback"
  /\ IF KeyOf(c) \in objects THEN Goto(c, "record") ELSE Stop(c)
  /\ UNCHANGED <<hot, age, objects, manifests, ask>>

\* INSERT ... ON CONFLICT DO NOTHING, then the stored row.
RecordManifest(c) ==
  /\ run[c].pc = "record"
  /\ manifests' = IF KeyOf(c) \in DOMAIN manifests
                  THEN manifests
                  ELSE [k \in DOMAIN manifests \union {KeyOf(c)} |->
                          IF k = KeyOf(c) THEN "shadow" ELSE manifests[k]]
  /\ run' = [run EXCEPT ![c].pc = "retire",
                        ![c].removed = manifests'[KeyOf(c)] = "retired"]
  /\ UNCHANGED <<hot, age, objects, ask>>

UnchangedKeys(c) == Filled(run[c].snap) \subseteq Filled(hot[run[c].res])
\* Rows that still are what the snapshot holds, and no others.
Unchanged(c) ==
  LET rows == hot[run[c].res]
      matched == {b \in Filled(run[c].snap) : rows[b] = run[c].snap[b]}
  IN /\ matched = Filled(run[c].snap)
     /\ Cardinality(Filled(rows)) = Cardinality(Filled(run[c].snap))
RetirableAgain(c) == Unchanged(c)
Retirable(c) == manifests[KeyOf(c)] = "shadow" /\ Unchanged(c)

RetireSnapshot(c) ==
  /\ run[c].pc = "retire"
  /\ IF ~run[c].removed /\ Retirable(c)
     THEN /\ manifests' = [manifests EXCEPT ![KeyOf(c)] = "retired"]
          /\ hot' = [hot EXCEPT ![run[c].res] =
               [b \in DOMAIN @ |->
                  IF b \in Filled(run[c].snap) THEN 0 ELSE @[b]]]
     ELSE UNCHANGED <<manifests, hot>>
  /\ Stop(c)
  /\ UNCHANGED <<age, objects, ask>>

\* The time budget ends, a call fails, or the invocation dies.
Abandon(c) ==
  /\ run[c].pc # "idle"
  /\ Stop(c)
  /\ UNCHANGED <<hot, age, objects, manifests, ask>>

-----------------------------------------------------------------------------
(* A report.  While the range is hot only D1 is read.                      *)
RetiredAndShadow(ranges) ==
  {k \in DOMAIN manifests : \E g \in ranges : g.res = k.res}
Retired(ranges) ==
  {k \in DOMAIN manifests :
     manifests[k] = "retired" /\ \E g \in ranges : g.res = k.res}

\* The hot SELECT and the manifests' share a transaction; an object's rows
\* are fixed by its key, so the total is known once both are read.
ReadHistory(q, from, to) ==
  /\ ask[q].pc # "fetch"
  /\ LET ranges == endpointReadRanges(from, to)
         wanted == IF age = 0 THEN {} ELSE Retired(ranges)
         Cold(k) == Sum(k.rows, Selected(k.res, ranges))
         Hot(r) == Sum(hot[r], Selected(r, ranges))
     IN ask' = [ask EXCEPT ![q] =
          [pc |-> "fetch", wanted |-> wanted,
           total |-> MapThenSumSet(Hot, Resolution)
                       + MapThenSumSet(Cold, wanted)]]
  /\ UNCHANGED <<hot, age, objects, manifests, run>>

ReadArchives(q) ==
  /\ ask[q].pc = "fetch"
  /\ IF ask[q].wanted \subseteq objects
     THEN ask' = [ask EXCEPT ![q].pc = "done", ![q].wanted = {}]
     ELSE ask' = [ask EXCEPT ![q] = NoAsk]
  /\ UNCHANGED <<hot, age, objects, manifests, run>>

\* Ten seconds are over, or a bound on objects, rows or bytes is exceeded.
ReadFails(q) ==
  /\ ask[q].pc = "fetch"
  /\ ask' = [ask EXCEPT ![q] = NoAsk]
  /\ UNCHANGED <<hot, age, objects, manifests, run>>
-----------------------------------------------------------------------------
Compact(c) ==
  \/ Candidate(c) \/ Snapshot(c) \/ VerifyCoarser(c) \/ Put(c)
  \/ ReadBack(c) \/ RecordManifest(c) \/ RetireSnapshot(c) \/ Abandon(c)

Report(q) ==
  \/ \E from, to \in 0..Day : from < to /\ ReadHistory(q, from, to)
  \/ ReadArchives(q) \/ ReadFails(q)

Next ==
  \/ Tick
  \/ \E i \in BusyMinute : Record(i)
  \/ \E c \in Compactor : Compact(c)
  \/ \E q \in Query : Report(q)

Spec == Init /\ [][Next]_vars
-----------------------------------------------------------------------------
\* A manifest never names an object that was not stored and read back: what
\* retirement deletes from D1 can be read from its object
\* (putAndVerifyObject before recordVerifiedManifest).
ManifestsBacked == DOMAIN manifests \subseteq objects

\* The archive is invisible: with a minute's count taken from its row and the
\* retired objects together, every run is one of EndpointHistory.  No request
\* is lost or counted twice by a retirement, whichever of two compactors
\* retires and whatever arrives late, and a report that mixes rows of three
\* resolutions with objects shows the counts of a single moment.
ColdMinutes == {k \in DOMAIN manifests : k.res = 1 /\ manifests[k] = "retired"}
Counts ==
  LET cold == ColdMinutes
  IN [i \in Minute |-> hot[1][i] + MapThenSumSet(LAMBDA k : k.rows[i], cold)]
ReportOf(a) ==
  [state |-> CASE a.pc = "idle" -> "idle" [] a.pc = "fetch" -> "pending"
               [] a.pc = "done" -> "answered",
   value |-> a.total]

Reports == [q \in Query |-> ReportOf(ask[q])]

History == INSTANCE EndpointHistory WITH
  LastMinute <- Day - 1, counts <- Counts, report <- Reports

ArchiveInvisible == History!Spec
=============================================================================
