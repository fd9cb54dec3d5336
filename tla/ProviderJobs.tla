----------------------------- MODULE ProviderJobs -----------------------------
(***************************************************************************)
(* Imports and webhooks of a payment provider.                             *)
(*                                                                         *)
(* A job is a row of payment_provider_jobs.  A worker claims it with a     *)
(* lease, walks the provider's pages from the row's cursor, writes what it *)
(* fetches to the ledger and stores the cursor after every record.  The    *)
(* owner may meanwhile cancel, resume, disconnect, replace the credentials *)
(* (a new generation of the connection) or change the routing.  Workers    *)
(* stop at any await and outlive their leases; every write of theirs is    *)
(* fenced in the statement itself.                                         *)
(*                                                                         *)
(* Times are what is left of them.  A statement that binds Date.now() may  *)
(* commit up to Delay later: it compares with a clock read Late ago.       *)
(* Who calls drainProviderJob when is left open here.                      *)
(***************************************************************************)
EXTENDS Integers, Sequences, FiniteSets

CONSTANTS
  Conn,        \* connections
  Workspace,   \* Workspace[c]: the workspace of c
  Import,      \* jobs of kind import or reconcile
  Webhook,     \* jobs of kind webhook, one per delivery id
  ConnOf,      \* ConnOf[j]: the connection of job j
  Subject,     \* Subject[j]: the resource a webhook names
  Payment, Refund,
  OriginalOf,  \* OriginalOf[r]: the payment a refund is of
  Pages,       \* Pages[phase]: the provider's listing, a sequence of pages
  Filtered,    \* listed resources that are outside of the window or brand
  Target,      \* (application, environment) pairs
  Home,        \* Home[c]: the target of c under exclusive routing
  Exclusive,   \* the routing that needs no rules
  None,
  Worker,      \* queue invocations
  Lease,       \* 30 seconds
  Backoff,     \* the delay before a retry
  Delay,       \* bound on the time between Date.now() and the commit
  MaxGen,      \* bound on the generations of a connection
  Failures,    \* what may go wrong at the provider
  Routing      \* the routings the owner may choose

Job == Import \union Webhook
Resource == Payment \union Refund
Outcome == {"unresolved", "invalid", "retry", "again", "pause"}

ASSUME ProviderAssumption ==
  /\ {Lease, Backoff, Delay} \subseteq Nat /\ MaxGen \in Nat \ {0}
  /\ Lease > Delay
  /\ Import \cap Webhook = {} /\ Payment \cap Refund = {}
  /\ IsFiniteSet(Job)
  /\ None \notin Worker \union Target \union {"owner", "connection"}
  /\ ConnOf \in [Job -> Conn] /\ OriginalOf \in [Refund -> Payment]
  /\ Subject \in [Webhook -> Resource]
  /\ Home \in [Conn -> Target] /\ Exclusive \notin Target \union {None}
  /\ Failures \subseteq Outcome
  /\ Routing \subseteq Target \union {Exclusive, None}

(* A phase lists at least one page, be it empty.                           *)
ASSUME PagesAssumption ==
  /\ Pages \in [{"payments", "refunds"} -> Seq(Seq(Resource)) \ {<<>>}]

VARIABLES
  conn,      \* payment_connections: status, generation, routing
  job,       \* payment_provider_jobs
  worker,    \* each invocation's program counter and locals
  assigned,  \* payment_assignments: where a transaction goes for ever
  ledger,    \* payment_facts: where each fact was recorded
  noted      \* payment_provider_objects with a reason, and issues

vars == <<conn, job, worker, assigned, ledger, noted>>
-----------------------------------------------------------------------------
(* The import cursor: the page, whether its ids are known, the next of     *)
(* them.                                                                   *)
Start == [phase |-> "payments", page |-> 1, loaded |-> FALSE, offset |-> 0]
Single == [Start EXCEPT !.phase = "resource"]
Done == [phase |-> "done", page |-> 1, loaded |-> FALSE, offset |-> 0]
Cursor ==
  [phase : {"payments", "refunds", "resource", "done"}, page : Nat,
   loaded : BOOLEAN, offset : Nat]

Gone == -Delay     \* a lease or a retry time that is past for every reader
Late == 0..Delay

Unborn == [status |-> "none", why |-> None, gen |-> 0, cursor |-> Start,
           token |-> None, left |-> Gone, retry |-> Gone]
Idle == [pc |-> "idle", job |-> None, gen |-> 0, cursor |-> Start,
         mode |-> None, todo |-> <<>>, target |-> None, reason |-> FALSE,
         fault |-> None]

ConnRow == [active : BOOLEAN, gen : 1..MaxGen,
            route : Target \union {Exclusive, None}]
JobRow == [status : {"none", "queued", "running", "paused", "finished",
                     "cancelled"},
           why : {None, "owner", "connection"}, gen : 0..MaxGen,
           cursor : Cursor, token : Worker \union {None},
           left : Gone..Lease, retry : Gone..Backoff]
Local == [pc : {"idle", "open", "loop", "assign", "insert", "write",
                "remember", "issue", "advance", "failed", "release"},
          job : Job \union {None}, gen : 0..MaxGen, cursor : Cursor,
          mode : {None, Exclusive, "products"}, todo : Seq(Resource),
          target : Target \union {None}, reason : BOOLEAN,
          fault : Failures \union {None}]

TypeOK ==
  /\ conn \in [Conn -> ConnRow]
  /\ job \in [Job -> JobRow]
  /\ worker \in [Worker -> Local]
  /\ assigned \in [Conn -> [Payment -> Target \union {None}]]
  /\ ledger \in [Conn -> [Resource -> Target \union {None}]]
  /\ noted \in [Conn -> SUBSET Resource]

Live(j) == job[j].status \in {"queued", "running", "paused"}
Active(j) == /\ conn[ConnOf[j]].active
             /\ conn[ConnOf[j]].gen = job[j].gen
Of(c) == {j \in Job : ConnOf[j] = c}
In(c) == {j \in Job : Workspace[ConnOf[j]] = Workspace[c]}

(* A row that has lost its lease.                                          *)
Freed(row) == [row EXCEPT !.token = None, !.left = Gone]
Cancelled(row, who) == [Freed(row) EXCEPT !.status = "cancelled", !.why = who]
Queued(row, g) == [Freed(row) EXCEPT !.status = "queued", !.why = None,
                                     !.gen = g, !.retry = Gone]
-----------------------------------------------------------------------------
Init ==
  /\ conn = [c \in Conn |-> [active |-> TRUE, gen |-> 1, route |-> Exclusive]]
  /\ job = [j \in Job |-> Unborn]
  /\ worker = [w \in Worker |-> Idle]
  /\ assigned = [c \in Conn |-> [p \in Payment |-> None]]
  /\ ledger = [c \in Conn |-> [r \in Resource |-> None]]
  /\ noted = [c \in Conn |-> {}]

-----------------------------------------------------------------------------
(* The owner and the provider.                                             *)

OpenImports(S) == {j \in Import \cap S : Live(j)}

StartImport(j) ==
  LET c == ConnOf[j] IN
  /\ j \in Import /\ job[j] = Unborn /\ conn[c].active
  /\ OpenImports(Of(c)) = {}
  /\ Cardinality(OpenImports(In(c))) < 2
  /\ job' = [job EXCEPT ![j] = Queued(@, conn[c].gen)]
  /\ UNCHANGED <<conn, worker, assigned, ledger, noted>>

AcceptWebhook(j) ==
  LET c == ConnOf[j] IN
  /\ j \in Webhook /\ job[j] = Unborn /\ conn[c].active
  /\ job' = [job EXCEPT ![j] = [Queued(@, conn[c].gen) EXCEPT !.cursor = Single]]
  /\ UNCHANGED <<conn, worker, assigned, ledger, noted>>

Cancel(j) ==
  /\ job[j].status \notin {"none", "finished"}
  /\ job' = [job EXCEPT ![j] = Cancelled(@, "owner")]
  /\ UNCHANGED <<conn, worker, assigned, ledger, noted>>

(* Refused while the slice that paused the job still holds its lease.      *)
Resume(j) ==
  /\ job[j].status = "paused" /\ Active(j)
  /\ \E d \in Late : job[j].left + d <= 0
  /\ job' = [job EXCEPT ![j].status = "queued", ![j].retry = Gone]
  /\ UNCHANGED <<conn, worker, assigned, ledger, noted>>

(* Both are no-ops unless the connection has the generation the owner saw. *)
SeveredNext(c) == {j \in Of(c) : Live(j) /\ job[j].gen = conn[c].gen + 1}
Severed(c) == {j \in Of(c) : Live(j) /\ job[j].gen = conn[c].gen}
Disconnect(c) ==
  /\ conn[c].gen < MaxGen
  /\ conn' = [conn EXCEPT ![c].active = FALSE, ![c].gen = @ + 1]
  /\ job' = [j \in Job |-> IF j \in Severed(c)
                           THEN Cancelled(job[j], "connection") ELSE job[j]]
  /\ UNCHANGED <<worker, assigned, ledger, noted>>

Revived(c) ==
  {j \in Of(c) \cap Webhook :
     Live(j) \/ (job[j].status = "cancelled" /\ job[j].why = "connection")}
ReplaceCredentials(c) ==
  /\ conn[c].gen < MaxGen
  /\ conn' = [conn EXCEPT ![c].active = TRUE, ![c].gen = @ + 1]
  /\ job' = [j \in Job |->
       IF j \in Revived(c) THEN Queued(job[j], conn[c].gen + 1)
       ELSE IF j \in OpenImports(Of(c)) THEN Cancelled(job[j], "connection")
       ELSE job[j]]
  /\ UNCHANGED <<worker, assigned, ledger, noted>>

SaveRouting(c) ==
  /\ conn[c].active
  /\ \E r \in Routing : conn' = [conn EXCEPT ![c].route = r]
  /\ UNCHANGED <<job, worker, assigned, ledger, noted>>
-----------------------------------------------------------------------------
(* drainProviderJob.                                                       *)

Busy(j, d) == job[j].status = "running" /\ job[j].left + d > 0

ClaimableAlongside(j, d) ==
  /\ job[j].status = "queued" \/ (job[j].status = "running" /\ job[j].left + d <= 0)
  /\ job[j].retry + d <= 0 /\ Active(j)
  /\ Cardinality({k \in In(ConnOf[j]) \ {j} : Busy(k, d)}) < 2
Claimable(j, d) ==
  LET c == ConnOf[j] IN
  /\ job[j].status = "queued" \/ (job[j].status = "running" /\ job[j].left + d <= 0)
  /\ job[j].retry + d <= 0
  /\ Active(j)
  /\ ~ \E k \in Of(c) \ {j} : Busy(k, d)
  /\ Cardinality({k \in In(c) \ {j} : Busy(k, d)}) < 2

Claim(w, j) ==
  /\ worker[w] = Idle
  /\ \E d \in Late :
       /\ Claimable(j, d)
       /\ job' = [job EXCEPT ![j].status = "running", ![j].token = w,
                             ![j].left = Lease - d]
  /\ worker' = [worker EXCEPT ![w] =
       [Idle EXCEPT !.pc = "open", !.job = j, !.gen = job[j].gen,
                    !.cursor = job[j].cursor]]
  /\ UNCHANGED <<conn, assigned, ledger, noted>>

(* The connection as this slice saw it.                                    *)
Current(w) ==
  LET c == conn[ConnOf[worker[w].job]] IN c.active /\ c.gen = worker[w].gen

Go(w, pc) == worker' = [worker EXCEPT ![w].pc = pc]
Leave(w) == worker' = [worker EXCEPT ![w] =
                         [Idle EXCEPT !.pc = "release", !.job = worker[w].job]]

(* A slice that finds the connection changed has lost its row with it, so  *)
(* that the pause it attempts is refused.                                  *)
Open(w) ==
  /\ worker[w].pc = "open"
  /\ LET j == worker[w].job
         c == conn[ConnOf[j]]
     IN IF Current(w)
        THEN worker' = [worker EXCEPT
               ![w].pc = "loop",
               ![w].mode = IF c.route = Exclusive THEN Exclusive ELSE "products"]
        ELSE Leave(w)
  /\ UNCHANGED <<conn, job, assigned, ledger, noted>>

HoldsAnyLease(w, d) ==
  LET j == worker[w].job IN job[j].gen = worker[w].gen /\ Current(w)
(* The fence of persist; it compares with the JavaScript clock.            *)
Holds(w, d) ==
  LET j == worker[w].job IN
  /\ job[j].token = w /\ job[j].left + d > 0
  /\ job[j].gen = worker[w].gen /\ Current(w)

(* persist: all of it or an exception.  What follows the exception is a    *)
(* second persist, which is refused as well, and the release.              *)
Persist(w, status, cursor, retry, pc) ==
  LET j == worker[w].job IN
  \E d \in Late :
    IF Holds(w, d)
    THEN /\ job' = [job EXCEPT ![j].status = status, ![j].cursor = cursor,
                               ![j].retry = retry]
         /\ worker' = [worker EXCEPT ![w] =
              [Idle EXCEPT !.pc = pc, !.job = j, !.gen = worker[w].gen,
                           !.cursor = cursor, !.mode = worker[w].mode]]
    ELSE Leave(w) /\ UNCHANGED job

Page(cur) == Pages[cur.phase][cur.page]
ListedButLast(cur) == cur.offset + 1 < Len(Page(cur))
Listed(cur) == cur.offset < Len(Page(cur))
NextPage(cur) == [cur EXCEPT !.page = @ + 1, !.loaded = FALSE, !.offset = 0]
AfterPage(cur) ==
  IF cur.page < Len(Pages[cur.phase]) THEN NextPage(cur)
  ELSE IF cur.phase = "payments" THEN [Start EXCEPT !.phase = "refunds"]
  ELSE Done

(* What goes wrong at the provider ends the slice.                         *)
Fails(w) ==
  \E f \in Failures \cap {"retry", "again", "pause"} :
    /\ worker' = [worker EXCEPT ![w].pc = "failed", ![w].fault = f]
    /\ UNCHANGED job

FetchPage(w) ==
  LET cur == worker[w].cursor IN
  /\ worker[w].pc = "loop" /\ cur.phase \in DOMAIN Pages /\ ~cur.loaded
  /\ \/ Persist(w, "running", [cur EXCEPT !.loaded = TRUE], Gone, "loop")
     \/ Fails(w)
  /\ UNCHANGED <<conn, assigned, ledger, noted>>

EndPage(w) ==
  LET cur == worker[w].cursor
      next == AfterPage(cur)
  IN
  /\ worker[w].pc = "loop" /\ cur.loaded /\ ~Listed(cur)
  /\ Persist(w, IF next = Done THEN "finished" ELSE "running", next, Gone,
             IF next = Done THEN "release" ELSE "loop")
  /\ UNCHANGED <<conn, assigned, ledger, noted>>

(* 25 records, 8 requests or 18 seconds.                                   *)
EndSlice(w) ==
  /\ worker[w].pc = "loop" /\ worker[w].cursor.phase \in DOMAIN Pages
  /\ Persist(w, "queued", worker[w].cursor, Gone, "release")
  /\ UNCHANGED <<conn, assigned, ledger, noted>>
-----------------------------------------------------------------------------
(* One resource.                                                           *)

At(w) ==
  LET v == worker[w] IN
  IF v.job \in Webhook THEN Subject[v.job] ELSE Page(v.cursor)[v.cursor.offset + 1]

FactsAlone(r) == <<r>>
(* A refund is recorded after its original.                                *)
Facts(r) == IF r \in Refund THEN <<OriginalOf[r], r>> ELSE <<r>>

FetchResource(w) ==
  LET r == At(w)
      Processed(pc, todo, reason) ==
        worker' = [worker EXCEPT ![w].pc = pc, ![w].todo = todo, ![w].reason = reason]
  IN
  /\ worker[w].pc = "loop"
  /\ worker[w].cursor.phase = "resource" \/ (worker[w].cursor.loaded /\ Listed(worker[w].cursor))
  /\ \/ IF worker[w].job \in Import /\ r \in Filtered
        THEN Processed("advance", <<>>, FALSE)
        ELSE Processed("assign", Facts(r), FALSE)
     \/ "unresolved" \in Failures /\ Processed("remember", <<r>>, TRUE)
     \/ "invalid" \in Failures /\ Processed("issue", <<r>>, TRUE)
     \/ Fails(w)
  /\ UNCHANGED <<conn, job, assigned, ledger, noted>>

FenceOfConnection(w) == Current(w)
(* The fence of the writes; it is evaluated with the database's clock.     *)
Fence(w) ==
  LET j == worker[w].job IN
  /\ job[j].token = w /\ job[j].left > 0 /\ job[j].status = "running"
  /\ job[j].gen = worker[w].gen /\ Current(w)

Fact(w) == Head(worker[w].todo)
Transaction(r) == IF r \in Refund THEN OriginalOf[r] ELSE r

(* assignOriginal looks for the assignment, then for the destination.      *)
Destination(w) ==
  LET c == ConnOf[worker[w].job] IN
  IF worker[w].mode = Exclusive THEN Home[c]
  ELSE IF conn[c].route \in Target THEN conn[c].route ELSE None

LookUp(w) ==
  LET there == assigned[ConnOf[worker[w].job]][Transaction(Fact(w))] IN
  /\ worker[w].pc = "assign"
  /\ worker' = [worker EXCEPT ![w] =
       IF there # None THEN [@ EXCEPT !.pc = "write", !.target = there]
       ELSE IF Destination(w) # None
            THEN [@ EXCEPT !.pc = "insert", !.target = Destination(w)]
       ELSE [@ EXCEPT !.pc = "remember", !.reason = TRUE]]
  /\ UNCHANGED <<conn, job, assigned, ledger, noted>>

(* The routing that was looked up is checked again where it is used.       *)
RouteStands(w) ==
  LET c == ConnOf[worker[w].job] IN
  conn[c].route = IF worker[w].mode = Exclusive THEN Exclusive ELSE worker[w].target

InsertAssignment(w) ==
  LET c == ConnOf[worker[w].job]
      t == Transaction(Fact(w))
  IN
  /\ worker[w].pc = "insert"
  /\ assigned' = IF Fence(w) /\ RouteStands(w) /\ assigned[c][t] = None
                 THEN [assigned EXCEPT ![c][t] = worker[w].target] ELSE assigned
  /\ worker' = [worker EXCEPT ![w] =
       IF assigned'[c][t] # None
       THEN [@ EXCEPT !.pc = "write", !.target = assigned'[c][t]]
       ELSE [@ EXCEPT !.pc = "remember", !.reason = TRUE]]
  /\ UNCHANGED <<conn, job, ledger, noted>>

WriteFactRerouted(w) ==
  LET c == ConnOf[worker[w].job]
      f == Fact(w)
  IN
  /\ worker[w].pc = "write"
  /\ IF Fence(w) /\ Destination(w) # None
     THEN /\ ledger' = [ledger EXCEPT ![c][f] = IF @ = None THEN Destination(w) ELSE @]
          /\ Go(w, "remember")
     ELSE Leave(w) /\ UNCHANGED ledger
  /\ UNCHANGED <<conn, job, assigned, noted>>
(* D1PaymentLedger.record.  A fact may conflict with others on record, or  *)
(* with what it was itself when it was recorded.                           *)
WriteFact(w) ==
  LET c == ConnOf[worker[w].job]
      f == Fact(w)
  IN
  /\ worker[w].pc = "write"
  /\ \/ /\ Fence(w) /\ assigned[c][Transaction(f)] = worker[w].target
        /\ ledger' = [ledger EXCEPT ![c][f] = IF @ = None THEN worker[w].target ELSE @]
        /\ Go(w, "remember")
     \/ /\ Fence(w)
        /\ worker' = [worker EXCEPT ![w].pc = "remember", ![w].reason = TRUE]
        /\ UNCHANGED ledger
     \/ /\ ~Fence(w)
        /\ Leave(w) /\ UNCHANGED ledger
  /\ UNCHANGED <<conn, job, assigned, noted>>

(* remember.  A refund whose original could not be recorded is noted too.  *)
Remember(w) ==
  LET c == ConnOf[worker[w].job]
      v == worker[w]
      more == Len(v.todo) = 2
  IN
  /\ v.pc = "remember"
  /\ IF Fence(w)
     THEN /\ noted' = [noted EXCEPT ![c] =
               IF v.reason THEN @ \union {Fact(w)} ELSE @ \ {Fact(w)}]
          /\ worker' = [worker EXCEPT
               ![w].pc = IF ~more THEN "advance"
                         ELSE IF v.reason THEN "remember" ELSE "assign",
               ![w].todo = Tail(@)]
     ELSE Leave(w) /\ UNCHANGED noted
  /\ UNCHANGED <<conn, job, assigned, ledger>>

RememberIssueSilently(w) ==
  /\ worker[w].pc = "issue" /\ Go(w, "advance")
  /\ UNCHANGED <<conn, job, assigned, ledger, noted>>
RememberIssue(w) ==
  LET c == ConnOf[worker[w].job] IN
  /\ worker[w].pc = "issue"
  /\ IF Fence(w)
     THEN /\ noted' = [noted EXCEPT ![c] = @ \union {Fact(w)}]
          /\ Go(w, "advance")
     ELSE Leave(w) /\ UNCHANGED noted
  /\ UNCHANGED <<conn, job, assigned, ledger>>

Advance(w) ==
  LET cur == worker[w].cursor IN
  /\ worker[w].pc = "advance"
  /\ IF worker[w].job \in Import
     THEN Persist(w, "running", [cur EXCEPT !.offset = @ + 1], Gone, "loop")
     ELSE Persist(w, "finished", Done, Gone, "release")
  /\ UNCHANGED <<conn, assigned, ledger, noted>>
-----------------------------------------------------------------------------
(* The catch block: back in the queue, or paused until the owner resumes.  *)
Failed(w) ==
  LET f == worker[w].fault IN
  /\ worker[w].pc = "failed"
  /\ Persist(w, IF f = "pause" THEN "paused" ELSE "queued", worker[w].cursor,
             IF f = "retry" THEN Backoff ELSE Gone, "release")
  /\ UNCHANGED <<conn, assigned, ledger, noted>>

(* The finally block.                                                      *)
Release(w) ==
  LET j == worker[w].job IN
  /\ worker[w].pc = "release"
  /\ job' = IF job[j].token = w THEN [job EXCEPT ![j] = Freed(@)] ELSE job
  /\ worker' = [worker EXCEPT ![w] = Idle]
  /\ UNCHANGED <<conn, assigned, ledger, noted>>

(* The invocation ends at an await, without its catch and finally blocks.  *)
Die(w) ==
  /\ worker[w] # Idle
  /\ worker' = [worker EXCEPT ![w] = Idle]
  /\ UNCHANGED <<conn, job, assigned, ledger, noted>>

SoonerUnbounded(n) == n - 1
Sooner(n) == IF n > Gone THEN n - 1 ELSE Gone
Tick ==
  /\ job' = [j \in Job |-> [job[j] EXCEPT !.left = Sooner(@), !.retry = Sooner(@)]]
  /\ job' # job
  /\ UNCHANGED <<conn, worker, assigned, ledger, noted>>
-----------------------------------------------------------------------------
Owner ==
  \/ \E j \in Job : StartImport(j) \/ AcceptWebhook(j) \/ Cancel(j) \/ Resume(j)
  \/ \E c \in Conn : Disconnect(c) \/ ReplaceCredentials(c) \/ SaveRouting(c)

Slice(w) ==
  \/ \E j \in Job : Claim(w, j)
  \/ Open(w) \/ FetchPage(w) \/ EndPage(w) \/ EndSlice(w)
  \/ FetchResource(w) \/ LookUp(w) \/ InsertAssignment(w) \/ WriteFact(w)
  \/ Remember(w) \/ RememberIssue(w) \/ Advance(w)
  \/ Failed(w) \/ Release(w) \/ Die(w)

Next == Owner \/ (\E w \in Worker : Slice(w)) \/ Tick

Spec == Init /\ [][Next]_vars

-----------------------------------------------------------------------------
(* PROPERTIES.                                                             *)

(* At most one job of a connection, and two of a workspace, run under a    *)
(* live lease (drainProviderJob's conditions across rows).                 *)
OneLease ==
  \A c \in Conn :
    /\ Cardinality({j \in Of(c) : Busy(j, 0)}) <= 1
    /\ Cardinality({j \in In(c) : Busy(j, 0)}) <= 2

(* No live job is left behind by its connection: every queued, running or  *)
(* paused job has the connection's current generation, without which no    *)
(* wake, claim or resume would take it any more.                           *)
NoStrandedJob == \A j \in Job : Live(j) => Active(j)

(* A transaction and all its refunds are recorded under one destination,   *)
(* the assignment, whatever became of the routing rules in between.        *)
OneDestination ==
  \A c \in Conn, r \in Resource :
    ledger[c][r] # None => ledger[c][r] = assigned[c][Transaction(r)]

(* A provider refund is on record only together with its original.         *)
RefundsHaveOriginals ==
  \A c \in Conn, r \in Refund :
    ledger[c][r] # None => ledger[c][OriginalOf[r]] # None

(* A finished import has skipped nothing: whatever was interrupted on the  *)
(* way, each listed resource of the window is recorded or reported as      *)
(* unresolved.                                                             *)
ListedIn(phase) ==
  UNION {{Pages[phase][n][i] : i \in 1..Len(Pages[phase][n])} : n \in 1..Len(Pages[phase])}
NothingSkipped ==
  \A j \in Import : job[j].status = "finished" =>
    \A r \in (ListedIn("payments") \union ListedIn("refunds")) \ Filtered :
      ledger[ConnOf[j]][r] # None \/ r \in noted[ConnOf[j]]

(* The cursor on record never moves back, a finished job stays finished    *)
(* and what the owner cancelled stays cancelled, in spite of slices that   *)
(* outlived their lease and of new credentials.                            *)
Rank(cur) ==
  <<CASE cur.phase \in {"payments", "resource"} -> 0
      [] cur.phase = "refunds" -> 1
      [] OTHER -> 2,
    cur.page, IF cur.loaded THEN 1 ELSE 0, cur.offset>>
NotBefore(a, b) ==
  \/ a = b
  \/ \E n \in 1..4 : /\ a[n] > b[n]
                      /\ \A m \in 1..(n - 1) : a[m] = b[m]
Forward ==
  [][\A j \in Job : job[j].status # "none" =>
       /\ NotBefore(Rank(job[j].cursor)', Rank(job[j].cursor))
       /\ job[j].status = "finished" => job'[j].status = "finished"
       /\ job[j].why = "owner" => job'[j].status = "cancelled"]_vars

(* What a connection has recorded, assigned or noted changes only while it *)
(* is connected and exactly one of its jobs holds a live lease.            *)
Fenced ==
  [][\A c \in Conn :
       \/ ledger'[c] # ledger[c] \/ assigned'[c] # assigned[c] \/ noted'[c] # noted[c]
       => /\ conn[c].active
          /\ \E j \in Of(c) : Busy(j, 0) /\ job[j].gen = conn[c].gen]_vars
=============================================================================
