-------------------------- MODULE ProductMaintenance --------------------------
(***************************************************************************)
(* The wake chain of the product archive's maintenance.                    *)
(*                                                                         *)
(* The hourly cron, and requests that leave compaction work behind, start  *)
(* a chain by writing a fresh token into the single row of                 *)
(* product_archive_maintenance and sending it through a queue.  The        *)
(* consumer that owns the row's token runs one slice of cleanup and        *)
(* compaction, then sends the chain's next token or ends it.  The queue    *)
(* delivers late, more than once or not at all; every step may fail.       *)
(*                                                                         *)
(* Times are what is left of them, so that the model has finitely many     *)
(* states.  A token that nothing mentions any more may be drawn again.     *)
(***************************************************************************)
EXTENDS Integers, FiniteSets

CONSTANTS
  Token,     \* what crypto.randomUUID draws
  Legacy,    \* the wake of schema version 1, which carries no token
  None,
  Consumer,  \* queue invocations (max_concurrency of them)
  Cron,      \* the scheduled handler
  Request,   \* product ingest requests with compaction work left over
  Lease,     \* 60 seconds: wake_until
  Delay,     \* bound on the queue's delivery of a message
  Pause,     \* 30 seconds: the delay of a retry
  Life,      \* bound on how long an actor takes
  Period,    \* 1 hour: from one cron to the next
  Slices,    \* bound on the slices of due work
  Faults     \* bound on the failures of a behaviour

Message == Token \union {Legacy}
Actor == Consumer \union Request \union {Cron}

ASSUME MaintenanceAssumption ==
  /\ {Lease, Delay, Pause, Life, Period, Slices, Faults} \subseteq Nat
  /\ Legacy \notin Token /\ None \notin Nat \union Message
  /\ Request \intersect Consumer = {} /\ Cron \notin Request \union Consumer
  /\ Lease > 0

VARIABLES
  row,     \* wake_token with its processing: prefix, and what is left of
           \* wake_until
  queue,   \* for each message, None or the time left until its delivery
  actor,   \* each actor's program counter and locals
  due,     \* slices of cleanup and compaction work there are
  cron,    \* time left until the next cron
  faults,  \* failures so far
  seen     \* history: what has gone wrong ("overrun": a run outlived its
           \* lease; "seized": a failed duplicate gave back the token of a
           \* run; "lost", "raced": how the current token's message went)

vars == <<row, queue, actor, due, cron, faults, seen>>
-----------------------------------------------------------------------------
(* A batch is delivered whole; msg is the message the loop is at.          *)
Idle == [pc |-> "idle", batch |-> {}, msg |-> None, token |-> None,
         ran |-> FALSE, age |-> 0]

TypeOK ==
  /\ row \in [token : Token \union {None}, processing : BOOLEAN,
              left : 0..Lease]
  /\ queue \in [Message -> 0..(Delay + Pause) \union {None}]
  /\ actor \in [Actor ->
       [pc : {"idle", "next", "check", "consume", "look", "running", "ended",
              "maintain", "sending", "restoring", "failed"},
        batch : SUBSET Message, msg : Message \union {None},
        token : Token \union {None}, ran : BOOLEAN, age : 0..Life]]
  /\ due \in 0..Slices
  /\ cron \in 0..Period
  /\ faults \in 0..Faults
  /\ seen \subseteq {"overrun", "seized", "lost", "raced"}

Init ==
  /\ row = [token |-> None, processing |-> FALSE, left |-> 0]
  /\ queue \in {[[m \in Message |-> None] EXCEPT ![Legacy] = d] :
                  d \in {None, Delay}}
  /\ actor = [a \in Actor |-> Idle]
  /\ due = 0
  /\ cron = Period
  /\ faults = 0
  /\ seen = {}
-----------------------------------------------------------------------------
Wake(t) == row.token = t /\ ~row.processing
Processing(t) == row.token = t /\ row.processing
WakeRow(t, left) == [token |-> t, processing |-> FALSE, left |-> left]

Put(m, delay) == [queue EXCEPT ![m] = delay]
Goto(a, pc) == [actor EXCEPT ![a].pc = pc]

(* A fresh UUID: nothing mentions it.  Which one it is makes no difference.  *)
Fresh(t) ==
  /\ row.token # t /\ queue[t] = None
  /\ \A a \in Actor :
       t # actor[a].msg /\ t # actor[a].token /\ t \notin actor[a].batch
Drawn == CHOOSE t \in Token : Fresh(t)

(* The consumers whose slice runs, those that have yet to use or to give   *)
(* up the row after theirs, and which of them the row names.               *)
Running == {w \in Consumer : actor[w].pc \in {"running", "ended"}}
Continuing ==
  {w \in Consumer : actor[w].pc = "maintain" /\ actor[w].msg # Legacy}
Owning == Running \union Continuing
Holds(w, t) == actor[w].msg = t /\ Processing(t)

Noted(what, if) == IF if THEN seen \union {what} ELSE seen

(* Something fails that may fail.                                          *)
Fault == faults < Faults /\ faults' = faults + 1

(* What maintainProductArchive's caller does next: a consumer acknowledges *)
(* the message, having run if it was of version 2; anyone else is done.    *)
Acked(a) ==
  [actor EXCEPT ![a].pc = "next", ![a].msg = None, ![a].token = None,
                ![a].ran = @ \/ actor[a].msg # Legacy]
Returned(a) == IF a \in Consumer THEN Acked(a) ELSE [actor EXCEPT ![a] = Idle]
Thrown(a) == IF a \in Consumer THEN Goto(a, "failed")
             ELSE [actor EXCEPT ![a] = Idle]
-----------------------------------------------------------------------------
(* maintainProductArchive                                                  *)

(* The UPDATE takes the row if it is still what the caller consumed, if no *)
(* chain runs, or if the chain's lease is over.                            *)
OwnsPrevious(a) ==
  a \in Consumer /\ actor[a].msg # Legacy /\ Processing(actor[a].msg)

TakeableNever(a) == OwnsPrevious(a) \/ row.token = None
Takeable(a) == OwnsPrevious(a) \/ row.token = None \/ row.left = 0

Maintain(a) ==
  /\ actor[a].pc = "maintain"
  /\ IF Takeable(a)
       THEN /\ \E t \in Token : Fresh(t)
            /\ row' = WakeRow(Drawn, Lease)
            /\ actor' = [actor EXCEPT ![a].pc = "sending", ![a].token = Drawn]
            /\ seen' = seen \ {"lost", "raced"}
       ELSE actor' = Returned(a) /\ UNCHANGED <<row, seen>>
  /\ UNCHANGED <<queue, due, cron, faults>>

Send(a) ==
  /\ actor[a].pc = "sending"
  /\ queue' = Put(actor[a].token, Delay)
  /\ actor' = Returned(a)
  /\ UNCHANGED <<row, due, cron, faults, seen>>

(* A send that throws may have sent.                                       *)
SendFails(a) ==
  /\ actor[a].pc = "sending" /\ Fault
  /\ queue' \in {queue, Put(actor[a].token, Delay)}
  /\ actor' = Goto(a, "restoring")
  /\ UNCHANGED <<row, due, cron, seen>>

(* catch: the consumed wake comes back, open to its redelivery.            *)
RestoredSuccessor(a) == actor[a].token
Restored(a) ==
  IF a \in Consumer /\ actor[a].msg # Legacy THEN actor[a].msg ELSE None

Restore(a) ==
  /\ actor[a].pc = "restoring"
  /\ row' = IF Wake(actor[a].token) THEN WakeRow(Restored(a), 0) ELSE row
  /\ actor' = Thrown(a)
  /\ UNCHANGED <<queue, due, cron, faults, seen>>
-----------------------------------------------------------------------------
(* consumeProductMaintenance                                               *)

Deliverable(m) == queue[m] # None /\ queue[m] <= Delay

(* A batch is delivered; of one message a duplicate may stay behind.       *)
Deliver(w, batch) ==
  /\ actor[w].pc = "idle" /\ batch # {}
  /\ \A m \in batch : Deliverable(m)
  /\ \/ /\ queue' = [m \in Message |-> IF m \in batch THEN None ELSE queue[m]]
        /\ UNCHANGED faults
     \/ /\ Fault
        /\ \E d \in batch : queue' =
             [m \in Message |-> IF m \in batch \ {d} THEN None ELSE queue[m]]
  /\ actor' = [actor EXCEPT ![w] =
                 [Idle EXCEPT !.pc = "next", !.batch = batch]]
  /\ UNCHANGED <<row, due, cron, seen>>

(* for (const message of messages): once a slice ran, a wake that is still *)
(* current waits for another batch.                                        *)
NextMessage(w) ==
  /\ actor[w].pc = "next" /\ actor[w].batch # {}
  /\ \E m \in actor[w].batch : actor' = [actor EXCEPT
       ![w].batch = @ \ {m}, ![w].msg = m,
       ![w].pc = IF m = Legacy THEN "maintain"
                 ELSE IF actor[w].ran THEN "check" ELSE "consume"]
  /\ UNCHANGED <<row, queue, due, cron, faults, seen>>

EndBatch(w) ==
  /\ actor[w].pc = "next" /\ actor[w].batch = {}
  /\ actor' = [actor EXCEPT ![w] = Idle]
  /\ UNCHANGED <<row, queue, due, cron, faults, seen>>

Check(w) ==
  /\ actor[w].pc = "check"
  /\ IF Wake(actor[w].msg)
       THEN /\ queue' = Put(actor[w].msg, Delay)
            /\ actor' = [actor EXCEPT ![w].pc = "next", ![w].msg = None]
       ELSE actor' = Goto(w, "consume") /\ UNCHANGED queue
  /\ UNCHANGED <<row, due, cron, faults, seen>>

(* consumeOne's claim: the wake is current, or the run that was processing *)
(* it has outlived its lease.                                              *)
ClaimableProcessing(t) == Wake(t) \/ Processing(t)
Claimable(t) == Wake(t) \/ (Processing(t) /\ row.left = 0)

Consume(w) ==
  /\ actor[w].pc = "consume"
  /\ LET t == actor[w].msg IN
     IF Claimable(t)
       THEN /\ row' = [token |-> t, processing |-> TRUE, left |-> Lease]
            /\ actor' = [actor EXCEPT ![w].pc = "running", ![w].age = 0]
       ELSE actor' = Goto(w, "look") /\ UNCHANGED row
  /\ UNCHANGED <<queue, due, cron, faults, seen>>

(* A wake that is being processed is redelivered: its run may yet die.     *)
Busy(t) == Processing(t) /\ row.left > 0

Look(w) ==
  /\ actor[w].pc = "look"
  /\ actor' = [actor EXCEPT ![w].pc = "next", ![w].msg = None]
  /\ queue' = IF Busy(actor[w].msg)
                THEN Put(actor[w].msg, Delay + Pause) ELSE queue
  /\ seen' = Noted("raced", Processing(actor[w].msg) /\ row.left = 0)
  /\ UNCHANGED <<row, due, cron, faults>>

(* cleanupProductArchive and compactProductArchive: one bounded slice.     *)
RunSlice(w) ==
  /\ actor[w].pc = "running"
  /\ due' = IF due = 0 THEN 0 ELSE due - 1
  /\ actor' = Goto(w, IF due' > 0 THEN "maintain" ELSE "ended")
  /\ UNCHANGED <<row, queue, cron, faults, seen>>

EndChain(w) ==
  /\ actor[w].pc = "ended"
  /\ row' = IF Processing(actor[w].msg) THEN WakeRow(None, 0) ELSE row
  /\ actor' = Acked(w)
  /\ UNCHANGED <<queue, due, cron, faults, seen>>

Throw(w) ==
  /\ actor[w].pc \in {"check", "consume", "look", "running", "ended"}
  /\ Fault
  /\ actor' = Goto(w, "failed")
  /\ UNCHANGED <<row, queue, due, cron, seen>>

(* So may maintainProductArchive's statements.                             *)
MaintainThrows(a) ==
  /\ actor[a].pc \in {"maintain", "restoring"} /\ Fault
  /\ actor' = Thrown(a)
  /\ seen' = Noted("lost", row.token # None /\ row.token = actor[a].token)
  /\ UNCHANGED <<row, queue, due, cron>>

(* catch: the wake is current again, and retried.                          *)
UnclaimedNull(t) == WakeRow(t, None)
Unclaimed(t) == WakeRow(t, 0)

Failed(w) ==
  /\ actor[w].pc = "failed"
  /\ LET m == actor[w].msg IN
     /\ row' = IF m # Legacy /\ Processing(m) THEN Unclaimed(m) ELSE row
     /\ queue' = Put(m, Delay + Pause)
     /\ actor' = [actor EXCEPT ![w].pc = "next", ![w].msg = None,
                               ![w].token = None]
     /\ seen' = Noted("seized", \E v \in Owning : v # w /\ Holds(v, m))
  /\ UNCHANGED <<due, cron, faults>>
-----------------------------------------------------------------------------
(* The environment                                                         *)

(* The isolate ends: the queue delivers the messages again.                *)
Die(a) ==
  /\ actor[a].pc # "idle" /\ Fault
  /\ queue' = [m \in Message |->
       IF m \in actor[a].batch \union {actor[a].msg} THEN Delay ELSE queue[m]]
  /\ actor' = [actor EXCEPT ![a] = Idle]
  /\ seen' = Noted("lost", row.token # None /\ row.token = actor[a].token)
  /\ UNCHANGED <<row, due, cron>>

(* A message exhausts its retries, or is lost otherwise.                   *)
Lose(m) ==
  /\ queue[m] # None /\ Fault
  /\ queue' = Put(m, None)
  /\ seen' = Noted("lost", row.token = m)
  /\ UNCHANGED <<row, actor, due, cron>>

(* Retention runs out, or segments come in.                                *)
WorkArrives ==
  /\ due = 0
  /\ due' \in 1..Slices
  /\ UNCHANGED <<row, queue, actor, cron, faults, seen>>

CronFires ==
  /\ cron = 0 /\ actor[Cron].pc = "idle"
  /\ cron' = Period
  /\ actor' = Goto(Cron, "maintain")
  /\ UNCHANGED <<row, queue, due, faults, seen>>

(* compactAfterAcceptance found more to do.                                *)
RequestCalls(r) ==
  /\ actor[r].pc = "idle"
  /\ actor' = Goto(r, "maintain")
  /\ UNCHANGED <<row, queue, due, cron, faults, seen>>

Less(x) == IF x = 0 THEN 0 ELSE x - 1

(* Time passes; deliveries, actors and the cron are punctual.              *)
Tick ==
  /\ cron > 0
  /\ \A m \in Message : queue[m] # 0
  /\ \A a \in Actor : actor[a].pc # "idle" => actor[a].age < Life
  /\ row' = [row EXCEPT !.left = Less(@)]
  /\ queue' = [m \in Message |->
                 IF queue[m] = None THEN None ELSE queue[m] - 1]
  /\ actor' = [a \in Actor |-> IF actor[a].pc = "idle" THEN Idle
                ELSE [actor[a] EXCEPT !.age = @ + 1]]
  /\ cron' = cron - 1
  /\ seen' = Noted("overrun", \E w \in Owning : actor[w].age + 1 >= Lease)
  /\ UNCHANGED <<due, faults>>

Works(w) ==
  \/ NextMessage(w) \/ EndBatch(w) \/ Check(w) \/ Consume(w) \/ Look(w)
  \/ RunSlice(w) \/ EndChain(w) \/ Failed(w)
Maintains(a) == Maintain(a) \/ Send(a) \/ Restore(a)
Delivers == \E w \in Consumer, batch \in SUBSET Message : Deliver(w, batch)

Next ==
  \/ \E w \in Consumer : Works(w) \/ Throw(w)
  \/ \E a \in Actor : Maintains(a) \/ SendFails(a) \/ MaintainThrows(a) \/ Die(a)
  \/ \E m \in Message : Lose(m)
  \/ \E r \in Request : RequestCalls(r)
  \/ Delivers \/ WorkArrives \/ CronFires \/ Tick

Spec == Init /\ [][Next]_vars

(* The platform runs what it started, delivers, and keeps time; nothing    *)
(* obliges requests or work to come, or a failure to happen.               *)
Fairness ==
  /\ \A w \in Consumer : WF_vars(Works(w))
  /\ \A a \in Actor : WF_vars(Maintains(a))
  /\ WF_vars(Delivers) /\ WF_vars(CronFires) /\ WF_vars(Tick)

FairSpec == Spec /\ Fairness
-----------------------------------------------------------------------------
(* Properties                                                              *)

(* As long as every run keeps to its lease and no failed duplicate gave a  *)
(* held token back, no two runs overlap, whatever was delivered twice,     *)
(* lost or restored: the claim on the row's token in consumeOne.           *)
Exclusive ==
  {"overrun", "seized"} \intersect seen # {} \/ Cardinality(Running) <= 1

Carried ==
  \/ row.token = None
  \/ queue[row.token] # None
  \/ \E a \in Actor : row.token \in {actor[a].msg, actor[a].token}
                                      \union actor[a].batch

(* The row never waits for a message that nobody carries: its token is in  *)
(* the queue or with an actor, after any failed send, failed slice or      *)
(* duplicate, unless the message was lost or a redelivery found the lease  *)
(* to end between its two reads.                                           *)
ChainAlive == {"lost", "raced"} \intersect seen # {} \/ Carried

(* A duplicate of a wake that is being processed does not reset the row    *)
(* under the run that holds it, while the run's lease lasts: what the test *)
(* of the deferred duplicate says.                                         *)
OwnershipKept ==
  [][\A w \in Running :
       Holds(w, actor[w].msg) /\ row.left > 0 /\ actor'[w].pc = actor[w].pc
         => row'.token = row.token /\ row'.processing]_vars

(* Due work gets done, after however many failures: by the chain, or by    *)
(* the next cron when the chain broke (wake_until in maintain).            *)
WorkDone == due > 0 ~> due = 0
=============================================================================
