---------------------------- MODULE ProviderWakes ----------------------------
(***************************************************************************)
(* Who wakes the jobs of a payment connection.                             *)
(*                                                                         *)
(* A queued job carries a wake token, reserved in its row before the       *)
(* message that names it is sent.  A delivery claims the token, runs one   *)
(* slice of the job unless a sibling runs, and sends the job's next wake,  *)
(* or that of a sibling when the job needs no more.  The hourly pump wakes *)
(* whatever is due and has no reservation.                                 *)
(*                                                                         *)
(* Leases, reservations and retry times are true until they end; when they *)
(* end is left open, and a fault if it is earlier than they promise.  What *)
(* a slice writes is in ProviderJobs.                                      *)
(***************************************************************************)
EXTENDS Integers, FiniteSets

CONSTANTS
  Job,       \* the jobs of one connection
  Tokens,    \* bound on the wake tokens in use
  Consumer,  \* queue invocations
  Owner,     \* requests of the owner and webhooks
  Pump,      \* the scheduled handler
  None,
  Slices,    \* bound on the slices of a job
  Faults     \* bound on the failures of a behaviour

WakeToken == 1..Tokens
Message == [job : Job, token : WakeToken \union {None}]  \* None: schema version 1
Actor == Consumer \union {Owner, Pump}

WakeScale ==
  /\ {Tokens, Slices} \subseteq Nat \ {0} /\ Faults \in Nat
  /\ None \notin WakeToken \union Message \union Consumer
  /\ Owner # Pump /\ {Owner, Pump} \cap Consumer = {}

VARIABLES
  job,     \* payment_provider_jobs
  queue,   \* messages not yet acknowledged
  actor,   \* each actor's program counter and locals
  faults,
  seen     \* history, per job: "broken" (its wake was lost, or came to nothing
           \* while the job was not live), "twice" (two deliveries of one of its
           \* messages overlapped)

vars == <<job, queue, actor, faults, seen>>
-----------------------------------------------------------------------------
Idle == [pc |-> "idle", job |-> None, msg |-> None, new |-> None,
         ready |-> FALSE]
Unborn == [status |-> "unborn", todo |-> Slices, holder |-> None,
           lease |-> FALSE, rest |-> FALSE, token |-> None,
           processing |-> FALSE, reserved |-> FALSE]

TypeOK ==
  /\ job \in [Job ->
       [status : {"unborn", "queued", "running", "paused", "finished", "cancelled"},
        todo : 0..Slices, holder : Consumer \union {None}, lease : BOOLEAN,
        rest : BOOLEAN, token : WakeToken \union {None}, processing : BOOLEAN,
        reserved : BOOLEAN]]
  /\ queue \subseteq Message
  /\ \A a \in Actor :
       /\ actor[a].pc \in {"idle", "claim", "look", "drain", "slice", "reread",
                           "clear", "sibling", "wake", "send", "restore",
                           "ack", "failed"}
  /\ faults \in 0..Faults
  /\ seen \in [Job -> SUBSET {"broken", "twice"}]

\* At the deployment of the wake tokens jobs may have been queued, with messages
\* of schema version 1.
Init ==
  /\ \E old \in SUBSET Job :
       /\ job = [j \in Job |-> IF j \in old THEN [Unborn EXCEPT !.status = "queued"]
                               ELSE Unborn]
       /\ queue = {[job |-> j, token |-> None] : j \in old}
  /\ actor = [a \in Actor |-> Idle]
  /\ faults = 0
  /\ seen = [j \in Job |-> {}]
-----------------------------------------------------------------------------
Live(j) == job[j].status \in {"queued", "running"}
Goto(a, pc) == actor' = [actor EXCEPT ![a].pc = pc]
At(a, pc) == actor[a].pc = pc
Fault == faults < Faults /\ faults' = faults + 1
Noted(j, what, if) == IF if THEN [seen EXCEPT ![j] = @ \union {what}] ELSE seen

Used == {job[j].token : j \in Job} \union {m.token : m \in queue}
          \union {actor[a].new : a \in Actor}
          \union {actor[a].msg.token : a \in {b \in Actor : actor[b].msg # None}}
Wake(row, t) ==
  [row EXCEPT !.token = t, !.processing = FALSE, !.reserved = t # None]
\* The row holds the token that this consumer's message has claimed.
Claims(w) ==
  LET m == actor[w].msg IN
  /\ m # None /\ m.token # None
  /\ job[m.job].token = m.token /\ job[m.job].processing
Previous(a) == a \in Consumer /\ actor[a].msg.job = actor[a].job /\ Claims(a)

\* Where the caller of wakeProviderJob goes on, and where it goes if that
\* throws: the owner's requests report success all the same.
Returned(a) ==
  IF a \in Consumer THEN [actor EXCEPT ![a].pc = "ack", ![a].new = None]
  ELSE [actor EXCEPT ![a] = Idle]
Thrown(a) ==
  IF a \in Consumer THEN [actor EXCEPT ![a].pc = "failed", ![a].new = None]
  ELSE [actor EXCEPT ![a] = Idle]
-----------------------------------------------------------------------------
(* wakeProviderJob                                                         *)

\* The reservation: over the consumed token, none, or one that has run out.
Reservable(a, j) ==
  Previous(a) \/ job[j].token = None \/ ~job[j].reserved

Reserve(a) ==
  /\ At(a, "wake")
  /\ LET j == actor[a].job IN
     IF Live(j) /\ Reservable(a, j)
     THEN /\ WakeToken \ Used # {}
          /\ LET t == CHOOSE t \in WakeToken \ Used : TRUE IN
             /\ job' = [job EXCEPT ![j] = Wake(@, t)]
             /\ actor' = [actor EXCEPT ![a].pc = "send", ![a].new = t]
          /\ seen' = [seen EXCEPT ![j] = @ \ {"broken"}]
     ELSE /\ actor' = Returned(a)
          /\ seen' = Noted(j, "broken", Previous(a))
          /\ UNCHANGED job
  /\ UNCHANGED <<queue, faults>>

Sent(a) == [job |-> actor[a].job, token |-> actor[a].new]
Send(a) ==
  /\ At(a, "send")
  /\ queue' = queue \union {Sent(a)}
  /\ actor' = Returned(a)
  /\ UNCHANGED <<job, faults, seen>>

\* A send that throws may have sent.
SendFails(a) ==
  /\ At(a, "send") /\ Fault
  /\ queue' \in {queue, queue \union {Sent(a)}}
  /\ Goto(a, "restore")
  /\ UNCHANGED <<job, seen>>

\* The consumed token comes back, open to its redelivery.
RestoredNone(a) == None
Restored(a) == IF a \in Consumer /\ actor[a].job = actor[a].msg.job
               THEN actor[a].msg.token ELSE None
Restore(a) ==
  LET j == actor[a].job IN
  /\ At(a, "restore")
  /\ IF job[j].token = actor[a].new /\ ~job[j].processing
     THEN /\ job' = [job EXCEPT ![j] = [Wake(@, Restored(a)) EXCEPT !.reserved = FALSE]]
          /\ seen' = Noted(j, "broken", \/ a \notin Consumer
                                      \/ actor[a].msg \notin [job : {j}, token : WakeToken])
     ELSE UNCHANGED <<job, seen>>
  /\ actor' = Thrown(a)
  /\ UNCHANGED <<queue, faults>>

\* The statement may throw, too: the new token stays, and nobody has it.
RestoreFails(a) ==
  /\ At(a, "restore") /\ Fault
  /\ seen' = Noted(actor[a].job, "broken", job[actor[a].job].token = actor[a].new)
  /\ actor' = Thrown(a)
  /\ UNCHANGED <<job, queue>>
-----------------------------------------------------------------------------
(* consumeOne                                                              *)
\* Only the first messages of a batch run; whether the job is due, and live,
\* is what the first SELECT finds.
Deliver(w, m, run) ==
  LET j == m.job IN
  /\ At(w, "idle") /\ m \in queue
  /\ actor' = [actor EXCEPT ![w] =
       [Idle EXCEPT !.job = j, !.msg = m,
          !.pc = IF m.token # None THEN "claim" ELSE IF Live(j) THEN "wake" ELSE "ack",
          !.new = IF Live(j) THEN None ELSE m.token,
          !.ready = run /\ ~job[j].rest /\ ~job[j].lease]]
  /\ seen' = Noted(j, "twice", \E v \in Consumer : actor[v].msg = m)
  /\ UNCHANGED <<job, queue, faults>>

ClaimableProcessing(w) == job[actor[w].job].token = actor[w].msg.token
Claimable(w) ==
  LET row == job[actor[w].job] IN
  row.token = actor[w].msg.token /\ (~row.processing \/ ~row.reserved)

\* A job that was not live at the first SELECT keeps the claim: new stands for
\* that until the message is acknowledged.
Claim(w) ==
  LET j == actor[w].job IN
  /\ At(w, "claim")
  /\ IF Live(j) /\ Claimable(w)
     THEN /\ job' = [job EXCEPT ![j].processing = TRUE, ![j].reserved = TRUE]
          /\ actor' = [actor EXCEPT ![w].new = None, ![w].pc =
               IF actor[w].new # None THEN "ack"
               ELSE IF actor[w].ready THEN "drain" ELSE "reread"]
          /\ seen' = Noted(j, "broken", actor[w].new # None)
     ELSE /\ actor' = [actor EXCEPT ![w].pc = "look", ![w].new = None]
          /\ seen' = Noted(j, "broken", ~Live(j) /\ job[j].token = actor[w].msg.token)
          /\ UNCHANGED job
  /\ UNCHANGED <<queue, faults>>

\* A wake that is being processed is retried when its claim has run out.
Look(w) ==
  LET m == actor[w].msg
      retried == Claims(w) /\ job[m.job].reserved
  IN
  /\ At(w, "look")
  /\ queue' = IF retried THEN queue ELSE queue \ {m}
  /\ actor' = [actor EXCEPT ![w] = Idle]
  /\ UNCHANGED <<job, faults, seen>>

\* drainProviderJob's claim: nothing else of the connection holds a lease.
Drainable(j) ==
  /\ Live(j) /\ ~job[j].rest /\ ~job[j].lease
  /\ \A k \in Job \ {j} : ~job[k].lease
Drain(w) ==
  LET j == actor[w].job IN
  /\ At(w, "drain")
  /\ IF Drainable(j)
     THEN /\ job' = [job EXCEPT ![j].status = "running", ![j].holder = w, ![j].lease = TRUE]
          /\ Goto(w, "slice")
     ELSE Goto(w, "reread") /\ UNCHANGED job
  /\ UNCHANGED <<queue, faults, seen>>

\* What a slice makes of its job, if it still holds the lease.
Slice(w) ==
  LET j == actor[w].job
      freed == [job[j] EXCEPT !.holder = None, !.lease = FALSE]
  IN
  /\ At(w, "slice")
  /\ IF job[j].holder = w /\ job[j].lease
     THEN \/ /\ job' = [job EXCEPT ![j] = [freed EXCEPT !.todo = @ - 1,
                          !.status = IF freed.todo = 1 THEN "finished" ELSE "queued"]]
             /\ UNCHANGED faults
          \/ /\ Fault
             /\ \/ job' = [job EXCEPT ![j] = [freed EXCEPT !.status = "paused"]]
                \/ job' = [job EXCEPT ![j] = [freed EXCEPT !.status = "queued", !.rest = TRUE]]
     ELSE /\ job' = [job EXCEPT ![j] = IF @.holder = w THEN freed ELSE @]
          /\ UNCHANGED faults
  /\ Goto(w, "reread")
  /\ UNCHANGED <<queue, seen>>

Reread(w) ==
  /\ At(w, "reread")
  /\ Goto(w, IF Live(actor[w].job) THEN "wake" ELSE "clear")
  /\ UNCHANGED <<job, queue, faults, seen>>

Clear(w) ==
  LET j == actor[w].job IN
  /\ At(w, "clear")
  /\ job' = [job EXCEPT ![j] = IF Claims(w) THEN Wake(@, None) ELSE @]
  /\ seen' = Noted(j, "broken", Claims(w) /\ Live(j))
  /\ Goto(w, "sibling")
  /\ UNCHANGED <<queue, faults>>

Sibling(w) ==
  /\ At(w, "sibling")
  /\ LET others == {k \in Job \ {actor[w].job} : Live(k)}
     IN IF others = {} THEN Goto(w, "ack")
        ELSE \E k \in others :
               actor' = [actor EXCEPT ![w].pc = "wake", ![w].job = k]
  /\ UNCHANGED <<job, queue, faults, seen>>

Ack(w) ==
  /\ At(w, "ack")
  /\ queue' = queue \ {actor[w].msg}
  /\ actor' = [actor EXCEPT ![w] = Idle]
  /\ UNCHANGED <<job, faults, seen>>

Throw(w) ==
  /\ actor[w].pc \in {"claim", "look", "drain", "slice", "reread", "clear",
                      "sibling", "wake"}
  /\ Fault
  /\ Goto(w, "failed")
  /\ UNCHANGED <<job, queue, seen>>

\* catch: the message's token is current again, and the message retried.
Unclaimed(row) == [Wake(row, row.token) EXCEPT !.reserved = FALSE]
Failed(w) ==
  LET j == actor[w].msg.job IN
  /\ At(w, "failed")
  /\ job' = [job EXCEPT ![j] = IF Claims(w) THEN Unclaimed(@) ELSE @]
  /\ actor' = [actor EXCEPT ![w] = Idle]
  /\ UNCHANGED <<queue, faults, seen>>
-----------------------------------------------------------------------------
(* The owner, webhooks, the pump.                                          *)
Call(j) == actor' = [actor EXCEPT ![Owner] = [Idle EXCEPT !.pc = "wake", !.job = j]]

\* startProviderImport, persistWebhook and a webhook that is sent again.
Start(j) ==
  /\ At(Owner, "idle") /\ (job[j].status = "unborn" \/ Live(j))
  /\ job' = [job EXCEPT ![j].status = IF @ = "unborn" THEN "queued" ELSE @]
  /\ Call(j)
  /\ UNCHANGED <<queue, faults, seen>>

Resume(j) ==
  /\ At(Owner, "idle") /\ job[j].status = "paused"
  /\ job' = [job EXCEPT ![j].status = "queued", ![j].rest = FALSE]
  /\ Call(j)
  /\ UNCHANGED <<queue, faults, seen>>

\* replaceProviderCredentials moves the connection's webhook jobs to its new
\* generation, which no message names, and wakes the first.
Requeued(row) == [Wake(row, None) EXCEPT !.status = "queued", !.rest = FALSE,
                                         !.holder = None, !.lease = FALSE]
Replace ==
  LET moved == {j \in Job : job[j].status \in {"queued", "running", "paused"}} IN
  /\ At(Owner, "idle") /\ Fault
  /\ \E j \in moved : Call(j)
  /\ job' = [j \in Job |-> IF j \in moved THEN Requeued(job[j]) ELSE job[j]]
  /\ seen' = [j \in Job |-> IF j \in moved THEN seen[j] \union {"broken"} ELSE seen[j]]
  /\ UNCHANGED queue

\* cancelProviderJob, disconnectProvider
Cancel(j) ==
  /\ job[j].status \in {"queued", "running", "paused"}
  /\ job' = [job EXCEPT ![j] = [Wake(@, None) EXCEPT !.status = "cancelled",
                                  !.holder = None, !.lease = FALSE, !.rest = FALSE]]
  /\ UNCHANGED <<queue, actor, faults, seen>>

\* pumpProviderJobs
DueTokenless == {j \in Job : /\ Live(j) /\ ~job[j].rest /\ ~job[j].lease
                             /\ job[j].token = None}
Due == {j \in Job : /\ Live(j) /\ ~job[j].rest /\ ~job[j].lease
                    /\ (job[j].token = None \/ ~job[j].reserved)}
\* The calls a pass makes for what it found due are calls of their own here.
CronFires ==
  /\ At(Pump, "idle")
  /\ \E j \in Due :
       actor' = [actor EXCEPT ![Pump] = [Idle EXCEPT !.pc = "wake", !.job = j]]
  /\ UNCHANGED <<job, queue, faults, seen>>
-----------------------------------------------------------------------------
(* Time and failures.                                                      *)
Die(a) ==
  /\ ~At(a, "idle") /\ Fault
  /\ actor' = [actor EXCEPT ![a] = Idle]
  /\ seen' = [j \in Job |-> IF actor[a].job = j THEN seen[j] \union {"broken"} ELSE seen[j]]
  /\ UNCHANGED <<job, queue>>

\* The queue gives up a message it has retried too often.
Lose(m) ==
  /\ m \in queue /\ (\A a \in Actor : actor[a].msg # m) /\ Fault
  /\ queue' = queue \ {m}
  /\ seen' = Noted(m.job, "broken", TRUE)
  /\ UNCHANGED <<job, actor>>

\* A slice may outlive its lease.
LeaseEnds(j) ==
  /\ job[j].lease
  /\ job' = [job EXCEPT ![j].lease = FALSE]
  /\ IF job[j].holder \in Consumer /\ At(job[j].holder, "slice") THEN Fault ELSE UNCHANGED faults
  /\ UNCHANGED <<queue, actor, seen>>

\* So may a delivery, or a message that comes a minute late.
Carries(a, j) ==
  \/ At(a, "send") /\ actor[a].new = job[j].token
  \/ /\ a \in Consumer /\ actor[a].msg = [job |-> j, token |-> job[j].token]
     /\ actor[a].pc \in {"drain", "slice", "reread", "clear", "wake", "restore", "failed"}
ReservationEnds(j) ==
  LET awaited == \/ \E a \in Actor : Carries(a, j)
                 \/ ~job[j].processing /\ [job |-> j, token |-> job[j].token] \in queue
  IN
  /\ job[j].token # None /\ job[j].reserved
  /\ job' = [job EXCEPT ![j].reserved = FALSE]
  /\ IF awaited THEN Fault ELSE UNCHANGED faults
  /\ UNCHANGED <<queue, actor, seen>>

RestEnds(j) ==
  /\ job[j].rest
  /\ job' = [job EXCEPT ![j].rest = FALSE]
  /\ UNCHANGED <<queue, actor, faults, seen>>
-----------------------------------------------------------------------------
Wakes(a) == Reserve(a) \/ Send(a) \/ Restore(a)
Works(w) ==
  \/ Claim(w) \/ Look(w) \/ Drain(w) \/ Slice(w) \/ Reread(w) \/ Clear(w)
  \/ Sibling(w) \/ Ack(w) \/ Failed(w)
DeliversOf(j) == \E w \in Consumer, m \in queue : m.job = j /\ Deliver(w, m, TRUE)
Lapses == \E j \in Job : LeaseEnds(j) \/ ReservationEnds(j) \/ RestEnds(j)

Next ==
  \/ \E a \in Actor : Wakes(a) \/ SendFails(a) \/ RestoreFails(a) \/ Die(a)
  \/ \E w \in Consumer : Works(w) \/ Throw(w) \/ \E m \in queue, run \in BOOLEAN : Deliver(w, m, run)
  \/ \E j \in Job : Start(j) \/ Resume(j) \/ Cancel(j)
  \/ Replace \/ CronFires
  \/ \E m \in queue : Lose(m)
  \/ Lapses

Spec == Init /\ [][Next]_vars

\* The platform delivers, runs what it started and fires the cron; time passes.
\* A message that is retried is in the end among the first of a batch.
Fairness ==
  /\ \A a \in Actor : WF_vars(Wakes(a) \/ (a \in Consumer /\ Works(a)))
  /\ \A j \in Job : SF_vars(DeliversOf(j))
  /\ WF_vars(CronFires) /\ WF_vars(Lapses)
FairSpec == Spec /\ Fairness
-----------------------------------------------------------------------------
\* A live job's wake is in the queue, or with an actor that will send or
\* consume it, unless a crash or a failed send of somebody else's broke its
\* chain: no failed slice, failed send of its own consumer, busy sibling or
\* duplicate does.
Carried(j) ==
  \/ \E a \in Actor : actor[a].job = j /\ actor[a].pc \in {"wake", "send", "restore"}
  \/ \E m \in queue : m.job = j /\ m.token \in {job[j].token, None}
ChainAlive ==
  \A j \in Job : Live(j) => Carried(j) \/ seen[j] \cap {"broken", "twice"} # {}

\* Every live job is worked off in the end, paused or cancelled, after
\* whatever failures: by its chain, its siblings' or the pump.
WorkDone == \A j \in Job : Live(j) ~> ~Live(j)
=============================================================================
