------------------------------ MODULE NodeClient ------------------------------
(***************************************************************************)
(* The delivery pipeline of the JavaScript SDK (packages/node).            *)
(*                                                                         *)
(* record, log and track put items in three bounded queues; a timer, a     *)
(* full queue, flush and close start a drain, which sends one batch at a   *)
(* time, first every endpoint event, then every log, then every product    *)
(* event.  JavaScript runs to completion: whatever is called while a drain *)
(* waits for a response or a backoff finds it as it stands.                *)
(*                                                                         *)
(* Items are counted, not told apart.                                      *)
(***************************************************************************)
EXTENDS Integers

CONSTANTS
  MaxQueueSize,  \* bound on the three queues together
  MaxBatchSize,  \* a queue this long is flushed at once
  MaxRetries,
  Items          \* bound on the items of a behaviour

ClientScale ==
  /\ MaxQueueSize \in Nat \ {0} /\ MaxBatchSize \in Nat \ {0}
  /\ MaxRetries \in Nat /\ Items \in Nat

(* The queues, in the order a drain takes them: 1 queue, 2 logQueue,       *)
(* 3 productQueue.                                                         *)
Kind == 1..3

VARIABLES
  queue,     \* the length of each queue
  drain,     \* the drain behind the promise in flushing, if any
  timer,     \* the flush timer is set
  awaiting,  \* a timer's callback waits for its flush to settle
  closed,
  closing,   \* close's promise
  count      \* history and diagnostics: recorded items and their fates

vars == <<queue, drain, timer, awaiting, closed, closing, count>>
-----------------------------------------------------------------------------
NoDrain == [pc |-> "none", kind |-> 1, size |-> 0, attempt |-> 0]

TypeOK ==
  /\ queue \in [Kind -> 0..MaxQueueSize]
  /\ drain \in [pc : {"none", "sending", "backoff", "settling"}, kind : Kind,
                size : 0..MaxBatchSize, attempt : 0..MaxRetries]
  /\ timer \in BOOLEAN /\ awaiting \in BOOLEAN /\ closed \in BOOLEAN
  /\ closing \in {"none", "pending", "resolved"}
  /\ count \in [recorded : 0..Items, overflow : 0..Items, sent : 0..Items,
                failed : 0..Items]

Init ==
  /\ queue = [k \in Kind |-> 0]
  /\ drain = NoDrain
  /\ timer = FALSE /\ awaiting = FALSE /\ closed = FALSE
  /\ closing = "none"
  /\ count = [recorded |-> 0, overflow |-> 0, sent |-> 0, failed |-> 0]
-----------------------------------------------------------------------------
Total(q) == q[1] + q[2] + q[3]
Queued == Total(queue)
Flushing == drain.pc # "none"

(* drainQueues from a given loop on: the next batch, of as many items as   *)
(* takeSizedBatch finds room for, or the end of the drain.                 *)
Take(q, from) ==
  \/ \E k \in from..3 :
       /\ q[k] > 0 /\ \A j \in from..(k - 1) : q[j] = 0
       /\ \E n \in 1..MaxBatchSize :
            /\ n <= q[k]
            /\ queue' = [q EXCEPT ![k] = @ - n]
            /\ drain' = [pc |-> "sending", kind |-> k, size |-> n,
                         attempt |-> 0]
  \/ /\ \A j \in from..3 : q[j] = 0
     /\ queue' = q
     /\ drain' = [NoDrain EXCEPT !.pc = "settling"]

(* flush: a drain that already runs is shared.                             *)
Flush(q) ==
  IF Flushing \/ Total(q) = 0 THEN queue' = q /\ UNCHANGED drain ELSE Take(q, 1)

(* scheduleFlush, unless a timer is set or the client is closed.           *)
Scheduled == timer \/ ~closed

(* enqueue                                                                 *)
Overflows == Queued >= MaxQueueSize

Enqueue(k) ==
  /\ ~closed /\ count.recorded < Items
  /\ IF Overflows
       THEN /\ count' = [count EXCEPT !.recorded = @ + 1, !.overflow = @ + 1]
            /\ UNCHANGED <<queue, drain, timer>>
       ELSE LET q == [queue EXCEPT ![k] = @ + 1] IN
            /\ count' = [count EXCEPT !.recorded = @ + 1]
            /\ timer' = Scheduled
            /\ IF q[k] >= MaxBatchSize
                 THEN Flush(q) ELSE queue' = q /\ UNCHANGED drain
  /\ UNCHANGED <<awaiting, closed, closing>>

CallFlush ==
  /\ Queued > 0 /\ ~Flushing
  /\ Flush(queue)
  /\ UNCHANGED <<timer, awaiting, closed, closing, count>>

(* The timer fires: flush, and look again when that settles.               *)
TimerFires ==
  /\ timer
  /\ timer' = FALSE
  /\ awaiting' = (Flushing \/ Queued > 0)
  /\ Flush(queue)
  /\ UNCHANGED <<closed, closing, count>>

Close ==
  /\ ~closed
  /\ closed' = TRUE /\ timer' = FALSE
  /\ closing' = IF Flushing \/ Queued > 0 THEN "pending" ELSE "resolved"
  /\ Flush(queue)
  /\ UNCHANGED <<awaiting, count>>
-----------------------------------------------------------------------------
(* sendBatch and recordDeliveryResult                                      *)

(* 2xx: the batch is sent.  A timeout after the collector took the batch   *)
(* is a network failure, below.                                            *)
Succeeds ==
  /\ drain.pc = "sending"
  /\ count' = [count EXCEPT !.sent = @ + drain.size]
  /\ Take(queue, drain.kind)
  /\ UNCHANGED <<timer, awaiting, closed, closing>>

DroppedUncounted == count
Dropped == [count EXCEPT !.failed = @ + drain.size]

(* A network failure, 429 or 5xx while attempts are left...                *)
RetriesUnbounded == TRUE
RetriesLeft == drain.attempt < MaxRetries

FailsTransiently ==
  /\ drain.pc = "sending" /\ RetriesLeft
  /\ drain' = [drain EXCEPT !.pc = "backoff"]
  /\ UNCHANGED <<queue, timer, awaiting, closed, closing, count>>

NextAttemptSame == drain.attempt
NextAttempt == drain.attempt + 1

Retry ==
  /\ drain.pc = "backoff"
  /\ drain' = [drain EXCEPT !.pc = "sending", !.attempt = NextAttempt]
  /\ UNCHANGED <<queue, timer, awaiting, closed, closing, count>>

(* ... the last of them, or any other status: the batch is dropped.        *)
Fails ==
  /\ drain.pc = "sending"
  /\ count' = Dropped
  /\ Take(queue, drain.kind)
  /\ UNCHANGED <<timer, awaiting, closed, closing>>

(* The drain's finally, then its callers': flushing is cleared, the timer  *)
(* is set again for what came in behind the drain, close resolves.         *)
RescheduledNever == timer
Rescheduled == IF awaiting /\ Queued > 0 THEN Scheduled ELSE timer

Resolved == IF closing = "pending" THEN "resolved" ELSE closing

Settle ==
  /\ drain.pc = "settling"
  /\ drain' = NoDrain
  /\ timer' = Rescheduled /\ awaiting' = FALSE
  /\ closing' = Resolved
  /\ UNCHANGED <<queue, closed, count>>

Drains == Succeeds \/ FailsTransiently \/ Retry \/ Fails \/ Settle

Next ==
  \/ \E k \in Kind : Enqueue(k)
  \/ CallFlush \/ TimerFires \/ Close
  \/ Drains

Spec == Init /\ [][Next]_vars

(* Responses, aborts and timers arrive; nobody need call the client.       *)
FairSpec == Spec /\ WF_vars(Drains) /\ WF_vars(TimerFires)
-----------------------------------------------------------------------------
(* Properties                                                              *)

(* Every item recorded while the client is open is queued, in the batch    *)
(* being sent, or counted once in the diagnostics as sent or dropped.      *)
Conserved ==
  count.recorded = count.overflow + Queued + drain.size
                     + count.sent + count.failed

(* An open client never forgets an item: whatever queue it is in, and      *)
(* wherever the running drain has got to, it is sent or dropped in the end *)
(* (the timer that is set again behind a drain).                           *)
Drained == \A k \in Kind : queue[k] > 0 ~> queue[k] = 0 \/ closed

(* The drain ends, whatever the collector answers (bounded retries).       *)
Terminates == Flushing ~> ~Flushing

(* close leaves nothing behind: "Stop the timer, flush remaining events,   *)
(* and resolve."                                                           *)
CloseFlushes == closing = "resolved" => Queued = 0
=============================================================================
