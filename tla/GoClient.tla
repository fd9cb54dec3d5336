------------------------------- MODULE GoClient -------------------------------
(***************************************************************************)
(* The delivery pipeline of the Go SDK (packages/go).                      *)
(*                                                                         *)
(* Any goroutine records events into a bounded channel; one goroutine,     *)
(* loop, collects them into a batch of endpoint events and one of product  *)
(* events and delivers those, with bounded retries, when they are full,    *)
(* when its timer fires, when Flush asks for it and when Close stops it.   *)
(*                                                                         *)
(* Events are counted, not told apart; which kind one is, is decided when  *)
(* loop receives it.                                                       *)
(***************************************************************************)
EXTENDS Integers, FiniteSets

CONSTANTS
  Recorder,    \* goroutines that record events
  QueueSize, BatchSize, MaxRetries,
  Events       \* bound on the events of a behaviour

ASSUME GoClientAssumption ==
  /\ QueueSize \in Nat \ {0} /\ BatchSize \in Nat \ {0}
  /\ MaxRetries \in Nat /\ Events \in Nat

VARIABLES
  queue,     \* events in the channel
  batch,     \* events in loop's two slices: 1 endpoint, 2 product
  mode,      \* where loop is in its select and its draining loops
  flushing,  \* loop is inside flush()
  delivery,  \* the batch being delivered
  closed,    \* Close was called
  stop,      \* the stop channel is closed
  recorder,  \* recorders past the test of closed
  flusher,   \* a caller of Flush
  count,     \* events recorded, and the counters of Stats
  lost,      \* history: events in no counter any more
  late,      \* history: events that entered the channel after Close stopped
  since      \* history: events that entered since Flush was called

vars == <<queue, batch, mode, flushing, delivery, closed, stop, recorder,
          flusher, count, lost, late, since>>
-----------------------------------------------------------------------------
Kind == {1, 2}
NoDelivery == [pc |-> "none", size |-> 0, attempt |-> 0]

TypeOK ==
  /\ queue \in 0..QueueSize
  /\ batch \in [Kind -> 0..BatchSize]
  /\ mode \in {"select", "flush", "flushed", "stop", "stopped", "done"}
  /\ delivery \in [pc : {"none", "sending", "backoff"}, size : 0..BatchSize,
                   attempt : 0..MaxRetries]
  /\ {flushing, closed, stop} \subseteq BOOLEAN
  /\ recorder \subseteq Recorder
  /\ flusher \in {"idle", "calling", "waiting", "flushed"}
  /\ count \in [recorded : 0..Events, dropped : 0..Events, sent : 0..Events,
                failed : 0..Events]
  /\ {lost, late, since} \subseteq 0..Events

Init ==
  /\ queue = 0
  /\ batch = [k \in Kind |-> 0]
  /\ mode = "select" /\ flushing = FALSE
  /\ delivery = NoDelivery
  /\ closed = FALSE /\ stop = FALSE
  /\ recorder = {}
  /\ flusher = "idle"
  /\ count = [recorded |-> 0, dropped |-> 0, sent |-> 0, failed |-> 0]
  /\ lost = 0 /\ late = 0 /\ since = 0

loopVars == <<mode, flushing, delivery, batch>>
-----------------------------------------------------------------------------
(* Record and Track: enqueue tests closed ...                              *)
Record(r) ==
  /\ r \notin recorder /\ count.recorded < Events
  /\ IF closed
       THEN /\ count' = [count EXCEPT !.recorded = @ + 1, !.dropped = @ + 1]
            /\ UNCHANGED recorder
       ELSE /\ count' = [count EXCEPT !.recorded = @ + 1]
            /\ recorder' = recorder \union {r}
  /\ UNCHANGED <<queue, loopVars, closed, stop, flusher, lost, late, since>>

(* ... and then offers the event to the channel, or drops it.              *)
Offer(r) ==
  /\ r \in recorder
  /\ recorder' = recorder \ {r}
  /\ IF queue < QueueSize
       THEN /\ queue' = queue + 1
            /\ late' = IF stop THEN late + 1 ELSE late
            /\ since' = since + 1
            /\ UNCHANGED count
       ELSE /\ count' = [count EXCEPT !.dropped = @ + 1]
            /\ UNCHANGED <<queue, late, since>>
  /\ UNCHANGED <<loopVars, closed, stop, flusher, lost>>

(* Close: the store, then the closed channel.                              *)
Close ==
  /\ ~closed /\ closed' = TRUE
  /\ UNCHANGED <<queue, loopVars, stop, recorder, flusher, count, lost, late,
                 since>>

StopLoop ==
  /\ closed /\ ~stop /\ stop' = TRUE
  /\ UNCHANGED <<queue, loopVars, closed, recorder, flusher, count, lost, late,
                 since>>
-----------------------------------------------------------------------------
(* loop                                                                    *)

Pending == batch[1] + batch[2]
Free == ~flushing /\ delivery.pc = "none"

Receive ==
  /\ Free /\ mode \in {"select", "flush", "stop"}
  /\ queue > 0 /\ queue' = queue - 1
  /\ \E k \in Kind : batch' = [batch EXCEPT ![k] = @ + 1]
  /\ flushing' = (Pending + 1 >= BatchSize)
  /\ UNCHANGED <<mode, delivery, closed, stop, recorder, flusher, count, lost,
                 late, since>>

TimerFires ==
  /\ Free /\ mode = "select" /\ Pending > 0
  /\ flushing' = TRUE
  /\ UNCHANGED <<queue, mode, delivery, batch, closed, stop, recorder, flusher,
                 count, lost, late, since>>

(* The rendezvous with Flush.                                              *)
FlushAsked ==
  /\ Free /\ mode = "select" /\ flusher = "calling"
  /\ mode' = "flush" /\ flusher' = "waiting"
  /\ UNCHANGED <<queue, flushing, delivery, batch, closed, stop, recorder,
                 count, lost, late, since>>

Stopped ==
  /\ Free /\ mode = "select" /\ stop
  /\ mode' = "stop"
  /\ UNCHANGED <<queue, flushing, delivery, batch, closed, stop, recorder,
                 flusher, count, lost, late, since>>

(* The draining loops' default case: the channel is empty.                 *)
DrainedAlways == TRUE
DrainedQueue == queue = 0

LastFlush ==
  /\ Free /\ DrainedQueue
  /\ \/ mode = "flush" /\ mode' = "flushed"
     \/ mode = "stop" /\ mode' = "stopped"
  /\ flushing' = TRUE
  /\ UNCHANGED <<queue, delivery, batch, closed, stop, recorder, flusher, count,
                 lost, late, since>>

(* close(flushed): a caller that gave up does not look any more.           *)
Acknowledge ==
  /\ Free /\ mode = "flushed"
  /\ mode' = "select"
  /\ flusher' = IF flusher = "waiting" THEN "flushed" ELSE flusher
  /\ UNCHANGED <<queue, flushing, delivery, batch, closed, stop, recorder,
                 count, lost, late, since>>

Exit ==
  /\ Free /\ mode = "stopped"
  /\ mode' = "done"
  /\ UNCHANGED <<queue, flushing, delivery, batch, closed, stop, recorder,
                 flusher, count, lost, late, since>>
-----------------------------------------------------------------------------
(* flush: the endpoint batch goes first and in one piece, the products in  *)
(* as many as the byte limit asks for.                                     *)
Deliver ==
  /\ flushing /\ delivery.pc = "none" /\ Pending > 0
  /\ \E k \in Kind, n \in 1..BatchSize :
       /\ n <= batch[k] /\ (k = 2 => batch[1] = 0) /\ (k = 1 => n = batch[1])
       /\ batch' = [batch EXCEPT ![k] = @ - n]
       /\ delivery' = [pc |-> "sending", size |-> n, attempt |-> 0]
  /\ UNCHANGED <<queue, mode, flushing, closed, stop, recorder, flusher, count,
                 lost, late, since>>

FlushEnds ==
  /\ flushing /\ delivery.pc = "none" /\ Pending = 0
  /\ flushing' = FALSE
  /\ UNCHANGED <<queue, mode, delivery, batch, closed, stop, recorder, flusher,
                 count, lost, late, since>>

(* deliverBody                                                             *)
Sent ==
  /\ delivery.pc = "sending"
  /\ delivery' = NoDelivery
  /\ count' = [count EXCEPT !.sent = @ + delivery.size]
  /\ UNCHANGED <<queue, mode, flushing, batch, closed, stop, recorder, flusher,
                 lost, late, since>>

FailedUncounted == count
FailedCounted == [count EXCEPT !.failed = @ + delivery.size]

RetriesInclusive == delivery.attempt <= MaxRetries
RetriesLeft == delivery.attempt < MaxRetries

NotSent ==
  /\ delivery.pc = "sending"
  /\ IF RetriesLeft
       THEN /\ delivery' = [delivery EXCEPT !.pc = "backoff"]
            /\ UNCHANGED count
       ELSE /\ delivery' = NoDelivery
            /\ count' = FailedCounted
  /\ UNCHANGED <<queue, mode, flushing, batch, closed, stop, recorder, flusher,
                 lost, late, since>>

NextAttemptSame == delivery.attempt
NextAttempt == delivery.attempt + 1

BackoffEnds ==
  /\ delivery.pc = "backoff"
  /\ delivery' = [delivery EXCEPT !.pc = "sending", !.attempt = NextAttempt]
  /\ UNCHANGED <<queue, mode, flushing, batch, closed, stop, recorder, flusher,
                 count, lost, late, since>>

(* The stopped client retries no more; the batch goes uncounted.           *)
BackoffStopped ==
  /\ delivery.pc = "backoff" /\ stop
  /\ delivery' = NoDelivery
  /\ lost' = lost + delivery.size
  /\ UNCHANGED <<queue, mode, flushing, batch, closed, stop, recorder, flusher,
                 count, late, since>>
-----------------------------------------------------------------------------
(* Flush                                                                   *)
CallFlush ==
  /\ flusher \in {"idle", "flushed"} /\ ~closed
  /\ flusher' = "calling" /\ since' = 0
  /\ UNCHANGED <<queue, loopVars, closed, stop, recorder, count, lost, late>>

(* <-c.done: loop is gone.                                                 *)
ExitUnseen == FALSE
ExitSeen == mode = "done"

FlushFails ==
  /\ flusher \in {"calling", "waiting"} /\ ExitSeen
  /\ flusher' = "idle"
  /\ UNCHANGED <<queue, loopVars, closed, stop, recorder, count, lost, late,
                 since>>

(* The caller's context ends.                                              *)
FlushCancelled ==
  /\ flusher \in {"calling", "waiting"}
  /\ flusher' = "idle"
  /\ UNCHANGED <<queue, loopVars, closed, stop, recorder, count, lost, late,
                 since>>

Loop ==
  \/ Receive \/ TimerFires \/ FlushAsked \/ Stopped \/ LastFlush
  \/ Acknowledge \/ Exit
  \/ Deliver \/ FlushEnds \/ Sent \/ NotSent \/ BackoffEnds \/ BackoffStopped

Next ==
  \/ \E r \in Recorder : Record(r) \/ Offer(r)
  \/ Close \/ StopLoop \/ CallFlush \/ FlushFails \/ FlushCancelled
  \/ Loop

Spec == Init /\ [][Next]_vars

(* Goroutines are scheduled and requests time out; a select that is ready  *)
(* for stop or for Flush again and again takes it (Go chooses at random);  *)
(* no one need call, or cancel.                                            *)
FairSpec ==
  /\ Spec /\ WF_vars(Loop) /\ SF_vars(Stopped) /\ SF_vars(FlushAsked)
  /\ WF_vars(StopLoop) /\ WF_vars(FlushFails)
  /\ \A r \in Recorder : WF_vars(Offer(r))
-----------------------------------------------------------------------------
(* Properties                                                              *)

InHand == queue + batch[1] + batch[2] + delivery.size

(* Every recorded event is on its way, or counted once as dropped, sent or *)
(* failed; only the backoff that Close interrupts forgets a batch.         *)
Accounted ==
  count.recorded = Cardinality(recorder) + InHand
                     + count.dropped + count.sent + count.failed + lost

(* When Flush returns without an error, every event that was in the        *)
(* channel or in loop's hands at the call has been delivered or given up,  *)
(* however many came in meanwhile.                                         *)
FlushSettles == flusher = "flushed" => InHand <= since

(* When loop exits after Close, the channel holds nothing that was in it   *)
(* when Close stopped the client.                                          *)
CloseDrains == mode = "done" => queue <= late /\ InHand = queue

(* Close does not hang on a dead collector or on busy recorders.           *)
CloseEnds == stop ~> mode = "done"

(* Flush does not hang on a client that is closed under it.                *)
FlushReturns ==
  flusher \in {"calling", "waiting"} ~> flusher \in {"idle", "flushed"}

(* "All failures are counted" (deliverBatch's comment).                    *)
AllCounted == lost = 0
=============================================================================
