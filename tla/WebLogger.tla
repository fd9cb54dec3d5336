------------------------------ MODULE WebLogger ------------------------------
(***************************************************************************)
(* The logger of a web page (packages/node, web.ts): a bounded queue, a    *)
(* timer, one flush at a time that sends batches with bounded retries, a   *)
(* beacon when the page is hidden, and close.                              *)
(*                                                                         *)
(* Logs are counted.  What the page calls between two answers finds the    *)
(* logger as it stands.                                                    *)
(***************************************************************************)
EXTENDS Integers, SequencesExt

CONSTANTS
  MaxQueueSize,  \* bound on queued, beaconed and inflight logs together
  MaxBatchSize,
  MaxAttempts,
  Items          \* bound on the logs of a behaviour

WebScale == {MaxQueueSize, MaxBatchSize, MaxAttempts, Items} \subseteq Nat \ {0}

VARIABLES
  queue,     \* logs in the queue
  beacons,   \* sizes of the batches handed to the beacon, to be sent again
  work,      \* sizes of the batches the flush still has to send
  flushing,  \* "none", or what the flush waits for
  attempt,
  timer,     \* "none", "set", or "stale": it has fired and is not forgotten
  closing,   \* close's promise
  count      \* history and diagnostics: logs and their fates

vars == <<queue, beacons, work, flushing, attempt, timer, closing, count>>
-----------------------------------------------------------------------------
Total(sizes) == FoldSeq(+, 0, sizes)
closed == closing # "open"

TypeOK ==
  /\ queue \in 0..MaxQueueSize
  /\ {beacons, work} \subseteq BoundedSeq(1..MaxBatchSize, MaxQueueSize)
  /\ flushing \in {"none", "answer", "backoff", "finally"}
  /\ attempt \in 1..MaxAttempts
  /\ timer \in {"none", "set", "stale"}
  /\ closing \in {"open", "first", "then", "second", "resolved"}
  /\ count \in [logged : 0..Items, sent : 0..Items, dropped : 0..Items]

Init ==
  /\ queue = 0 /\ beacons = << >> /\ work = << >>
  /\ flushing = "none" /\ attempt = 1
  /\ timer = "none" /\ closing = "open"
  /\ count = [logged |-> 0, sent |-> 0, dropped |-> 0]
-----------------------------------------------------------------------------
\* takeBatch until the queue is empty: a batch is full, or the next log does
\* not fit in MAX_BATCH_BYTES; one that fits in no batch is dropped.
Batches(n) == {sizes \in BoundedSeq(1..MaxBatchSize, n) : Total(sizes) <= n}

\* runFlush up to its first await.
StartFlush(n, counted) ==
  \E sizes \in Batches(n) :
    /\ queue' = 0 /\ beacons' = << >>
    /\ work' = beacons \o sizes
    /\ flushing' = IF work' = << >> THEN "finally" ELSE "answer"
    /\ attempt' = 1
    /\ timer' = "none"
    /\ count' = [counted EXCEPT !.dropped = @ + n - Total(sizes)]

\* flush with n logs in the queue: one that runs is shared.
Flush(n, counted) ==
  IF flushing # "none"
  THEN queue' = n /\ count' = counted /\ UNCHANGED <<beacons, work, flushing, attempt>>
  ELSE StartFlush(n, counted)

OverflowsWithoutWork == queue + Total(beacons) >= MaxQueueSize
Overflows == queue + Total(beacons) + Total(work) >= MaxQueueSize

\* A log that is not well formed is dropped as well.
Log ==
  /\ ~closed /\ count.logged < Items
  /\ LET logged == [count EXCEPT !.logged = @ + 1]
     IN \/ /\ count' = [logged EXCEPT !.dropped = @ + 1]
           /\ UNCHANGED <<queue, beacons, work, flushing, attempt, timer>>
        \/ /\ ~Overflows
           /\ IF queue + 1 >= MaxBatchSize
              THEN /\ Flush(queue + 1, logged)
                   /\ flushing # "none" => UNCHANGED timer
              ELSE /\ queue' = queue + 1 /\ count' = logged
                   /\ timer' = IF timer = "none" THEN "set" ELSE timer
                   /\ UNCHANGED <<beacons, work, flushing, attempt>>
  /\ UNCHANGED closing

CallFlush ==
  /\ flushing = "none"
  /\ StartFlush(queue, count)
  /\ UNCHANGED closing

\* The callback is flush(); only a flush that starts forgets the timer.  No
\* timer fires between an answer and the promises it settles.
TimerFires ==
  /\ timer = "set" /\ flushing # "finally"
  /\ Flush(queue, count)
  /\ flushing # "none" => timer' = "stale"
  /\ UNCHANGED closing

\* The page is hidden: one batch goes to the beacon, which may refuse it.
FlushBeacon ==
  /\ ~closed /\ queue > 0
  /\ \E n \in 0..MaxBatchSize, skipped \in 0..queue :
       /\ n + skipped <= queue /\ (n = 0 => skipped = queue)
       /\ queue' = queue - n - skipped
       /\ \/ /\ n > 0 /\ beacons' = Append(beacons, n)
             /\ count' = [count EXCEPT !.dropped = @ + skipped]
          \/ /\ UNCHANGED beacons
             /\ count' = [count EXCEPT !.dropped = @ + skipped + n]
  /\ UNCHANGED <<work, flushing, attempt, timer, closing>>

close ==
  /\ ~closed
  /\ closing' = "first"
  /\ Flush(queue, count)
  /\ timer' = "none"
-----------------------------------------------------------------------------
(* The flush: request, settle, finally.                                    *)
Settled(counted) ==
  /\ work' = Tail(work)
  /\ flushing' = IF work' = << >> THEN "finally" ELSE "answer"
  /\ attempt' = 1
  /\ count' = counted
  /\ UNCHANGED <<queue, beacons, timer, closing>>

Accepted ==
  /\ flushing = "answer"
  /\ Settled([count EXCEPT !.sent = @ + Head(work)])

DroppedUncounted == count
Dropped == [count EXCEPT !.dropped = @ + Head(work)]
\* A status that is not retried, or the last attempt.
Rejected == flushing = "answer" /\ Settled(Dropped)

FailsTransiently ==
  /\ flushing = "answer" /\ attempt < MaxAttempts
  /\ flushing' = "backoff"
  /\ UNCHANGED <<queue, beacons, work, attempt, timer, closing, count>>

NextAttemptSame == attempt
NextAttempt == attempt + 1
Retry ==
  /\ flushing = "backoff"
  /\ flushing' = "answer" /\ attempt' = NextAttempt
  /\ UNCHANGED <<queue, beacons, work, timer, closing, count>>

ThenResolved == IF closed THEN "resolved" ELSE closing
Then == IF closing = "first" THEN "then"
        ELSE IF closing = "second" THEN "resolved" ELSE closing
Finally ==
  /\ flushing = "finally"
  /\ flushing' = "none"
  /\ timer' = IF queue > 0 /\ ~closed /\ timer = "none" THEN "set" ELSE timer
  /\ closing' = Then
  /\ UNCHANGED <<queue, beacons, work, attempt, count>>

\* close's continuation: what came in behind the flush it found.
CloseThen ==
  /\ closing = "then"
  /\ IF queue > 0 \/ beacons # << >>
     THEN /\ Flush(queue, count)
          /\ flushing # "none" => UNCHANGED timer
          /\ closing' = "second"
     ELSE /\ closing' = "resolved"
          /\ UNCHANGED <<queue, beacons, work, flushing, attempt, timer, count>>
-----------------------------------------------------------------------------
Delivers ==
  \/ Accepted \/ Rejected \/ FailsTransiently \/ Retry \/ Finally
Next ==
  \/ Log \/ CallFlush \/ TimerFires \/ FlushBeacon \/ close
  \/ Delivers \/ CloseThen

Spec == Init /\ [][Next]_vars
\* Requests are answered or aborted and timers fire; the page need not call.
FairSpec ==
  Spec /\ WF_vars(Delivers) /\ WF_vars(CloseThen) /\ WF_vars(TimerFires)
-----------------------------------------------------------------------------
\* Every log is queued, with the beacon, in a batch of the flush, sent or
\* dropped, and what the logger holds is bounded also while a flush hangs.
Conserved ==
  LET held == queue + Total(beacons) + Total(work)
  IN held <= MaxQueueSize /\ count.logged = held + count.sent + count.dropped

\* close resolves with nothing left in the queue or with the beacon, whatever
\* flush it found running and whatever the page had logged behind that flush;
\* what a flush of the page's own took meanwhile, that flush answers for.
CloseFlushes == closing = "resolved" => queue = 0 /\ beacons = << >>

\* close resolves, whatever the collector answers.
CloseEnds == closed ~> closing = "resolved"

\* "flushes automatically at the batch size and after the timer".
FlushesAutomatically == queue > 0 ~> queue = 0 \/ closed
=============================================================================
