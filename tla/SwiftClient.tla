----------------------------- MODULE SwiftClient -----------------------------
(***************************************************************************)
(* The Swift SDK (packages/swift): an actor with a bounded queue, one      *)
(* drain task, a flush timer, a heartbeat while the app is active, and     *)
(* close.  Between two suspensions the actor runs alone.                   *)
(*                                                                         *)
(* Items are counted.  Cancelling a timer that has passed its test of      *)
(* isCancelled comes too late: such strays call the actor all the same.    *)
(***************************************************************************)
EXTENDS Integers, FiniteSetsExt, SequencesExt

CONSTANTS
  QueueMax,   \* pending and inFlight items together
  BatchSize,
  Attempts,
  Items,      \* bound on the items of a behaviour
  Strays      \* bound on the timers cancelled too late

SwiftScale ==
  /\ {QueueMax, BatchSize, Attempts, Items} \subseteq Nat \ {0}
  /\ Strays \in Nat

VARIABLES
  pending, due,       \* items in the queue; heartbeatDue
  drain,              \* drainTask: "none", "created", "sending" or "backoff"
  batch, inFlight,    \* the parts of the batch still to send; inFlight
  attempt,
  flushTimer, heart,  \* the two timers, and how many of each are strays
  active, ending,     \* ending: closed, and where close has got to
  flusher,            \* a caller of flush, and the items it found
  count               \* history and diagnostics: items and their fates

queueVars == <<pending, due, count>>
drainVars == <<drain, batch, inFlight, attempt>>
timerVars == <<flushTimer, heart>>
vars == <<queueVars, drainVars, timerVars, active, ending, flusher>>
-----------------------------------------------------------------------------
closed == ending # "open"
Total(sizes) == FoldSeq(+, 0, sizes)
Settled == count.accepted + count.dropped
Off == [set |-> FALSE, strays |-> 0]
Idle == [pc |-> "idle", mark |-> 0]

TypeOK ==
  /\ pending \in 0..QueueMax /\ {due, active} \subseteq BOOLEAN
  /\ drain \in {"none", "created", "sending", "backoff"}
  /\ batch \in BoundedSeq(0..BatchSize, BatchSize) /\ inFlight \in 0..BatchSize
  /\ attempt \in 1..Attempts
  /\ {flushTimer, heart} \subseteq [set : BOOLEAN, strays : 0..Strays]
  /\ ending \in {"open", "draining", "closed"}
  /\ flusher \in [pc : {"idle", "waiting", "flushed"}, mark : 0..Items]
  /\ count \in [recorded : 0..Items, accepted : 0..Items, dropped : 0..Items]

Init ==
  /\ pending = 0 /\ due = FALSE
  /\ drain = "none" /\ batch = << >> /\ inFlight = 0 /\ attempt = 1
  /\ flushTimer = Off /\ heart = Off
  /\ active = FALSE /\ ending = "open"
  /\ flusher = Idle
  /\ count = [recorded |-> 0, accepted |-> 0, dropped |-> 0]
-----------------------------------------------------------------------------
Unset == [set : {FALSE}, strays : 0..Strays]

\* cancel: in time, or too late.
Cancel(t) ==
  {c \in Unset : c.strays - t.strays \in IF t.set THEN {0, 1} ELSE {0}}
\* A timer or a stray calls; the reference it clears may be a younger timer's.
Fired(t) ==
  {f \in Unset : \/ t.set /\ f.strays = t.strays
                 \/ ~t.set /\ t.strays > 0 /\ f.strays = t.strays - 1}

\* requestDrain with p items pending, a heartbeat due or not, and timer t.
NeededByHeartbeat(p, d) == d
Needed(p, d) == p > 0 \/ d
requestDrain(p, d, t) ==
  IF drain = "none" /\ Needed(p, d)
  THEN drain' = "created" /\ flushTimer' \in Cancel(t)
  ELSE drain' = drain /\ flushTimer' = t

\* track and log: enqueue; what is not well formed, or late, is dropped.
FullWithoutInFlight == pending >= QueueMax
Full == pending + inFlight >= QueueMax
Enqueue ==
  LET recorded == [count EXCEPT !.recorded = @ + 1]
      full == pending + 1 >= BatchSize
  IN
  /\ count.recorded < Items
  /\ \/ /\ count' = [recorded EXCEPT !.dropped = @ + 1]
        /\ UNCHANGED <<pending, drain, flushTimer>>
     \/ /\ ~closed /\ ~Full
        /\ pending' = pending + 1 /\ count' = recorded
        /\ IF drain = "none" /\ ~full
           THEN UNCHANGED drain /\ flushTimer' = [flushTimer EXCEPT !.set = TRUE]
           ELSE requestDrain(pending', due, flushTimer)
  /\ UNCHANGED <<due, batch, inFlight, attempt, heart, active, ending, flusher>>

setActiveAlways(value) ==
  /\ active # value
  /\ active' = value /\ due' = value
  /\ \E h \in Cancel(heart) : heart' = [h EXCEPT !.set = value]
  /\ requestDrain(pending, value, flushTimer)
  /\ UNCHANGED <<pending, count, batch, inFlight, attempt, ending, flusher>>
setActive(value) ==
  /\ ~closed /\ active # value
  /\ active' = value /\ due' = value
  /\ \E h \in Cancel(heart) : heart' = [h EXCEPT !.set = value]
  /\ requestDrain(pending, value, flushTimer)
  /\ UNCHANGED <<pending, count, batch, inFlight, attempt, ending, flusher>>

timerFired ==
  /\ \E t \in Fired(flushTimer) : requestDrain(pending, due, t)
  /\ UNCHANGED <<queueVars, batch, inFlight, attempt, heart, active, ending, flusher>>

heartbeat ==
  /\ \E h \in Fired(heart) :
       IF active /\ ~closed
       THEN /\ heart' = [h EXCEPT !.set = TRUE]
            /\ due' = TRUE
            /\ requestDrain(pending, TRUE, flushTimer)
       ELSE heart' = h /\ UNCHANGED <<due, drain, flushTimer>>
  /\ UNCHANGED <<pending, count, batch, inFlight, attempt, active, ending, flusher>>

flush ==
  /\ flusher.pc # "waiting"
  /\ requestDrain(pending, due, flushTimer)
  /\ flusher' = [pc |-> IF drain' = "none" THEN "flushed" ELSE "waiting",
                 mark |-> count.recorded]
  /\ UNCHANGED <<queueVars, batch, inFlight, attempt, heart, active, ending>>

close ==
  /\ ~closed
  /\ active' = FALSE /\ due' = FALSE
  /\ heart' \in Cancel(heart)
  /\ \E t \in Cancel(flushTimer) : requestDrain(pending, FALSE, t)
  /\ ending' = IF drain' = "none" THEN "closed" ELSE "draining"
  /\ UNCHANGED <<pending, count, batch, inFlight, attempt, flusher>>
-----------------------------------------------------------------------------
\* send halves a batch that is too large until its parts fit, and drops an
\* item that fits in none; when no part is left the loop goes round.
Parts(n) == {sizes \in BoundedSeq(1..BatchSize, n) : Total(sizes) <= n}

\* drainLoop up to its next suspension: a heartbeat's empty batch, the next
\* items, or the end of the task and of those who await it.
Loop(counted) ==
  IF pending = 0 /\ ~due
  THEN /\ drain' = "none" /\ batch' = << >> /\ inFlight' = 0
       /\ flusher' = IF flusher.pc = "waiting" THEN [flusher EXCEPT !.pc = "flushed"]
                     ELSE flusher
       /\ ending' = IF ending = "draining" THEN "closed" ELSE ending
       /\ count' = counted
       /\ UNCHANGED <<pending, due>>
  ELSE LET n == Min({pending, BatchSize})
       IN /\ due' = FALSE
          /\ pending' = pending - n /\ inFlight' = n
          /\ \E parts \in IF n = 0 THEN {<<0>>} ELSE Parts(n) :
               /\ batch' = parts
               /\ drain' = IF parts = << >> THEN "created" ELSE "sending"
               /\ count' = [counted EXCEPT !.dropped = @ + n - Total(parts)]
          /\ UNCHANGED <<flusher, ending>>

StartDrain ==
  /\ drain = "created"
  /\ Loop(count)
  /\ attempt' = 1
  /\ UNCHANGED <<timerVars, active>>

SentPart(counted) ==
  /\ attempt' = 1
  /\ IF Len(batch) > 1
     THEN /\ batch' = Tail(batch) /\ drain' = "sending" /\ count' = counted
          /\ UNCHANGED <<pending, due, inFlight, flusher, ending>>
     ELSE Loop(counted)
  /\ UNCHANGED <<timerVars, active>>

Accepted ==
  /\ drain = "sending"
  /\ SentPart([count EXCEPT !.accepted = @ + Head(batch)])
DroppedUncounted == count
Dropped == [count EXCEPT !.dropped = @ + Head(batch)]
Rejected == drain = "sending" /\ SentPart(Dropped)

FailsTransiently ==
  /\ drain = "sending" /\ attempt < Attempts
  /\ drain' = "backoff"
  /\ UNCHANGED <<queueVars, batch, inFlight, attempt, timerVars, active, ending, flusher>>
NextAttemptSame == attempt
NextAttempt == attempt + 1
Retry ==
  /\ drain = "backoff"
  /\ drain' = "sending" /\ attempt' = NextAttempt
  /\ UNCHANGED <<queueVars, batch, inFlight, timerVars, active, ending, flusher>>
-----------------------------------------------------------------------------
Drains == StartDrain \/ Accepted \/ Rejected \/ FailsTransiently \/ Retry
Next ==
  \/ Enqueue \/ flush \/ close
  \/ \E value \in BOOLEAN : setActive(value)
  \/ timerFired \/ heartbeat
  \/ Drains

Spec == Init /\ [][Next]_vars
\* The drain goes on and timers fire; nobody need call the client.
FairSpec == Spec /\ WF_vars(Drains) /\ WF_vars(timerFired)
-----------------------------------------------------------------------------
\* Every item is in the queue, in the batch, accepted or dropped, and what the
\* client holds is bounded also while a send hangs.
Conserved ==
  /\ pending + inFlight <= QueueMax
  /\ count.recorded = pending + Total(batch) + Settled

\* When flush returns, every item recorded before the call has been accepted
\* or dropped; when close does, every item has, and neither a timer that was
\* cancelled too late nor a late call starts another drain.
FlushSettles == flusher.pc = "flushed" => Settled >= flusher.mark
CloseQuiets ==
  ending = "closed" => pending = 0 /\ drain = "none" /\ ~due

\* flush and close return, and an item waits for neither.
Drained == pending > 0 ~> pending = 0
CloseEnds == closed ~> ending = "closed"
=============================================================================
