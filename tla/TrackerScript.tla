---------------------------- MODULE TrackerScript ----------------------------
(***************************************************************************)
(* The tracker in a page (apps/web, tracker-source.js): a queue of events, *)
(* batches handed to the beacon but not yet acknowledged, one pending      *)
(* batch with its retries, a timer, and the withdrawal of consent, which   *)
(* starts a new generation.  flush and beacon wait for the storage lock    *)
(* under which events are recorded, and flush for a request on its way.    *)
(*                                                                         *)
(* Events are counted.  Whatever a suspended call finds when it goes on is *)
(* what the page has made of it meanwhile.                                 *)
(***************************************************************************)
EXTENDS Integers, SequencesExt

CONSTANTS
  Capacity,     \* events waiting, queued and handed off
  BatchSize,
  MaxAttempts,
  Call,         \* calls of flush and beacon that may be suspended at once
  Events,       \* bound on the events of a behaviour
  Withdrawals   \* bound on the withdrawals of consent

TrackerScale ==
  /\ {Capacity, BatchSize, MaxAttempts, Events} \subseteq Nat \ {0}
  /\ Withdrawals \in Nat

VARIABLES
  enabled, hidden,
  waiting,    \* events that wait for the lock
  stale,      \* lock requests of former generations
  queue, handoffs, pending,
  delivery,   \* "none", "sent", or "aborted": of a former generation
  timer,
  call,       \* per call: program counter, and the lock requests it waits for
  withdrawn,
  count       \* history and diagnostics

page == <<enabled, hidden, withdrawn>>
batches == <<queue, handoffs, pending, count>>
sending == <<delivery, timer>>
locks == <<waiting, stale>>
vars == <<page, locks, batches, sending, call>>
-----------------------------------------------------------------------------
Total(sizes) == FoldSeq(+, 0, sizes)
NoBatch == [size |-> 0, attempts |-> MaxAttempts]
Batch(n) == [size |-> n, attempts |-> 0]
Idle == [pc |-> "idle", left |-> 0]
Ready(c) == call[c].pc \in {"flush", "beacon", "again"} /\ call[c].left = 0
\* A call that can go on does so before anything else happens.
Settled == \A c \in Call : ~Ready(c)

TypeOK ==
  /\ {enabled, hidden, timer} \subseteq BOOLEAN
  /\ {waiting, queue} \subseteq 0..Capacity /\ stale \in 0..Events
  /\ \A i \in DOMAIN handoffs : handoffs[i] \in 0..BatchSize
  /\ pending \in [size : 0..BatchSize, attempts : 0..MaxAttempts]
  /\ delivery \in {"none", "sent", "aborted"}
  /\ call \in [Call -> [pc : {"idle", "flush", "beacon", "delivery", "again"},
                        left : 0..Events]]
  /\ withdrawn \in 0..Withdrawals
  /\ count \in [emitted : 0..Events, accepted : 0..Events, dropped : 0..Events,
                discarded : 0..Events]

Init ==
  /\ enabled = TRUE /\ hidden \in BOOLEAN
  /\ waiting = 0 /\ stale = 0
  /\ queue = 0 /\ handoffs = << >> /\ pending = NoBatch
  /\ delivery = "none" /\ timer = FALSE
  /\ call = [c \in Call |-> Idle]
  /\ withdrawn = 0
  /\ count = [emitted |-> 0, accepted |-> 0, dropped |-> 0, discarded |-> 0]
-----------------------------------------------------------------------------
(* flush and beacon.                                                       *)
Goto(c, pc, left) == call' = [call EXCEPT ![c] = [pc |-> pc, left |-> left]]
End(c) == call' = [call EXCEPT ![c] = Idle]

\* A call starts: if (waiting) await recording.
Start(c, body) == Goto(c, body, IF waiting = 0 THEN 0 ELSE waiting + stale)
Called(c, body) == call[c] = Idle /\ Settled /\ Start(c, body)

\* batch: some events of one visit, after those too large to send.
Taken == {<<n, lost>> \in (0..BatchSize) \X (0..queue) :
            n + lost <= queue /\ (queue > 0 => n + lost > 0)}

\* payload: the pending batch, unless it is the heartbeat of a visit that is
\* over; else what was handed off; else a new batch, if a visit is known.
Payload ==
  \/ pending # NoBatch /\ UNCHANGED batches
  \/ /\ pending.size = 0
     /\ IF handoffs # << >>
        THEN /\ pending' = Batch(Head(handoffs)) /\ handoffs' = Tail(handoffs)
             /\ UNCHANGED <<queue, count>>
        ELSE /\ handoffs' = handoffs
             /\ \E t \in Taken :
                  /\ queue' = queue - t[1] - t[2]
                  /\ pending' \in {Batch(t[1])}
                        \union (IF queue = 0 THEN {NoBatch} ELSE {})
                  /\ count' = [count EXCEPT !.dropped = @ + t[2]]

flush(c) ==
  /\ Ready(c) /\ call[c].pc = "flush"
  /\ IF ~enabled \/ hidden
     THEN End(c) /\ UNCHANGED <<batches, sending>>
     ELSE IF delivery # "none"
     THEN Goto(c, "delivery", 0) /\ UNCHANGED <<batches, sending>>
     ELSE /\ Payload
          /\ timer' = FALSE
          /\ delivery' = IF pending' = NoBatch THEN "none" ELSE "sent"
          /\ End(c)
  /\ UNCHANGED <<page, locks>>

\* The delivery a flush found is over.
FlushAgain(c) ==
  /\ Ready(c) /\ call[c].pc = "again"
  /\ IF queue > 0 \/ handoffs # << >> THEN Start(c, "flush") ELSE End(c)
  /\ UNCHANGED <<page, locks, batches, sending>>

\* Batches go to the beacon until one is refused, and stay in pending or in
\* handoffs until a request for them is acknowledged.
beacon(c) ==
  /\ Ready(c) /\ call[c].pc = "beacon"
  /\ \/ UNCHANGED batches
     \/ enabled /\ pending # NoBatch /\ delivery = "none" /\ Payload
     \/ /\ enabled
        /\ \E sizes \in BoundedSeq(1..BatchSize, queue), lost \in 0..queue :
             /\ Total(sizes) + lost <= queue
             /\ queue' = queue - Total(sizes) - lost
             /\ handoffs' = handoffs \o sizes
             /\ count' = [count EXCEPT !.dropped = @ + lost]
        /\ UNCHANGED pending
  /\ End(c)
  /\ UNCHANGED <<page, locks, sending>>
-----------------------------------------------------------------------------
(* The answer to a request.                                                *)
schedule(more) ==
  timer' = (timer \/ (more /\ enabled /\ ~hidden))

MoreButHandoffs(p) == p # NoBatch \/ queue > 0
More(p) == p # NoBatch \/ queue > 0 \/ handoffs # << >>

\* The finally of a flush, and the calls that wait for its delivery.
Finally(p) ==
  /\ pending' = p
  /\ delivery' = "none"
  /\ schedule(More(p))
  /\ call' = [c \in Call |-> IF call[c].pc = "delivery"
                             THEN [pc |-> "again", left |-> 0] ELSE call[c]]
  /\ UNCHANGED <<page, locks, queue, handoffs>>

Answered ==
  /\ Settled /\ delivery = "sent"
  /\ count' \in {[count EXCEPT !.accepted = @ + pending.size],
                 [count EXCEPT !.dropped = @ + pending.size]}
  /\ Finally(NoBatch)

Attempts == pending.attempts + 1
Failed ==
  /\ Settled /\ delivery = "sent"
  /\ IF Attempts >= MaxAttempts
     THEN /\ count' = [count EXCEPT !.dropped = @ + pending.size]
          /\ Finally(NoBatch)
     ELSE count' = count /\ Finally([pending EXCEPT !.attempts = Attempts])

\* version !== generation: the batch of a former generation is not counted.
FormerAnswered ==
  /\ Settled /\ delivery = "aborted"
  /\ count' = count
  /\ Finally(pending)

TimerFires(c) ==
  /\ timer /\ timer' = FALSE
  /\ Called(c, "flush")
  /\ UNCHANGED <<page, locks, batches, delivery>>
-----------------------------------------------------------------------------
(* The page.                                                               *)
Held == waiting + queue + Total(handoffs)
OverflowsUnlocked(w, q) == q + Total(handoffs) >= Capacity
Overflows(w, q) == w + q + Total(handoffs) >= Capacity
Emitted(w, q) ==
  IF ~enabled \/ Overflows(w, q)
  THEN count' = [count EXCEPT !.emitted = @ + 1, !.dropped = @ + 1]
       /\ waiting' = w /\ queue' = q /\ UNCHANGED timer
  ELSE /\ count' = [count EXCEPT !.emitted = @ + 1]
       /\ \/ waiting' = w + 1 /\ queue' = q /\ UNCHANGED timer
          \/ queue' = q + 1 /\ waiting' = w /\ schedule(TRUE)

\* With storage shared by tabs an event waits for the lock, else it is
\* recorded at once.
emit ==
  /\ Settled /\ count.emitted < Events
  /\ Emitted(waiting, queue)
  /\ UNCHANGED <<page, stale, handoffs, pending, delivery, call>>

Passed == [c \in Call |-> [call[c] EXCEPT !.left = IF @ > 0 THEN @ - 1 ELSE 0]]
RecordedAlways == TRUE
Recorded == stale = 0
\* The lock is granted in turn; a former generation's event is forgotten.
record ==
  /\ Settled /\ waiting + stale > 0
  /\ IF stale > 0 THEN stale' = stale - 1 /\ waiting' = waiting
     ELSE waiting' = waiting - 1 /\ stale' = stale
  /\ IF Recorded THEN queue' = queue + 1 /\ schedule(TRUE)
     ELSE UNCHANGED <<queue, timer>>
  /\ call' = Passed
  /\ UNCHANGED <<page, handoffs, pending, count, delivery>>

CallFlush(c) ==
  /\ Called(c, "flush")
  /\ UNCHANGED <<page, locks, batches, sending>>

\* visibilitychange.  The beacon that pagehide and flushForNavigation start is the
\* same, and a page that calls it comes with the change to hidden or is left.
visibility(c) ==
  /\ hidden' = ~hidden
  /\ IF enabled THEN Called(c, IF hidden THEN "flush" ELSE "beacon")
     ELSE Settled /\ UNCHANGED call
  /\ UNCHANGED <<enabled, withdrawn, locks, batches, sending>>

\* pause: consent is withdrawn.  The request is aborted; that it settles is
\* another step.
pause ==
  /\ enabled /\ Settled /\ withdrawn < Withdrawals
  /\ enabled' = FALSE /\ withdrawn' = withdrawn + 1
  /\ count' = [count EXCEPT !.discarded = @ + Held + pending.size]
  /\ stale' = stale + waiting /\ waiting' = 0
  /\ queue' = 0 /\ handoffs' = << >> /\ pending' = NoBatch
  /\ timer' = FALSE
  /\ delivery' = IF delivery = "none" THEN "none" ELSE "aborted"
  /\ UNCHANGED <<hidden, call>>

\* resume: consent is given again, and the page seen.
resume ==
  /\ ~enabled /\ Settled /\ count.emitted < Events
  /\ enabled' = TRUE
  /\ count' = [count EXCEPT !.emitted = @ + 1]
  /\ \/ waiting' = 1 /\ queue' = 0 /\ UNCHANGED timer
     \/ waiting' = 0 /\ queue' = 1 /\ timer' = ~hidden
  /\ UNCHANGED <<hidden, withdrawn, stale, handoffs, pending, delivery, call>>
-----------------------------------------------------------------------------
Goes(c) == flush(c) \/ FlushAgain(c) \/ beacon(c)
Answer == Answered \/ Failed \/ FormerAnswered
Next ==
  \/ emit \/ record \/ pause \/ resume
  \/ \E c \in Call : CallFlush(c) \/ visibility(c) \/ TimerFires(c) \/ Goes(c)
  \/ Answer

Spec == Init /\ [][Next]_vars
\* Locks are granted, requests are answered or time out, timers fire.
FairSpec ==
  /\ Spec /\ WF_vars(record) /\ WF_vars(Answer)
  /\ WF_vars(\E c \in Call : Goes(c))
  /\ WF_vars(\E c \in Call : TimerFires(c))
-----------------------------------------------------------------------------
\* Every event is on its way, accepted, dropped or discarded with its consent,
\* and the page holds a bounded number of them.
Conserved ==
  /\ count.emitted = Held + pending.size
                       + count.accepted + count.dropped + count.discarded
  /\ Held <= Capacity

\* After the withdrawal nothing of what was recorded before is kept, timed or
\* sent, whatever lock, answer or suspended call of the former generation
\* comes late.
Forgotten ==
  ~enabled => /\ Held = 0 /\ pending = NoBatch /\ ~timer
              /\ delivery # "sent"

\* While the page is visible and has consent, no event stays behind: not one
\* queued behind a request, handed to a beacon, or recorded while a flush
\* waits.
Delivered ==
  Held + pending.size > 0 ~> Held + pending.size = 0 \/ hidden \/ ~enabled
=============================================================================
