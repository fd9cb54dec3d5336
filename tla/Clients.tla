------------------------------- MODULE Clients -------------------------------
(***************************************************************************)
(* The clients for TLC: GoClient, NodeClient, WebLogger, SwiftClient and   *)
(* TrackerScript.  They never meet, so a behaviour is one of one of them,  *)
(* which part names, and the variables of GoClient serve each in turn.     *)
(***************************************************************************)
EXTENDS GoClient

VARIABLE part

N == INSTANCE NodeClient WITH
  MaxQueueSize <- 3, MaxBatchSize <- 2, MaxRetries <- 1, Items <- 6,
  drain <- delivery, timer <- mode, awaiting <- flushing, closing <- flusher

W == INSTANCE WebLogger WITH
  MaxQueueSize <- 3, MaxBatchSize <- 2, MaxAttempts <- 3, Items <- 5,
  beacons <- batch, work <- delivery, attempt <- late, timer <- mode,
  closing <- flusher

S == INSTANCE SwiftClient WITH
  QueueMax <- 3, BatchSize <- 2, Attempts <- 2, Items <- 4, Strays <- 1,
  pending <- queue, due <- closed, drain <- delivery, inFlight <- late,
  attempt <- since, flushTimer <- mode, heart <- recorder, active <- flushing,
  ending <- stop

T == INSTANCE TrackerScript WITH
  Capacity <- 2, BatchSize <- 2, MaxAttempts <- 2, Call <- Recorder,
  Events <- 3, Withdrawals <- 1,
  enabled <- closed, hidden <- stop, waiting <- late, stale <- since,
  handoffs <- batch, pending <- recorder, timer <- mode, call <- flusher,
  withdrawn <- lost

ASSUME ClientScales ==
  N!ClientScale /\ W!WebScale /\ S!SwiftScale /\ T!TrackerScale

\* A step of one part, which leaves alone the variables it does not use.
Go(A) == part = "go" /\ A
Node(A) ==
  part = "node" /\ A /\ UNCHANGED <<batch, stop, recorder, lost, late, since>>
Web(A) == part = "web" /\ A /\ UNCHANGED <<closed, stop, recorder, lost, since>>
Swift(A) == part = "swift" /\ A /\ UNCHANGED lost
Tracker(A) == part = "tracker" /\ A /\ UNCHANGED flushing
-----------------------------------------------------------------------------
ClientsInit ==
  \/ part = "go" /\ Init
  \/ /\ part = "node" /\ N!Init
     /\ batch = 0 /\ stop = FALSE /\ recorder = {} /\ lost = 0 /\ late = 0 /\ since = 0
  \/ /\ part = "web" /\ W!Init
     /\ closed = FALSE /\ stop = FALSE /\ recorder = {} /\ lost = 0 /\ since = 0
  \/ part = "swift" /\ S!Init /\ lost = 0
  \/ part = "tracker" /\ T!Init /\ flushing = FALSE

ClientsNext ==
  /\ UNCHANGED part
  /\ Go(Next) \/ Node(N!Next) \/ Web(W!Next) \/ Swift(S!Next) \/ Tracker(T!Next)

\* The fairness of each module's FairSpec.
Delivers ==
  \/ Go(Loop) \/ Node(N!Drains) \/ Web(W!Delivers) \/ Swift(S!Drains)
  \/ Tracker(T!Answer)
Fires ==
  \/ Go(StopLoop) \/ Node(N!TimerFires) \/ Web(W!TimerFires)
  \/ Swift(S!timerFired) \/ Tracker(\E c \in Recorder : T!TimerFires(c))
GoesOn == Go(FlushFails) \/ Web(W!CloseThen) \/ Tracker(T!record)

ClientsSpec ==
  /\ ClientsInit /\ [][ClientsNext]_<<part, vars>>
  /\ WF_vars(Delivers) /\ WF_vars(Fires) /\ WF_vars(GoesOn)
  /\ SF_vars(Go(Stopped)) /\ SF_vars(Go(FlushAsked))
  /\ \A r \in Recorder : WF_vars(Go(Offer(r)))
  /\ WF_vars(Tracker(\E c \in Recorder : T!Goes(c)))
-----------------------------------------------------------------------------
\* Every item that was recorded is held, within the bound, or counted once as
\* sent or dropped.
Conserved ==
  /\ part = "go" => Accounted
  /\ part = "node" => N!Conserved
  /\ part = "web" => W!Conserved
  /\ part = "swift" => S!Conserved
  /\ part = "tracker" => T!Conserved

\* A flush that returned has delivered or given up what it found (Go, Swift).
FlushesSettle ==
  /\ part = "go" => FlushSettles
  /\ part = "swift" => S!FlushSettles

\* A client that is closed, or whose consent is withdrawn, has nothing left
\* and starts nothing (Go, the web logger, Swift, the tracker).
ClosedClean ==
  /\ part = "go" => CloseDrains
  /\ part = "web" => W!CloseFlushes
  /\ part = "swift" => S!CloseQuiets
  /\ part = "tracker" => T!Forgotten

\* What is queued leaves the queue without another call (JavaScript, Swift,
\* the tracker; the web logger fails this, see WebLoggerTimer.cfg).
Waits(k) ==
  \/ part = "node" /\ queue[k] > 0
  \/ part = "swift" /\ queue > 0 /\ k = 1
  \/ part = "tracker" /\ T!Held + recorder.size > 0 /\ k = 1
Released ==
  \/ part = "node" /\ closed
  \/ part = "tracker" /\ (stop \/ ~closed)
Drained == \A k \in 1..3 : Waits(k) ~> ~Waits(k) \/ Released

\* Whatever the collector answers, close and flush return (Go, the web logger,
\* Swift), and the JavaScript client's drain ends.
Calls(i) ==
  \/ part = "go" /\ i = 1 /\ stop /\ mode # "done"
  \/ part = "go" /\ i = 2 /\ flusher \in {"calling", "waiting"}
  \/ part = "node" /\ i = 1 /\ N!Flushing
  \/ part = "web" /\ i = 1 /\ W!closed /\ flusher # "resolved"
  \/ part = "swift" /\ i = 1 /\ S!closed /\ stop # "closed"
CallsEnd == \A i \in 1..2 : Calls(i) ~> ~Calls(i)
=============================================================================
