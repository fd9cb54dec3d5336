---------------------------- MODULE BrowserVisitors ----------------------------
(***************************************************************************)
(* The acceptance of browser batches and the exact visitors of a day: the  *)
(* claim on a batch's facts, the queue, the receipt with its visitors in   *)
(* one D1 transaction behind the fences of the event days, and the seal of *)
(* a day on the operator's evidence that every worker kept receipts.       *)
(*                                                                         *)
(* One production scope.  A day d lasts from d to d + 1 on the clock.      *)
(***************************************************************************)
EXTENDS Integers, FiniteSets

CONSTANTS
  Day,         \* India calendar days
  Message,     \* batches a tracker may send: id, facts, visitor, days
  Request,     \* requests to the collector
  Generation,  \* worker versions rolled out
  Recording,   \* those that keep receipts; the others answer without
  Skew,        \* MAX_FUTURE_SKEW
  Late,        \* MAX_LATENESS
  Grace,       \* ACCEPTANCE_SETTLEMENT_GRACE
  Retention,   \* days' rows and receipts
  MaxTime,     \* bound on the clock
  None

ASSUME BrowserTimes ==
  /\ {Skew, Late, Grace, Retention, MaxTime} \subseteq Nat
  /\ Day \subseteq Nat \ {0}
  /\ Late + Grace < Retention
  /\ Recording \subseteq Generation

\* A batch has facts of its own and is of known days; None is no batch, and no
\* generation is named like a state of a fence.
ASSUME BrowserBatches ==
  /\ \A m \in Message :
       /\ m \in [id : {m.id}, facts : {m.facts}, visitor : {m.visitor},
                 days : SUBSET Day]
       /\ m.facts # None
  /\ None \notin Message
  /\ {"none", "open"} \intersect Generation = {}

VARIABLES
  now,
  began,     \* per generation: when its rollout began
  full,      \* per recording generation: when it had all traffic
  rows,      \* per generation: which of the two the operator has recorded
  audited,   \* the latest audited_through of the worker rollouts
  claims,    \* browser_expanded_batch_claims: id -> facts
  sent,      \* messages sent to the queue
  receipts,  \* browser_visitor_batch_receipts: id -> message
  fences,    \* browser_visitor_acceptance_day_fences
  visitors,  \* browser_visitor_days: pairs of a day and a visitor
  req,       \* per request: program counter and message
  answered   \* messages answered with 202

evidence == <<began, full, rows, audited>>
ledger == <<claims, sent, receipts, fences, visitors>>
vars == <<now, evidence, ledger, req, answered>>
-----------------------------------------------------------------------------
Never == MaxTime + 1
Id == {m.id : m \in Message}
Visitor == {m.visitor : m \in Message}

CloseAt(d) == d + 1 + Late + Grace
Lapsed(d) == now >= d + 1 + Retention

\* validBrowserEventTimes
Timely(m) == \A d \in m.days : d - Skew <= now /\ now < d + 1 + Late

TypeOK ==
  /\ now \in 0..MaxTime
  /\ began \in [Generation -> 0..Never]
  /\ full \in [Recording -> 0..Never]
  /\ rows \in [Generation -> {"none", "start", "full"}]
  /\ audited \in -1..MaxTime
  /\ claims \in [Id -> {m.facts : m \in Message} \union {None}]
  /\ sent \subseteq Message
  /\ receipts \in [Id -> Message \union {None}]
  /\ fences \in [Day -> {"none", "open"} \union Generation]
  /\ visitors \subseteq Day \X Visitor
  /\ req \in [Request -> [pc : {"idle", "send", "commit"},
                          msg : Message \union {None}]]
  /\ answered \subseteq Message

Init ==
  /\ now = 0
  /\ began = [g \in Generation |-> Never]
  /\ full = [g \in Recording |-> Never]
  /\ rows = [g \in Generation |-> "none"]
  /\ audited = -1
  /\ claims = [i \in Id |-> None]
  /\ sent = {}
  /\ receipts = [i \in Id |-> None]
  /\ fences = [d \in Day |-> "none"]
  /\ visitors = {}
  /\ req = [r \in Request |-> [pc |-> "idle", msg |-> None]]
  /\ answered = {}

Tick ==
  /\ now < MaxTime
  /\ now' = now + 1
  /\ UNCHANGED <<evidence, ledger, req, answered>>
-----------------------------------------------------------------------------
(* Rollouts of the worker, and what the operator records of them.          *)
StartRollout(g) ==
  /\ began[g] = Never
  /\ began' = [began EXCEPT ![g] = now]
  /\ UNCHANGED <<now, full, rows, audited, ledger, req, answered>>
FullTraffic(g) ==
  /\ g \in Recording
  /\ began[g] < now /\ full[g] = Never
  /\ \A h \in Generation \ {g} : began[h] = Never \/ began[h] < began[g]
  /\ full' = [full EXCEPT ![g] = now]
  /\ UNCHANGED <<now, began, rows, audited, ledger, req, answered>>

recordBrowserVisitorRolloutStart(g) ==
  /\ began[g] # Never /\ rows[g] = "none"
  /\ rows' = [rows EXCEPT ![g] = "start"]
  /\ UNCHANGED <<now, began, full, audited, ledger, req, answered>>
confirmBrowserVisitorRolloutFullTraffic(g) ==
  /\ g \in Recording
  /\ full[g] # Never /\ rows[g] = "start"
  /\ rows' = [rows EXCEPT ![g] = "full"]
  /\ UNCHANGED <<now, began, full, audited, ledger, req, answered>>

\* The audit attests that the rollouts until now are recorded.
recordBrowserVisitorCoverageAudit ==
  /\ \A g \in Generation : began[g] # Never => rows[g] # "none"
  /\ audited' = now
  /\ audited' # audited
  /\ UNCHANGED <<now, began, full, rows, ledger, req, answered>>

\* At t no worker answers without a receipt.
Receipted(t) ==
  \E g \in Recording :
    /\ full[g] <= t
    /\ \A h \in Generation \ Recording : ~(full[g] <= began[h] /\ began[h] <= t)
\* A visit of day d may have been answered without a receipt.
Missable(d) ==
  \E t \in 0..now : d - Skew <= t /\ t < d + 1 + Late /\ ~Receipted(t)
-----------------------------------------------------------------------------
(* A request to a worker that keeps receipts.  A refused one is retried.   *)
Idle == [pc |-> "idle", msg |-> None]
Goto(r, pc) == req' = [req EXCEPT ![r].pc = pc]
Refuse(r) == req' = [req EXCEPT ![r] = Idle]
Msg(r) == req[r].msg

\* One transaction reserves the facts of an id, or finds those it has.
ClaimedBySender(m) == [claims EXCEPT ![m.id] = m.facts]
Claimed(m) ==
  IF claims[m.id] = None THEN [claims EXCEPT ![m.id] = m.facts] ELSE claims

\* collectBrowser and reserveBrowserBatch; a failed claim may have claimed.
reserveBrowserBatch(r, m) ==
  /\ req[r].pc = "idle"
  /\ \E g \in Recording : began[g] # Never
  /\ Timely(m)
  /\ claims' = Claimed(m)
  /\ req' = IF claims'[m.id] = m.facts
            THEN [req EXCEPT ![r] = [pc |-> "send", msg |-> m]]
            ELSE req
  /\ UNCHANGED <<now, evidence, sent, receipts, fences, visitors, answered>>

\* The times are checked again before the transaction, which may commit much
\* later.  A send that fails after sending is one followed by a failed commit.
enqueueBrowser(r) ==
  /\ req[r].pc = "send"
  /\ \/ sent' = sent \union {Msg(r)} /\ Timely(Msg(r)) /\ Goto(r, "commit")
     \/ sent' = sent /\ Refuse(r)
  /\ UNCHANGED <<now, evidence, claims, receipts, fences, visitors, answered>>

OpenAnyDay(m, f) == \E d \in m.days : f[d] = "open"
Open(m, f) == \A d \in m.days : f[d] = "open"
Closed(m, f) == \A d \in m.days : f[d] # "open"
Fenced(m) ==
  [d \in Day |-> IF d \in m.days /\ fences[d] = "none" THEN "open" ELSE fences[d]]
SameFingerprint(m, n) == n # None /\ [m EXCEPT !.facts = n.facts] = n

\* acceptBrowserVisitorBatch: fences, receipt, visitors and what was found.
acceptBrowserVisitorBatch(r) ==
  LET m == Msg(r)
      stored == receipts'[m.id]
  IN
  /\ req[r].pc = "commit"
  /\ \/ /\ fences' = Fenced(m)
        /\ receipts' = IF receipts[m.id] = None /\ Open(m, fences')
                       THEN [receipts EXCEPT ![m.id] = m] ELSE receipts
        /\ visitors' = IF SameFingerprint(m, stored) /\ Open(m, fences')
                       THEN visitors \union (m.days \X {m.visitor})
                       ELSE visitors
        /\ answered' = IF stored = m /\ (Open(m, fences') \/ Closed(m, fences'))
                       THEN answered \union {m} ELSE answered
     \/ UNCHANGED <<fences, receipts, visitors, answered>>
  /\ Refuse(r)
  /\ UNCHANGED <<now, evidence, claims, sent>>
-----------------------------------------------------------------------------
(* The seal of a day and its reading.                                      *)
UninterruptedBefore(g, d) ==
  \A h \in Generation \ {g} :
    rows[h] # "none" => ~(full[g] <= began[h] /\ began[h] <= d)
Uninterrupted(g, d) ==
  \A h \in Generation \ {g} :
    rows[h] # "none" => ~(full[g] <= began[h] /\ began[h] <= CloseAt(d))
Covered(g, d) ==
  /\ rows[g] = "full" /\ full[g] <= d - Skew
  /\ Uninterrupted(g, d)
  /\ audited >= CloseAt(d)

sealExactBrowserVisitorDay(d, g) ==
  /\ now >= CloseAt(d)
  /\ fences[d] \in {"none", "open"}
  /\ Covered(g, d)
  /\ fences' = [fences EXCEPT ![d] = g]
  /\ UNCHANGED <<now, evidence, claims, sent, receipts, visitors, req, answered>>

Sealed(d) == fences[d] \in Generation
\* readExactBrowserVisitorDays: complete only while its evidence stands.
Complete(d) == Sealed(d) /\ ~Lapsed(d) /\ Covered(fences[d], d)
Visitors(d) == {v \in Visitor : <<d, v>> \in visitors}

\* cleanupBrowserVisitorDays
cleanupBrowserVisitorDays ==
  /\ \E d \in Day : Lapsed(d) /\ (fences[d] # "none" \/ Visitors(d) # {})
  /\ visitors' = {p \in visitors : ~Lapsed(p[1])}
  /\ fences' = [d \in Day |-> IF Lapsed(d) THEN "none" ELSE fences[d]]
  /\ UNCHANGED <<now, evidence, claims, sent, receipts, req, answered>>
-----------------------------------------------------------------------------
Handle(r) ==
  \/ \E m \in Message : reserveBrowserBatch(r, m)
  \/ enqueueBrowser(r) \/ acceptBrowserVisitorBatch(r)

Next ==
  \/ Tick
  \/ \E g \in Generation :
       \/ StartRollout(g) \/ FullTraffic(g)
       \/ recordBrowserVisitorRolloutStart(g)
       \/ confirmBrowserVisitorRolloutFullTraffic(g)
  \/ recordBrowserVisitorCoverageAudit
  \/ \E r \in Request : Handle(r)
  \/ \E d \in Day, g \in Recording : sealExactBrowserVisitorDay(d, g)
  \/ cleanupBrowserVisitorDays

Spec == Init /\ [][Next]_vars
-----------------------------------------------------------------------------
\* The queue never gets two sets of facts under one batch identity: a claim
\* precedes every send, so what the archive dedupes by identity is one batch.
OneFacts == \A m, n \in sent : m.id = n.id => m.facts = n.facts

\* A day read as complete counts every visit: no worker answered one without a
\* receipt, and the visitors of every batch answered with 202 are counted,
\* however late its transaction committed.
ExactVisitors ==
  \A d \in Day : Complete(d) =>
    /\ ~Missable(d)
    /\ \A m \in answered : d \in m.days => m.visitor \in Visitors(d)

\* What was read as complete does not change: a batch accepted after the seal
\* adds no visitor to its day.
SealedFinal ==
  [][\A d \in Day : Complete(d) /\ Complete(d)' => Visitors(d)' = Visitors(d)]_vars
=============================================================================
