-------------------------- MODULE WorkerStoresProofs --------------------------
(***************************************************************************)
(* Proofs about the worker's stores.  Of BrowserVisitors: one set of facts *)
(* per batch identity, a sealed day that does not change, and a complete   *)
(* day that misses nobody, for any batches, requests, rollouts and time    *)
(* scales.  Of LivePresence: sockets end, sessions count for as long as    *)
(* they are heard and frames are not late, for any intervals.  Of the      *)
(* ingest of endpoint measurements and of logs: counted once, stored when  *)
(* accepted, within the limits.  Of workspaces: seats, signups, imports.   *)
(***************************************************************************)
EXTENDS WorkerStores, Sequences, FiniteSetTheorems, TLAPS

-----------------------------------------------------------------------------
(* Exact visitors.                                                         *)


\* A request that sends or commits has a batch in hand.
InHand == \A r \in Request : req[r].pc # "idle" => Msg(r) \in Message

\* What is sent, and what a request is about to send, has the facts that its
\* identity is claimed with.
SentClaimed == \A m \in sent : claims[m.id] = m.facts
SendClaimed ==
  \A r \in Request : req[r].pc = "send" => claims[Msg(r).id] = Msg(r).facts

\* A receipt names its batch, and while a day lasts its visitor is counted;
\* likewise the visitor of every batch answered.
ReceiptsNamed ==
  \A i \in Id : receipts[i] # None => receipts[i].id = i
ReceiptsCounted ==
  \A i \in Id : receipts[i] # None =>
    \A d \in receipts[i].days : ~Lapsed(d) => <<d, receipts[i].visitor>> \in visitors
AnswersCounted ==
  \A m \in answered : \A d \in m.days : ~Lapsed(d) => <<d, m.visitor>> \in visitors

\* A rollout that began before the last audit is on record, and only those of
\* recording workers are recorded as full.
AuditRecorded ==
  /\ audited <= now
  /\ \A g \in Generation : began[g] < audited => rows[g] # "none"
FullRecorded == \A g \in Generation : rows[g] = "full" => g \in Recording

IInv ==
  /\ TypeOK /\ InHand /\ SentClaimed /\ SendClaimed
  /\ ReceiptsNamed /\ ReceiptsCounted /\ AnswersCounted
  /\ AuditRecorded /\ FullRecorded
-----------------------------------------------------------------------------
\* A batch is a record: replacing its facts by themselves changes nothing, and
\* its identity, visitor and days are of their sets.
LEMMA BatchFields ==
  ASSUME NEW m \in Message
  PROVE  /\ m.id \in Id /\ m.visitor \in Visitor
         /\ m.days \in SUBSET Day
         /\ m.facts # None /\ m # None
         /\ SameFingerprint(m, m)
<1>1. m \in [id : {m.id}, facts : {m.facts}, visitor : {m.visitor}, days : SUBSET Day]
  BY BrowserBatches
<1>2. [m EXCEPT !.facts = m.facts] = m
  BY <1>1
<1> QED
  BY <1>1, <1>2, BrowserBatches DEF Id, Visitor, SameFingerprint

\* The fences of a batch's days: only a day without a fence gets one.
LEMMA FencesKept ==
  ASSUME TypeOK, NEW m \in Message
  PROVE  /\ Fenced(m) \in [Day -> {"none", "open"} \union Generation]
         /\ \A d \in Day : fences[d] # "none" => Fenced(m)[d] = fences[d]
         /\ \A d \in m.days : Fenced(m)[d] # "none"
  BY BatchFields DEF TypeOK, Fenced

LEMMA InitIInv == Init => IInv
<1> SUFFICES ASSUME Init PROVE IInv
  OBVIOUS
<1>1. TypeOK
  BY BrowserTimes DEF Init, TypeOK, Never, Idle
<1>2. InHand /\ SentClaimed /\ SendClaimed
  BY DEF Init, InHand, SentClaimed, SendClaimed
<1>3. ReceiptsNamed /\ ReceiptsCounted /\ AnswersCounted
  BY DEF Init, ReceiptsNamed, ReceiptsCounted, AnswersCounted
<1>4. AuditRecorded /\ FullRecorded
  BY BrowserTimes DEF Init, AuditRecorded, FullRecorded, Never
<1> QED
  BY <1>1, <1>2, <1>3, <1>4 DEF IInv
-----------------------------------------------------------------------------
\* The clock only moves on, and a day that has lapsed stays so.
LEMMA TickKeeps == IInv /\ Tick => IInv'
<1> SUFFICES ASSUME IInv, Tick PROVE IInv'
  OBVIOUS
<1>1. TypeOK'
  BY BrowserTimes DEF IInv, TypeOK, Tick, evidence, ledger
<1>2. \A d \in Day : ~Lapsed(d)' => ~Lapsed(d)
  <2>1. now \in Int /\ now' = now + 1 /\ Retention \in Int /\ Day \subseteq Int
    BY BrowserTimes DEF IInv, TypeOK, Tick
  <2> QED
    BY <2>1 DEF Lapsed
<1>3. InHand' /\ SentClaimed' /\ SendClaimed' /\ ReceiptsNamed' /\ FullRecorded'
  BY DEF IInv, InHand, SentClaimed, SendClaimed, ReceiptsNamed, FullRecorded, Tick,
         evidence, ledger, Msg
<1>4. AuditRecorded'
  BY BrowserTimes DEF IInv, TypeOK, AuditRecorded, Tick, evidence
<1>5. ReceiptsCounted'
  <2> SUFFICES ASSUME NEW i \in Id, receipts[i] # None, NEW d \in receipts[i].days,
                      ~Lapsed(d)'
               PROVE  <<d, receipts[i].visitor>> \in visitors
    BY DEF ReceiptsCounted, Tick, ledger
  <2>1. receipts[i] \in Message
    BY DEF IInv, TypeOK
  <2> QED
    BY <1>2, <2>1, BatchFields DEF IInv, ReceiptsCounted
<1>6. AnswersCounted'
  <2> SUFFICES ASSUME NEW m \in answered, NEW d \in m.days, ~Lapsed(d)'
               PROVE  <<d, m.visitor>> \in visitors
    BY DEF AnswersCounted, Tick, ledger
  <2>1. m \in Message
    BY DEF IInv, TypeOK
  <2> QED
    BY <1>2, <2>1, BatchFields DEF IInv, AnswersCounted
<1> QED
  BY <1>1, <1>3, <1>4, <1>5, <1>6 DEF IInv

\* What depends on the ledger, the requests and the clock alone.
LedgerPart ==
  /\ InHand /\ SentClaimed /\ SendClaimed
  /\ ReceiptsNamed /\ ReceiptsCounted /\ AnswersCounted

LEMMA LedgerFrame ==
  ASSUME LedgerPart, UNCHANGED <<now, ledger, req, answered>>
  PROVE  LedgerPart'
  BY DEF LedgerPart, InHand, SentClaimed, SendClaimed, ReceiptsNamed, ReceiptsCounted,
         AnswersCounted, ledger, Msg, Lapsed

\* Rollouts, the operator's records of them and the audits.
LEMMA EvidenceKeeps ==
  ASSUME IInv,
         \/ \E g \in Generation :
              \/ StartRollout(g) \/ FullTraffic(g)
              \/ recordBrowserVisitorRolloutStart(g)
              \/ confirmBrowserVisitorRolloutFullTraffic(g)
         \/ recordBrowserVisitorCoverageAudit
  PROVE  IInv'
<1> USE BrowserTimes DEF IInv
<1>1. UNCHANGED <<now, ledger, req, answered>>
  BY DEF StartRollout, FullTraffic, recordBrowserVisitorRolloutStart,
         confirmBrowserVisitorRolloutFullTraffic, recordBrowserVisitorCoverageAudit
<1>2. LedgerPart'
  <2>1. LedgerPart
    BY DEF LedgerPart
  <2> QED
    BY <1>1, <2>1, LedgerFrame
<1>3. CASE \E g \in Generation : StartRollout(g)
  <2> PICK g \in Generation : StartRollout(g)
    BY <1>3
  <2>1. TypeOK' /\ AuditRecorded' /\ FullRecorded'
    BY <1>1 DEF StartRollout, TypeOK, AuditRecorded, FullRecorded, Never, ledger
  <2> QED
    BY <2>1, <1>2 DEF LedgerPart
<1>4. CASE \E g \in Generation : FullTraffic(g)
  <2> PICK g \in Generation : FullTraffic(g)
    BY <1>4
  <2>1. TypeOK' /\ AuditRecorded' /\ FullRecorded'
    BY <1>1 DEF FullTraffic, TypeOK, AuditRecorded, FullRecorded, Never, ledger
  <2> QED
    BY <2>1, <1>2 DEF LedgerPart
<1>5. CASE \E g \in Generation : recordBrowserVisitorRolloutStart(g)
  <2> PICK g \in Generation : recordBrowserVisitorRolloutStart(g)
    BY <1>5
  <2>1. TypeOK' /\ AuditRecorded' /\ FullRecorded'
    BY <1>1 DEF recordBrowserVisitorRolloutStart, TypeOK, AuditRecorded, FullRecorded,
                ledger
  <2> QED
    BY <2>1, <1>2 DEF LedgerPart
<1>6. CASE \E g \in Generation : confirmBrowserVisitorRolloutFullTraffic(g)
  <2> PICK g \in Generation : confirmBrowserVisitorRolloutFullTraffic(g)
    BY <1>6
  <2>1. TypeOK' /\ AuditRecorded' /\ FullRecorded'
    BY <1>1 DEF confirmBrowserVisitorRolloutFullTraffic, TypeOK, AuditRecorded,
                FullRecorded, ledger
  <2> QED
    BY <2>1, <1>2 DEF LedgerPart
<1>7. CASE recordBrowserVisitorCoverageAudit
  <2>1. TypeOK'
    BY <1>1, <1>7 DEF recordBrowserVisitorCoverageAudit, TypeOK, ledger
  <2>2. AuditRecorded' /\ FullRecorded'
    BY <1>7 DEF recordBrowserVisitorCoverageAudit, TypeOK, AuditRecorded, FullRecorded,
                Never
  <2> QED
    BY <2>1, <2>2, <1>2 DEF LedgerPart
<1> QED
  BY <1>3, <1>4, <1>5, <1>6, <1>7
-----------------------------------------------------------------------------
\* A claim is made once: what an identity has been claimed with stays.
LEMMA ReserveKeeps ==
  ASSUME IInv, NEW r \in Request, NEW m \in Message, reserveBrowserBatch(r, m)
  PROVE  IInv'
<1> USE BatchFields DEF IInv
<1>1. UNCHANGED <<now, evidence, sent, receipts, fences, visitors, answered>>
  BY DEF reserveBrowserBatch
<1>2. /\ claims' \in [Id -> {n.facts : n \in Message} \union {None}]
      /\ \A i \in Id : claims[i] # None => claims'[i] = claims[i]
  BY DEF reserveBrowserBatch, Claimed, TypeOK
<1>3. \A q \in Request : req'[q] # req[q] =>
        q = r /\ req'[q] = [pc |-> "send", msg |-> m] /\ claims'[m.id] = m.facts
  BY DEF reserveBrowserBatch, TypeOK
<1>4. req' \in [Request -> [pc : {"idle", "send", "commit"}, msg : Message \union {None}]]
  BY DEF reserveBrowserBatch, TypeOK
<1>5. TypeOK'
  BY <1>1, <1>2, <1>4 DEF TypeOK, evidence
<1>6. InHand'
  BY <1>3 DEF InHand, Msg
<1>7. SentClaimed'
  BY <1>1, <1>2 DEF SentClaimed, TypeOK
<1>8. SendClaimed'
  <2> SUFFICES ASSUME NEW q \in Request, req'[q].pc = "send"
               PROVE  claims'[req'[q].msg.id] = req'[q].msg.facts
    BY DEF SendClaimed, Msg
  <2>1. CASE req'[q] = req[q]
    BY <2>1, <1>2 DEF SendClaimed, InHand, Msg
  <2>2. CASE req'[q] # req[q]
    BY <2>2, <1>3
  <2> QED
    BY <2>1, <2>2
<1>9. ReceiptsNamed' /\ ReceiptsCounted' /\ AnswersCounted'
  BY <1>1 DEF ReceiptsNamed, ReceiptsCounted, AnswersCounted, Lapsed
<1>10. AuditRecorded' /\ FullRecorded'
  BY <1>1 DEF AuditRecorded, FullRecorded, evidence
<1> QED
  BY <1>5, <1>6, <1>7, <1>8, <1>9, <1>10

\* A batch that is sent has the facts its request holds the claim for.
LEMMA EnqueueKeeps ==
  ASSUME IInv, NEW r \in Request, enqueueBrowser(r)
  PROVE  IInv'
<1> USE BatchFields DEF IInv
<1>1. UNCHANGED <<now, evidence, claims, receipts, fences, visitors, answered>>
  BY DEF enqueueBrowser
<1>2. Msg(r) \in Message /\ claims[Msg(r).id] = Msg(r).facts
  BY DEF enqueueBrowser, InHand, SendClaimed
<1>3. sent' \subseteq sent \union {Msg(r)}
  BY DEF enqueueBrowser
<1>4. \A q \in Request :
        req'[q] = req[q] \/ req'[q].pc = "idle"
          \/ (req'[q].pc = "commit" /\ req'[q].msg = Msg(r))
  BY DEF enqueueBrowser, Goto, Refuse, Idle, TypeOK, Msg
<1>5. req' \in [Request -> [pc : {"idle", "send", "commit"}, msg : Message \union {None}]]
  BY DEF enqueueBrowser, Goto, Refuse, Idle, TypeOK
<1>6. TypeOK'
  BY <1>1, <1>2, <1>3, <1>5 DEF TypeOK, evidence
<1>7. InHand' /\ SendClaimed'
  BY <1>1, <1>2, <1>4 DEF InHand, SendClaimed, Msg
<1>8. SentClaimed'
  BY <1>1, <1>2, <1>3 DEF SentClaimed
<1>9. ReceiptsNamed' /\ ReceiptsCounted' /\ AnswersCounted'
  BY <1>1 DEF ReceiptsNamed, ReceiptsCounted, AnswersCounted, Lapsed
<1>10. AuditRecorded' /\ FullRecorded'
  BY <1>1 DEF AuditRecorded, FullRecorded, evidence
<1> QED
  BY <1>6, <1>7, <1>8, <1>9, <1>10

\* The receipt, the fences, the visitors and the answer of one transaction.
LEMMA AcceptKeeps ==
  ASSUME IInv, NEW r \in Request, acceptBrowserVisitorBatch(r)
  PROVE  IInv'
<1> USE BatchFields DEF IInv
<1>1. UNCHANGED <<now, evidence, claims, sent>>
  BY DEF acceptBrowserVisitorBatch
<1>2. Msg(r) \in Message
  BY DEF acceptBrowserVisitorBatch, InHand
<1>3. PICK m \in Message : m = Msg(r)
  BY <1>2
<1>4. \A q \in Request : req'[q] = req[q] \/ req'[q].pc = "idle"
  BY DEF acceptBrowserVisitorBatch, Refuse, Idle, TypeOK
<1>5. req' \in [Request -> [pc : {"idle", "send", "commit"}, msg : Message \union {None}]]
  BY DEF acceptBrowserVisitorBatch, Refuse, Idle, TypeOK
<1>6. InHand' /\ SentClaimed' /\ SendClaimed'
  BY <1>1, <1>4 DEF InHand, SentClaimed, SendClaimed, Msg
<1>7. AuditRecorded' /\ FullRecorded'
  BY <1>1 DEF AuditRecorded, FullRecorded, evidence
<1>8. CASE UNCHANGED <<fences, receipts, visitors, answered>>
  <2>1. TypeOK' /\ ReceiptsNamed' /\ ReceiptsCounted' /\ AnswersCounted'
    BY <1>1, <1>5, <1>8
    DEF TypeOK, ReceiptsNamed, ReceiptsCounted, AnswersCounted, Lapsed, evidence
  <2> QED
    BY <2>1, <1>6, <1>7
<1>9. CASE ~ UNCHANGED <<fences, receipts, visitors, answered>>
  \* The effect of the transaction, once.
  <2>1. fences' = Fenced(m)
    BY <1>9, <1>3 DEF acceptBrowserVisitorBatch
  <2>2. receipts' = IF receipts[m.id] = None /\ Open(m, Fenced(m))
                    THEN [receipts EXCEPT ![m.id] = m] ELSE receipts
    BY <1>9, <1>3, <2>1 DEF acceptBrowserVisitorBatch
  <2>3. visitors' = IF SameFingerprint(m, receipts'[m.id]) /\ Open(m, Fenced(m))
                    THEN visitors \union (m.days \X {m.visitor}) ELSE visitors
    BY <1>9, <1>3, <2>1 DEF acceptBrowserVisitorBatch
  <2>4. answered' = IF /\ receipts'[m.id] = m
                       /\ Open(m, Fenced(m)) \/ Closed(m, Fenced(m))
                    THEN answered \union {m} ELSE answered
    BY <1>9, <1>3, <2>1 DEF acceptBrowserVisitorBatch
  <2>5. TypeOK'
    <3>1. receipts' \in [Id -> Message \union {None}]
      BY <2>2 DEF TypeOK
    <3>2. visitors' \subseteq Day \X Visitor
      BY <2>3 DEF TypeOK
    <3>3. answered' \subseteq Message
      BY <2>4 DEF TypeOK
    <3> QED
      BY <1>1, <1>5, <2>1, <3>1, <3>2, <3>3, FencesKept DEF TypeOK, evidence
  <2>6. ReceiptsNamed'
    BY <2>2 DEF ReceiptsNamed, TypeOK
  <2>7. visitors \subseteq visitors' /\ \A d \in Day : Lapsed(d)' = Lapsed(d)
    BY <1>1, <2>3 DEF Lapsed
  \* A receipt is written with the visitors of its days.
  <2>8. ReceiptsCounted'
    <3> SUFFICES ASSUME NEW i \in Id, receipts'[i] # None,
                        NEW d \in receipts'[i].days, ~Lapsed(d)'
                 PROVE  <<d, receipts'[i].visitor>> \in visitors'
      BY DEF ReceiptsCounted
    <3>1. CASE receipts'[i] = receipts[i]
      <4>1. receipts[i] \in Message
        BY <3>1 DEF TypeOK
      <4> QED
        BY <3>1, <4>1, <2>7 DEF ReceiptsCounted
    <3>2. CASE receipts'[i] # receipts[i]
      <4>1. i = m.id /\ receipts'[i] = m /\ Open(m, Fenced(m))
        BY <3>2, <2>2 DEF TypeOK
      <4>2. m.days \X {m.visitor} \subseteq visitors'
        BY <4>1, <2>3
      <4> QED
        BY <4>1, <4>2
    <3> QED
      BY <3>1, <3>2
  \* A batch is answered with its visitors counted, now when its days are open
  \* or with its receipt when they are closed.
  <2>9. AnswersCounted'
    <3> SUFFICES ASSUME NEW n \in answered', NEW d \in n.days, ~Lapsed(d)'
                 PROVE  <<d, n.visitor>> \in visitors'
      BY DEF AnswersCounted
    <3>1. CASE n \in answered
      <4>1. n \in Message
        BY <3>1 DEF TypeOK
      <4> QED
        BY <3>1, <4>1, <2>7 DEF AnswersCounted
    <3>2. CASE n \notin answered
      <4>1. n = m /\ receipts'[m.id] = m /\ (Open(m, Fenced(m)) \/ Closed(m, Fenced(m)))
        BY <3>2, <2>4
      <4>2. CASE Open(m, Fenced(m))
        <5>1. m.days \X {m.visitor} \subseteq visitors'
          BY <4>1, <4>2, <2>3
        <5> QED
          BY <4>1, <5>1
      <4>3. CASE ~Open(m, Fenced(m))
        <5>1. receipts[m.id] = m
          BY <4>1, <4>3, <2>2
        <5> QED
          BY <4>1, <5>1, <2>7 DEF ReceiptsCounted
      <4> QED
        BY <4>2, <4>3
    <3> QED
      BY <3>1, <3>2
  <2> QED
    BY <2>5, <2>6, <2>8, <2>9, <1>6, <1>7
<1> QED
  BY <1>8, <1>9

\* A seal changes the fence of its day only.
LEMMA SealKeeps ==
  ASSUME IInv, NEW d \in Day, NEW g \in Recording, sealExactBrowserVisitorDay(d, g)
  PROVE  IInv'
<1> USE DEF IInv
<1>1. UNCHANGED <<now, evidence, claims, sent, receipts, visitors, req, answered>>
  BY DEF sealExactBrowserVisitorDay
<1>2. fences' \in [Day -> {"none", "open"} \union Generation]
  BY BrowserTimes DEF sealExactBrowserVisitorDay, TypeOK
<1>3. TypeOK' /\ InHand' /\ SentClaimed' /\ SendClaimed'
  BY <1>1, <1>2 DEF TypeOK, InHand, SentClaimed, SendClaimed, Msg, evidence
<1>4. ReceiptsNamed' /\ ReceiptsCounted' /\ AnswersCounted'
  BY <1>1 DEF ReceiptsNamed, ReceiptsCounted, AnswersCounted, Lapsed
<1>5. AuditRecorded' /\ FullRecorded'
  BY <1>1 DEF AuditRecorded, FullRecorded, evidence
<1> QED
  BY <1>3, <1>4, <1>5

\* The cleanup takes the rows of days that have lapsed, and no others.
LEMMA CleanupKeeps == IInv /\ cleanupBrowserVisitorDays => IInv'
<1> SUFFICES ASSUME IInv, cleanupBrowserVisitorDays PROVE IInv'
  OBVIOUS
<1> USE DEF IInv
<1>1. UNCHANGED <<now, evidence, claims, sent, receipts, req, answered>>
  BY DEF cleanupBrowserVisitorDays
<1>2. visitors' = {p \in visitors : ~Lapsed(p[1])}
  BY DEF cleanupBrowserVisitorDays
<1>3. fences' \in [Day -> {"none", "open"} \union Generation] /\ visitors' \subseteq visitors
  BY <1>2 DEF cleanupBrowserVisitorDays, TypeOK
<1>4. TypeOK' /\ InHand' /\ SentClaimed' /\ SendClaimed' /\ ReceiptsNamed'
  BY <1>1, <1>3 DEF TypeOK, InHand, SentClaimed, SendClaimed, ReceiptsNamed, Msg, evidence
<1>5. ReceiptsCounted' /\ AnswersCounted'
  BY <1>1, <1>2 DEF ReceiptsCounted, AnswersCounted, Lapsed
<1>6. AuditRecorded' /\ FullRecorded'
  BY <1>1 DEF AuditRecorded, FullRecorded, evidence
<1> QED
  BY <1>4, <1>5, <1>6

LEMMA StepIInv == IInv /\ [Next]_vars => IInv'
<1> SUFFICES ASSUME IInv, [Next]_vars PROVE IInv'
  OBVIOUS
<1>1. CASE Tick
  BY <1>1, TickKeeps
<1>2. CASE \/ \E g \in Generation :
                \/ StartRollout(g) \/ FullTraffic(g)
                \/ recordBrowserVisitorRolloutStart(g)
                \/ confirmBrowserVisitorRolloutFullTraffic(g)
           \/ recordBrowserVisitorCoverageAudit
  BY <1>2, EvidenceKeeps
<1>3. CASE \E r \in Request : Handle(r)
  <2> PICK r \in Request : Handle(r)
    BY <1>3
  <2> QED
    BY ReserveKeeps, EnqueueKeeps, AcceptKeeps DEF Handle
<1>4. CASE \E d \in Day, g \in Recording : sealExactBrowserVisitorDay(d, g)
  BY <1>4, SealKeeps
<1>5. CASE cleanupBrowserVisitorDays
  BY <1>5, CleanupKeeps
<1>6. CASE UNCHANGED vars
  <2>1. UNCHANGED <<now, evidence, claims, sent, receipts, fences, visitors, req, answered>>
    BY <1>6 DEF vars, ledger
  <2>2. TypeOK' /\ InHand' /\ SentClaimed' /\ SendClaimed' /\ ReceiptsNamed'
    BY <2>1 DEF IInv, TypeOK, InHand, SentClaimed, SendClaimed, ReceiptsNamed, Msg, evidence
  <2>3. ReceiptsCounted' /\ AnswersCounted' /\ AuditRecorded' /\ FullRecorded'
    BY <2>1 DEF IInv, ReceiptsCounted, AnswersCounted, AuditRecorded, FullRecorded,
                Lapsed, evidence
  <2> QED
    BY <2>2, <2>3 DEF IInv
<1> QED
  BY <1>1, <1>2, <1>3, <1>4, <1>5, <1>6 DEF Next
-----------------------------------------------------------------------------
\* The invariant: claims before sends, visitors with receipts, and rollouts on
\* record before the audits that attest to them.
THEOREM VisitorsInvariant == Spec => []IInv
<1> QED
  BY InitIInv, StepIInv, PTL DEF Spec

\* The claim transaction of reserveBrowserBatch comes before every send, so the
\* queue and the archive behind it never hold two batches of one identity.
THEOREM OneSetOfFacts == Spec => []OneFacts
<1>1. IInv => OneFacts
  BY DEF IInv, SentClaimed, OneFacts
<1> QED
  BY <1>1, VisitorsInvariant, PTL

\* A recorded generation that had all traffic before the day, and no rollout on
\* record since, leave no time of the day at which a visit could be missed: the
\* audit is later than the day's close, and every rollout before it is recorded.
LEMMA NothingMissable ==
  ASSUME IInv, NEW d \in Day, NEW g \in Generation, Covered(g, d)
  PROVE  ~Missable(d)
<1>1. g \in Recording
  BY DEF IInv, FullRecorded, Covered
<1> SUFFICES ASSUME NEW t \in 0..now, d - Skew <= t, t < d + 1 + Late
             PROVE  Receipted(t)
  BY DEF Missable
<1>2. /\ d \in Int /\ Skew \in Nat /\ Late \in Nat /\ Grace \in Nat /\ t \in Int
      /\ audited \in Int /\ full[g] \in Int
      /\ \A h \in Generation : began[h] \in Int
  BY <1>1, BrowserTimes DEF IInv, TypeOK, Never
<1>3. full[g] <= t
  BY <1>2 DEF Covered
<1>4. ASSUME NEW h \in Generation \ Recording, full[g] <= began[h], began[h] <= t
      PROVE  FALSE
  <2>1. began[h] < audited /\ began[h] <= CloseAt(d)
    BY <1>2, <1>4 DEF Covered, CloseAt
  <2>2. rows[h] # "none" /\ h # g
    BY <2>1, <1>1 DEF IInv, AuditRecorded
  <2> QED
    BY <2>1, <2>2, <1>4 DEF Covered, Uninterrupted
<1> QED
  BY <1>1, <1>3, <1>4 DEF Receipted

\* readExactBrowserVisitorDays reports a day as complete only when it counts
\* every visitor of the day, however late the transactions committed.
THEOREM CompleteDaysExact == Spec => []ExactVisitors
<1>1. ASSUME IInv PROVE ExactVisitors
  <2> SUFFICES ASSUME NEW d \in Day, Complete(d)
               PROVE  /\ ~Missable(d)
                      /\ \A m \in answered : d \in m.days => m.visitor \in Visitors(d)
    BY DEF ExactVisitors
  <2>1. ~Missable(d)
    BY <1>1, NothingMissable DEF Complete, Sealed
  <2>2. ASSUME NEW m \in answered, d \in m.days PROVE m.visitor \in Visitors(d)
    <3>1. m \in Message /\ <<d, m.visitor>> \in visitors
      BY <1>1, <2>2 DEF IInv, TypeOK, AnswersCounted, Complete
    <3> QED
      BY <3>1, BatchFields DEF Visitors
  <2> QED
    BY <2>1, <2>2
<1> QED
  BY <1>1, VisitorsInvariant, PTL

\* A transaction that finds a day sealed adds no visitor to it, and the cleanup
\* does not touch it before it lapses.
LEMMA SealedStep ==
  ASSUME IInv, [Next]_vars, NEW d \in Day, Complete(d)
  PROVE  Visitors(d)' = Visitors(d)
<1> SUFFICES ASSUME NEW u \in Visitor
             PROVE  <<d, u>> \in visitors' <=> <<d, u>> \in visitors
  BY DEF Visitors
<1>1. CASE UNCHANGED visitors
  BY <1>1
<1>2. CASE \E r \in Request : acceptBrowserVisitorBatch(r) /\ visitors' # visitors
  <2>1. PICK r \in Request : acceptBrowserVisitorBatch(r) /\ visitors' # visitors
    BY <1>2
  <2>2. PICK m \in Message : m = Msg(r)
    BY <2>1 DEF IInv, InHand, acceptBrowserVisitorBatch
  <2>3. /\ fences' = Fenced(m) /\ Open(m, fences')
        /\ visitors' = visitors \union (m.days \X {m.visitor})
    BY <2>1, <2>2 DEF acceptBrowserVisitorBatch
  <2>4. fences[d] \in Generation
    BY DEF Complete, Sealed
  <2>5. Fenced(m)[d] # "open"
    BY <2>4, BrowserBatches, FencesKept DEF IInv
  <2>6. d \notin m.days
    BY <2>3, <2>5 DEF Open
  <2> QED
    BY <2>3, <2>6
<1>3. CASE cleanupBrowserVisitorDays
  BY <1>3 DEF cleanupBrowserVisitorDays, Complete
<1>4. UNCHANGED visitors \/ cleanupBrowserVisitorDays
        \/ \E r \in Request : acceptBrowserVisitorBatch(r) /\ visitors' # visitors
  BY DEF Next, vars, ledger, Tick, StartRollout, FullTraffic,
         recordBrowserVisitorRolloutStart, confirmBrowserVisitorRolloutFullTraffic,
         recordBrowserVisitorCoverageAudit, Handle, reserveBrowserBatch, enqueueBrowser,
         sealExactBrowserVisitorDay
<1> QED
  BY <1>1, <1>2, <1>3, <1>4

\* A day read as complete twice was read with the same visitors.
THEOREM SealIsFinal == Spec => SealedFinal
<1>1. IInv /\ [Next]_vars =>
        [\A d \in Day : Complete(d) /\ Complete(d)' => Visitors(d)' = Visitors(d)]_vars
  BY SealedStep
<1> QED
  BY <1>1, VisitorsInvariant, PTL DEF Spec, SealedFinal
-----------------------------------------------------------------------------
(* Live presence.                                                          *)

\* The sessions of scope p that were heard after t, by their last heartbeats h.
HeardAfter(h, p, t) ==
  {s \in Session : ScopeOf[s] = p /\ h[s] # None /\ h[s] > t}

Socket ==
  [user : Viewer, opened : Nat, expires : Nat, shown : [Scope -> Nat]]

PresenceTypes ==
  /\ now \in Nat
  /\ DOMAIN presence \subseteq Session
  /\ \A s \in DOMAIN presence : presence[s] \in Nat
  /\ heard \in [Session -> Nat \union {None}]
  /\ \A s \in Session : heard[s] # None => heard[s] <= now
  /\ alarm \in Nat \union {None}
  /\ \A c \in DOMAIN sockets :
       /\ sockets[c] \in Socket
       /\ sockets[c].expires = sockets[c].opened + ViewLease
  /\ nextFrame \in Nat /\ nextFrame <= now + Gap
  /\ lastFrame \in [Scope -> Nat] \union {None}
  /\ lastFrame = None => nextFrame = 0
  /\ asking \subseteq [user : Viewer, at : Nat]

\* A row is of a session that was heard since, and is there while its last
\* heartbeat is recent.
RowsHeard ==
  /\ \A s \in DOMAIN presence : heard[s] # None /\ presence[s] <= heard[s]
  /\ \A s \in Session :
       heard[s] # None /\ now - heard[s] < Ttl - Skip =>
         s \in DOMAIN presence /\ presence[s] >= heard[s] - Skip

\* The alarm is never late, at most a Beat away while a socket is open, and no
\* more than a Beat and a Gap after a socket expires; frames that were sent
\* closed what had expired.
AlarmSet ==
  /\ alarm # None => now <= alarm
  /\ \A c \in DOMAIN sockets :
       /\ alarm # None /\ alarm <= now + Beat
       /\ nextFrame < sockets[c].expires + Gap
       /\ alarm < sockets[c].expires + Beat + Gap

\* The last frame counts what was heard when it was sent, and what a socket
\* shows of it what was heard less than a Beat and a Gap before the alarm.
FramesHeard ==
  /\ lastFrame # None =>
       \A p \in Scope :
         lastFrame[p] <= Cardinality(HeardAfter(heard, p, nextFrame - Gap - Ttl))
  /\ \A c \in DOMAIN sockets, p \in Scope :
       sockets[c].shown = lastFrame =>
         lastFrame[p] <= Cardinality(HeardAfter(heard, p, alarm - Beat - Gap - Ttl))

PresenceInv == PresenceTypes /\ RowsHeard /\ AlarmSet /\ FramesHeard
-----------------------------------------------------------------------------
\* The instances count as this module does.
LEMMA PresenceCounts ==
  ASSUME NEW S
  PROVE  /\ Presence!Cardinality(S) = Cardinality(S)
         /\ Presence!IsFiniteSet(S) <=> IsFiniteSet(S)
  BY DEF Presence!Cardinality, Cardinality, Presence!IsFiniteSet, IsFiniteSet

\* The numbers of the presence object.
LEMMA PresenceNumbers ==
  /\ Ttl \in Nat /\ Gap \in Nat /\ ViewLease \in Nat /\ Upgrade \in Nat
  /\ PresenceTime \in Nat /\ Skip \in Nat /\ Skip < Ttl /\ Beat \in Nat /\ Beat > 0
  /\ Beat <= Ttl /\ Ttl < ViewLease /\ None \notin Nat /\ None \notin [Scope -> Nat]
  /\ IsFiniteSet(Session) /\ ScopeOf \in [Session -> Scope]
  BY StoreScales, PresenceCounts DEF Presence!PresenceScale

\* What an alarm of at most a Beat from now says of Ttl ago.
LEMMA EarlierThan ==
  ASSUME NEW a \in Nat, NEW n \in Nat, NEW b \in Nat, NEW g \in Nat, NEW t \in Nat,
         a <= n + b
  PROVE  n - t \in Int /\ a - b - g - t <= n - t
OBVIOUS

\* The sooner of two times.
LEMMA SoonerOf ==
  ASSUME NEW i \in Nat, NEW j \in Nat
  PROVE  Presence!Min({i, j}) = IF i <= j THEN i ELSE j
  BY DEF Presence!Min

\* Who was heard after a time was heard after an earlier one, and heartbeats
\* only add to them.
LEMMA HeardMore ==
  ASSUME NEW h \in [Session -> Nat \union {None}], NEW g \in [Session -> Nat \union {None}],
         NEW p, NEW t \in Int, NEW u \in Int, u <= t,
         \A s \in Session : h[s] # None => g[s] # None /\ h[s] <= g[s]
  PROVE  /\ Cardinality(HeardAfter(h, p, t)) \in Nat
         /\ Cardinality(HeardAfter(g, p, u)) \in Nat
         /\ Cardinality(HeardAfter(h, p, t)) <= Cardinality(HeardAfter(g, p, u))
<1>1. IsFiniteSet(HeardAfter(g, p, u))
  BY PresenceNumbers, FS_Subset DEF HeardAfter
<1>2. HeardAfter(h, p, t) \in SUBSET HeardAfter(g, p, u)
  BY PresenceNumbers DEF HeardAfter
<1> QED
  BY <1>1, <1>2, FS_Subset, FS_CardinalityType

\* A snapshot counts sessions of which a row says that they were heard.
LEMMA SnapshotHeard ==
  ASSUME now \in Nat, NEW h \in [Session -> Nat \union {None}],
         NEW r, DOMAIN r \subseteq Session,
         \A s \in DOMAIN r : r[s] \in Nat /\ h[s] # None /\ r[s] <= h[s]
  PROVE  /\ Presence!Counts(r) \in [Scope -> Nat]
         /\ \A p \in Scope :
              Presence!Counts(r)[p] <= Cardinality(HeardAfter(h, p, now - Ttl))
<1> DEFINE K(p) == {s \in DOMAIN r : ScopeOf[s] = p /\ r[s] > now - Ttl}
<1>1. ASSUME NEW p \in Scope
      PROVE  /\ Cardinality(K(p)) \in Nat
             /\ Cardinality(K(p)) <= Cardinality(HeardAfter(h, p, now - Ttl))
  <2>1. IsFiniteSet(HeardAfter(h, p, now - Ttl))
    BY PresenceNumbers, FS_Subset DEF HeardAfter
  <2>2. K(p) \in SUBSET HeardAfter(h, p, now - Ttl)
    BY PresenceNumbers DEF HeardAfter
  <2> QED
    BY <2>1, <2>2, FS_Subset, FS_CardinalityType
<1>2. Presence!Counts(r) = [p \in Scope |-> Cardinality(K(p))]
  BY PresenceCounts DEF Presence!Counts
<1> QED
  BY <1>1, <1>2

\* Pruning leaves the rows that are recent as they are.
LEMMA KeptRows ==
  ASSUME PresenceTypes
  PROVE  /\ DOMAIN Presence!Kept \subseteq DOMAIN presence
         /\ \A s \in DOMAIN Presence!Kept : Presence!Kept[s] = presence[s]
         /\ \A s \in DOMAIN presence :
              presence[s] > now - Ttl => s \in DOMAIN Presence!Kept
<1>1. CASE now < nextCleanup
  BY <1>1 DEF Presence!Kept
<1>2. CASE ~(now < nextCleanup)
  BY <1>2 DEF Presence!Kept, Presence!Restrict
<1> QED
  BY <1>1, <1>2

\* A frame of rows r, or none: whoever it reaches has not expired, and it says
\* what was heard within Ttl.
LEMMA Broadcast ==
  ASSUME PresenceInv, NEW h \in [Session -> Nat \union {None}],
         NEW r, DOMAIN r \subseteq Session,
         \A s \in DOMAIN r : r[s] \in Nat /\ h[s] # None /\ r[s] <= h[s],
         Presence!broadcast(r)
  PROVE  /\ DOMAIN sockets' \subseteq DOMAIN sockets
         /\ \A c \in DOMAIN sockets' :
              /\ sockets'[c].opened = sockets[c].opened
              /\ sockets'[c].expires = sockets[c].expires
              /\ sockets'[c] \in Socket
         /\ \/ /\ DOMAIN sockets # {}
               /\ nextFrame' = now + Gap /\ lastFrame' \in [Scope -> Nat]
               /\ \A c \in DOMAIN sockets' : sockets[c].expires > now
               /\ \A p \in Scope :
                    lastFrame'[p] <= Cardinality(HeardAfter(h, p, now - Ttl))
            \/ /\ DOMAIN sockets = {} \/ now < nextFrame
               /\ UNCHANGED <<lastFrame, nextFrame, sockets>>
<1>1. CASE ~Presence!FrameDue
  <2>1. UNCHANGED <<lastFrame, nextFrame, sockets>>
    BY <1>1 DEF Presence!broadcast
  <2>2. DOMAIN sockets = {} \/ now < nextFrame
    <3>1. now \in Nat /\ nextFrame \in Nat
      BY DEF PresenceInv, PresenceTypes
    <3>2. DOMAIN sockets = {} \/ ~(now >= nextFrame)
      BY <1>1, Zenon DEF Presence!FrameDue, Presence!Open
    <3>3. ~(now >= nextFrame) => now < nextFrame
      BY <3>1
    <3> QED
      BY <3>2, <3>3, Zenon
  <2> QED
    BY <2>1, <2>2 DEF PresenceInv, PresenceTypes
<1>2. CASE Presence!FrameDue
  <2>1. /\ lastFrame' = Presence!Counts(r) /\ nextFrame' = now + Gap
        /\ sockets' = [c \in {d \in DOMAIN sockets : ~Presence!Expired(d)} |->
             IF Presence!Counts(r) = lastFrame THEN sockets[c]
             ELSE [sockets[c] EXCEPT !.shown = Presence!Counts(r)]]
    BY <1>2 DEF Presence!broadcast, Presence!Frame, Presence!Open
  <2>2. /\ Presence!Counts(r) \in [Scope -> Nat]
        /\ \A p \in Scope :
             Presence!Counts(r)[p] <= Cardinality(HeardAfter(h, p, now - Ttl))
    BY SnapshotHeard DEF PresenceInv, PresenceTypes
  <2>3. DOMAIN sockets # {}
    BY <1>2 DEF Presence!FrameDue, Presence!Open
  <2>4. /\ DOMAIN sockets' = {d \in DOMAIN sockets : ~Presence!Expired(d)}
        /\ \A c \in DOMAIN sockets' :
             sockets'[c] = IF Presence!Counts(r) = lastFrame THEN sockets[c]
                           ELSE [sockets[c] EXCEPT !.shown = Presence!Counts(r)]
    BY <2>1
  <2>5. ASSUME NEW c \in DOMAIN sockets'
        PROVE  /\ sockets[c].expires > now
               /\ sockets'[c].opened = sockets[c].opened
               /\ sockets'[c].expires = sockets[c].expires
               /\ sockets'[c] \in Socket
    <3>1. sockets[c] \in Socket /\ c \in DOMAIN sockets /\ now \in Nat
      BY <2>4 DEF PresenceInv, PresenceTypes
    <3>2. ~(sockets[c].expires <= now)
      BY <2>4 DEF Presence!Expired
    <3>3. [sockets[c] EXCEPT !.shown = Presence!Counts(r)] \in Socket
          /\ [sockets[c] EXCEPT !.shown = Presence!Counts(r)].opened = sockets[c].opened
          /\ [sockets[c] EXCEPT !.shown = Presence!Counts(r)].expires = sockets[c].expires
      BY <2>2, <3>1 DEF Socket
    <3> QED
      BY <2>4, <3>1, <3>2, <3>3 DEF Socket
  <2> QED
    BY <2>1, <2>2, <2>3, <2>4, <2>5
<1> QED
  BY <1>1, <1>2

\* A broadcast keeps the promises of the sockets it leaves open, when an alarm
\* is at most a Beat away.
LEMMA AfterBroadcast ==
  ASSUME PresenceInv, now' = now, asking' = asking,
         heard' \in [Session -> Nat \union {None}],
         \A s \in Session : heard'[s] # None => heard'[s] <= now,
         \A s \in Session : heard[s] # None => heard'[s] # None /\ heard[s] <= heard'[s],
         DOMAIN presence' \subseteq Session,
         \A s \in DOMAIN presence' :
           presence'[s] \in Nat /\ heard'[s] # None /\ presence'[s] <= heard'[s],
         Presence!broadcast(presence'),
         alarm' \in Nat \union {None}, alarm' # None => now <= alarm',
         DOMAIN sockets' # {} => alarm' # None /\ alarm' <= now + Beat
  PROVE  PresenceTypes' /\ AlarmSet' /\ FramesHeard'
<1> DEFINE h == heard'
<1>n. now \in Nat /\ nextFrame \in Nat /\ nextFrame <= now + Gap
      /\ lastFrame \in [Scope -> Nat] \union {None}
      /\ (lastFrame = None => nextFrame = 0)
      /\ heard \in [Session -> Nat \union {None}]
      /\ asking \subseteq [user : Viewer, at : Nat]
      /\ alarm \in Nat \union {None}
      /\ \A c \in DOMAIN sockets : /\ sockets[c] \in Socket
                                   /\ sockets[c].expires = sockets[c].opened + ViewLease
  BY DEF PresenceInv, PresenceTypes
<1>b. /\ DOMAIN sockets' \subseteq DOMAIN sockets
      /\ \A c \in DOMAIN sockets' :
           /\ sockets'[c].opened = sockets[c].opened
           /\ sockets'[c].expires = sockets[c].expires
           /\ sockets'[c] \in Socket
      /\ \/ /\ DOMAIN sockets # {}
            /\ nextFrame' = now + Gap /\ lastFrame' \in [Scope -> Nat]
            /\ \A c \in DOMAIN sockets' : sockets[c].expires > now
            /\ \A p \in Scope :
                 lastFrame'[p] <= Cardinality(HeardAfter(h, p, now - Ttl))
         \/ /\ DOMAIN sockets = {} \/ now < nextFrame
            /\ UNCHANGED <<lastFrame, nextFrame, sockets>>
  BY Broadcast
<1>s. \A c \in DOMAIN sockets : sockets[c].expires \in Nat /\ sockets[c].opened \in Nat
  BY <1>n DEF Socket
<1>1. PresenceTypes'
  BY <1>n, <1>b, PresenceNumbers DEF PresenceTypes
<1>2. AlarmSet'
  <2>1. ASSUME NEW c \in DOMAIN sockets'
        PROVE  /\ nextFrame' < sockets'[c].expires + Gap
               /\ alarm' < sockets'[c].expires + Beat + Gap
               /\ alarm' # None /\ alarm' <= now' + Beat
    <3>1. c \in DOMAIN sockets /\ alarm' # None /\ alarm' \in Nat /\ alarm' <= now + Beat
      BY <1>b, <2>1
    <3>2. nextFrame < sockets[c].expires + Gap
      BY <3>1 DEF PresenceInv, AlarmSet
    <3>3. sockets'[c].expires = sockets[c].expires /\ sockets[c].expires \in Nat
      BY <1>b, <1>s, <2>1, <3>1
    <3>4. CASE nextFrame' = now + Gap /\ sockets[c].expires > now
      BY <3>1, <3>3, <3>4, <1>n, PresenceNumbers
    <3>5. CASE now < nextFrame /\ nextFrame' = nextFrame
      BY <3>1, <3>2, <3>3, <3>5, <1>n, PresenceNumbers
    <3> QED
      BY <1>b, <2>1, <3>1, <3>4, <3>5
  <2> QED
    BY <2>1 DEF AlarmSet
<1>3. FramesHeard'
  <2>1. ASSUME lastFrame' # None, NEW p \in Scope
        PROVE  lastFrame'[p] <= Cardinality(HeardAfter(h, p, nextFrame' - Gap - Ttl))
    <3>1. CASE /\ nextFrame' = now + Gap
               /\ lastFrame'[p] <= Cardinality(HeardAfter(h, p, now - Ttl))
      <4>1. nextFrame' - Gap - Ttl = now - Ttl
        BY <3>1, <1>n, PresenceNumbers
      <4> QED
        BY <3>1, <4>1
    <3>2. CASE UNCHANGED <<lastFrame, nextFrame>>
      <4>1. lastFrame[p] <= Cardinality(HeardAfter(heard, p, nextFrame - Gap - Ttl))
        BY <2>1, <3>2 DEF PresenceInv, FramesHeard
      <4>2. /\ Cardinality(HeardAfter(heard, p, nextFrame - Gap - Ttl)) \in Nat
            /\ Cardinality(HeardAfter(h, p, nextFrame - Gap - Ttl)) \in Nat
            /\ Cardinality(HeardAfter(heard, p, nextFrame - Gap - Ttl))
                 <= Cardinality(HeardAfter(h, p, nextFrame - Gap - Ttl))
        <5>1. nextFrame - Gap - Ttl \in Int /\ nextFrame - Gap - Ttl <= nextFrame - Gap - Ttl
          BY <1>n, PresenceNumbers
        <5> QED
          BY <1>n, <5>1, HeardMore
      <4>3. lastFrame[p] \in Nat
        BY <1>n, <2>1, <3>2
      <4> QED
        BY <3>2, <4>1, <4>2, <4>3
    <3> QED
      BY <1>b, <3>1, <3>2
  <2>2. ASSUME NEW c \in DOMAIN sockets', NEW p \in Scope, sockets'[c].shown = lastFrame'
        PROVE  lastFrame'[p] <= Cardinality(HeardAfter(h, p, alarm' - Beat - Gap - Ttl))
    <3>1. alarm' \in Nat /\ alarm' <= now + Beat /\ c \in DOMAIN sockets
      BY <1>b, <2>2
    <3>2. lastFrame' \in [Scope -> Nat]
      BY <1>b, <2>2 DEF Socket
    <3>3. lastFrame' # None
      BY <3>2, PresenceNumbers
    <3>4. PICK t \in Int : /\ alarm' - Beat - Gap - Ttl <= t
                           /\ lastFrame'[p] <= Cardinality(HeardAfter(h, p, t))
      <4>1. CASE lastFrame'[p] <= Cardinality(HeardAfter(h, p, now - Ttl))
        <5>n. Ttl \in Nat /\ Gap \in Nat /\ Beat \in Nat /\ now \in Nat
          BY <1>n, PresenceNumbers
        <5>1. now - Ttl \in Int /\ alarm' - Beat - Gap - Ttl <= now - Ttl
          BY <3>1, <5>n, EarlierThan
        <5> QED
          BY <4>1, <5>1
      <4>2. CASE now < nextFrame /\ nextFrame' = nextFrame
        <5>1. /\ nextFrame' - Gap - Ttl \in Int
              /\ alarm' - Beat - Gap - Ttl <= nextFrame' - Gap - Ttl
          BY <3>1, <4>2, <1>n, PresenceNumbers
        <5> QED
          BY <2>1, <3>3, <5>1
      <4> QED
        BY <1>b, <3>1, <4>1, <4>2
    <3>5. alarm' - Beat - Gap - Ttl \in Int
      BY <3>1, PresenceNumbers
    <3>6. /\ Cardinality(HeardAfter(h, p, t)) \in Nat
          /\ Cardinality(HeardAfter(h, p, alarm' - Beat - Gap - Ttl)) \in Nat
          /\ Cardinality(HeardAfter(h, p, t))
               <= Cardinality(HeardAfter(h, p, alarm' - Beat - Gap - Ttl))
      <4>1. \A s \in Session : h[s] # None => h[s] # None /\ h[s] <= h[s]
        BY PresenceNumbers
      <4> QED
        BY <3>4, <3>5, <4>1, HeardMore
    <3>7. lastFrame'[p] \in Nat
      BY <3>2
    <3> QED
      BY <3>4, <3>6, <3>7
  <2> QED
    BY <2>1, <2>2 DEF FramesHeard
<1> QED
  BY <1>1, <1>2, <1>3

\* The alarm after it was brought forward to t, if that is sooner.
LEMMA AlarmSooner ==
  ASSUME alarm \in Nat \union {None}, NEW t \in Nat, Presence!Sooner(t)
  PROVE  /\ alarm' \in Nat /\ alarm' <= t
         /\ alarm' = t \/ alarm' = alarm
         /\ alarm # None => alarm' <= alarm
<1>1. CASE alarm = None
  BY <1>1 DEF Presence!Sooner
<1>2. CASE alarm # None
  <2>1. alarm \in Nat /\ alarm' = Presence!Min({alarm, t})
    BY <1>2 DEF Presence!Sooner
  <2> QED
    BY <2>1, SoonerOf
<1> QED
  BY <1>1, <1>2

LEMMA HeartbeatStep ==
  ASSUME PresenceInv, NEW s \in Session, Presence!heartbeat(s)
  PROVE  PresenceInv'
<1> DEFINE K == Presence!Kept
<1>n. /\ now \in Nat /\ nextFrame \in Nat /\ alarm \in Nat \union {None}
      /\ heard \in [Session -> Nat \union {None}]
      /\ DOMAIN presence \subseteq Session
      /\ \A u \in DOMAIN presence : presence[u] \in Nat
  BY DEF PresenceInv, PresenceTypes
<1>a. /\ presence' = Presence!Recorded(s) /\ heard' = [heard EXCEPT ![s] = now]
      /\ Presence!broadcast(presence')
      /\ Presence!Sooner(IF DOMAIN sockets # {} /\ now < nextFrame THEN nextFrame
                         ELSE now + Presence!AlarmDelay(DOMAIN sockets'))
      /\ now' = now /\ watchers' = watchers /\ asking' = asking
  BY DEF Presence!heartbeat, Presence!Open
<1>k. /\ DOMAIN K \subseteq DOMAIN presence
      /\ \A u \in DOMAIN K : K[u] = presence[u]
      /\ \A u \in DOMAIN presence : presence[u] > now - Ttl => u \in DOMAIN K
  BY KeptRows DEF PresenceInv
<1>h. /\ heard' \in [Session -> Nat \union {None}] /\ heard'[s] = now
      /\ \A u \in Session : u # s => heard'[u] = heard[u]
  BY <1>n, <1>a
<1>m. \A u \in Session : heard[u] # None =>
        heard'[u] # None /\ heard[u] <= heard'[u] /\ heard[u] <= now
  <2>1. \A u \in Session : heard[u] # None => heard[u] <= now
    BY DEF PresenceInv, PresenceTypes
  <2> QED
    BY <1>n, <1>h, <2>1, PresenceNumbers
<1>r. /\ DOMAIN presence' = DOMAIN K \union {s}
      /\ \A u \in DOMAIN K : u # s => presence'[u] = presence[u]
      /\ presence'[s] \in Nat /\ presence'[s] <= now /\ presence'[s] >= now - Skip
  <2>1. CASE s \in DOMAIN K /\ now - K[s] < Skip
    <3>1. presence' = K
      BY <1>a, <2>1 DEF Presence!Recorded
    <3>2. s \in DOMAIN presence /\ presence[s] \in Nat /\ presence[s] = K[s]
      BY <1>k, <1>n, <2>1
    <3>3. presence[s] <= now
      BY <1>m, <1>n, <3>2 DEF PresenceInv, RowsHeard
    <3>4. presence[s] >= now - Skip
      BY <1>n, <2>1, <3>2, PresenceNumbers
    <3> QED
      BY <1>k, <2>1, <3>1, <3>2, <3>3, <3>4
  <2>2. CASE ~(s \in DOMAIN K /\ now - K[s] < Skip)
    <3>1. presence' = [t \in DOMAIN K \union {s} |-> IF t = s THEN now ELSE K[t]]
      BY <1>a, <2>2 DEF Presence!Recorded
    <3> QED
      BY <1>k, <1>n, <3>1, PresenceNumbers
  <2> QED
    BY <2>1, <2>2
<1>1. /\ DOMAIN presence' \subseteq Session
      /\ \A u \in DOMAIN presence' :
           presence'[u] \in Nat /\ heard'[u] # None /\ presence'[u] <= heard'[u]
  <2>1. \A u \in DOMAIN presence : heard[u] # None /\ presence[u] <= heard[u]
    BY DEF PresenceInv, RowsHeard
  <2> QED
    BY <1>n, <1>k, <1>h, <1>r, <2>1, PresenceNumbers
<1>2. alarm' \in Nat /\ now <= alarm' /\ (DOMAIN sockets' # {} => alarm' <= now + Beat)
  <2>1. DOMAIN sockets' \subseteq DOMAIN sockets
    BY <1>a, <1>1, <1>h, Broadcast
  <2> DEFINE d == Presence!AlarmDelay(DOMAIN sockets')
             t == IF DOMAIN sockets # {} /\ now < nextFrame THEN nextFrame ELSE now + d
  <2>2. d = IF DOMAIN sockets' = {} THEN Ttl ELSE Beat
    BY DEF Presence!AlarmDelay
  <2>3. d \in Nat
    BY <2>2, PresenceNumbers
  <2>4. t \in Nat /\ t >= now
    BY <1>n, <2>3
  <2>5. /\ alarm' \in Nat /\ alarm' <= t
        /\ alarm' = t \/ alarm' = alarm
        /\ alarm # None => alarm' <= alarm
    <3> HIDE DEF t
    <3>1. Presence!Sooner(t)
      BY <1>a DEF t
    <3> QED
      BY <1>n, <2>4, <3>1, AlarmSooner
  <2>6. now <= alarm'
    BY <1>n, <2>4, <2>5, PresenceNumbers DEF PresenceInv, AlarmSet
  <2>7. ASSUME DOMAIN sockets' # {}
        PROVE  alarm' <= now + Beat
    <3>1. PICK c : c \in DOMAIN sockets
      BY <2>1, <2>7
    <3>2. alarm # None /\ alarm <= now + Beat
      BY <3>1 DEF PresenceInv, AlarmSet
    <3> QED
      BY <1>n, <2>5, <3>2, PresenceNumbers
  <2> QED
    BY <2>5, <2>6, <2>7
<1>3. PresenceTypes' /\ AlarmSet' /\ FramesHeard'
  <2>1. alarm' \in Nat \union {None} /\ (alarm' # None => now <= alarm')
        /\ (DOMAIN sockets' # {} => alarm' # None /\ alarm' <= now + Beat)
    BY <1>2, PresenceNumbers
  <2> QED
    BY <1>n, <1>a, <1>h, <1>m, <1>1, <2>1, AfterBroadcast
<1>4. RowsHeard'
  <2>1. ASSUME NEW u \in Session, heard'[u] # None, now - heard'[u] < Ttl - Skip
        PROVE  u \in DOMAIN presence' /\ presence'[u] >= heard'[u] - Skip
    <3>1. CASE u = s
      BY <1>h, <1>r, <3>1
    <3>2. CASE u # s
      <4>1. heard'[u] = heard[u] /\ heard[u] \in Nat
        BY <1>n, <1>h, <2>1, <3>2
      <4>2. u \in DOMAIN presence /\ presence[u] >= heard[u] - Skip /\ presence[u] \in Nat
        BY <1>n, <2>1, <4>1 DEF PresenceInv, RowsHeard
      <4>3. presence[u] > now - Ttl
        BY <1>n, <2>1, <4>1, <4>2, PresenceNumbers
      <4> QED
        BY <1>k, <1>r, <3>2, <4>1, <4>2, <4>3
    <3> QED
      BY <3>1, <3>2
  <2> QED
    BY <1>1, <1>a, <2>1 DEF RowsHeard
<1> QED
  BY <1>3, <1>4 DEF PresenceInv

LEMMA HeartbeatRefusedStep ==
  ASSUME PresenceInv, NEW s \in Session, Presence!heartbeatRefused(s)
  PROVE  PresenceInv'
<1>1. /\ presence' = Presence!Kept
      /\ UNCHANGED <<now, heard, alarm, sockets, lastFrame, nextFrame, watchers, asking>>
  BY DEF Presence!heartbeatRefused
<1>2. /\ DOMAIN presence' \subseteq DOMAIN presence
      /\ \A u \in DOMAIN presence' : presence'[u] = presence[u]
      /\ \A u \in DOMAIN presence : presence[u] > now - Ttl => u \in DOMAIN presence'
  BY <1>1, KeptRows DEF PresenceInv
<1>3. PresenceTypes'
  BY <1>1, <1>2 DEF PresenceInv, PresenceTypes
<1>4. RowsHeard'
  <2>1. ASSUME NEW u \in Session, heard[u] # None, now - heard[u] < Ttl - Skip
        PROVE  u \in DOMAIN presence' /\ presence'[u] >= heard[u] - Skip
    <3>1. /\ u \in DOMAIN presence /\ presence[u] >= heard[u] - Skip
          /\ presence[u] \in Nat /\ heard[u] \in Nat /\ now \in Nat
      BY <2>1 DEF PresenceInv, RowsHeard, PresenceTypes
    <3>2. presence[u] > now - Ttl
      BY <2>1, <3>1, PresenceNumbers
    <3> QED
      BY <1>2, <3>1, <3>2
  <2> QED
    BY <1>1, <1>2, <2>1 DEF PresenceInv, RowsHeard
<1>5. AlarmSet' /\ FramesHeard'
  BY <1>1 DEF PresenceInv, AlarmSet, FramesHeard, HeardAfter
<1> QED
  BY <1>3, <1>4, <1>5 DEF PresenceInv

\* Sockets that close disturb nothing.
LEMMA FewerSockets ==
  ASSUME PresenceInv, asking' \subseteq [user : Viewer, at : Nat],
         UNCHANGED <<now, presence, heard, alarm, lastFrame, nextFrame>>,
         DOMAIN sockets' \subseteq DOMAIN sockets,
         \A c \in DOMAIN sockets' : sockets'[c] = sockets[c]
  PROVE  PresenceInv'
<1>1. PresenceTypes'
  BY DEF PresenceInv, PresenceTypes
<1>2. RowsHeard'
  BY DEF PresenceInv, RowsHeard
<1>3. AlarmSet'
  BY DEF PresenceInv, AlarmSet
<1>4. FramesHeard'
  BY DEF PresenceInv, FramesHeard, HeardAfter
<1> QED
  BY <1>1, <1>2, <1>3, <1>4 DEF PresenceInv

LEMMA SocketSteps ==
  ASSUME PresenceInv,
         \/ \E v \in Viewer : Presence!Authenticate(v) \/ Presence!RemoveMember(v)
         \/ \E q \in asking : Presence!fetchRefused(q)
         \/ \E c \in Connection : Presence!webSocketClose(c)
  PROVE  PresenceInv'
<1>t. now \in Nat /\ asking \subseteq [user : Viewer, at : Nat]
  BY DEF PresenceInv, PresenceTypes
<1>1. ASSUME NEW v \in Viewer, Presence!Authenticate(v)
      PROVE  PresenceInv'
  <2>1. [user |-> v, at |-> now] \in [user : Viewer, at : Nat]
    BY <1>t
  <2>2. /\ UNCHANGED <<now, presence, heard, alarm, sockets, lastFrame, nextFrame>>
        /\ asking' = asking \union {[user |-> v, at |-> now]}
    BY <1>1 DEF Presence!Authenticate
  <2> QED
    BY <1>t, <2>1, <2>2, FewerSockets
<1>2. ASSUME NEW v \in Viewer, Presence!RemoveMember(v)
      PROVE  PresenceInv'
  <2>1. /\ UNCHANGED <<now, presence, heard, alarm, lastFrame, nextFrame, asking>>
        /\ \/ sockets' = Presence!Restrict(sockets, {c \in DOMAIN sockets : sockets[c].user # v})
           \/ UNCHANGED sockets
    BY <1>2 DEF Presence!RemoveMember, Presence!Open
  <2>2. /\ DOMAIN sockets' \subseteq DOMAIN sockets
        /\ \A c \in DOMAIN sockets' : sockets'[c] = sockets[c]
    BY <2>1 DEF Presence!Restrict
  <2> QED
    BY <1>t, <2>1, <2>2, FewerSockets
<1>3. ASSUME NEW q \in asking, Presence!fetchRefused(q)
      PROVE  PresenceInv'
  <2>1. /\ UNCHANGED <<now, presence, heard, alarm, sockets, lastFrame, nextFrame>>
        /\ asking' = asking \ {q}
    BY <1>3 DEF Presence!fetchRefused
  <2> QED
    BY <1>t, <2>1, FewerSockets
<1>4. ASSUME NEW c \in Connection, Presence!webSocketClose(c)
      PROVE  PresenceInv'
  <2>1. /\ UNCHANGED <<now, presence, heard, alarm, lastFrame, nextFrame, asking>>
        /\ sockets' = Presence!Restrict(sockets, DOMAIN sockets \ {c})
    BY <1>4 DEF Presence!webSocketClose, Presence!Open
  <2>2. /\ DOMAIN sockets' \subseteq DOMAIN sockets
        /\ \A d \in DOMAIN sockets' : sockets'[d] = sockets[d]
    BY <2>1 DEF Presence!Restrict
  <2> QED
    BY <1>t, <2>1, <2>2, FewerSockets
<1> QED
  BY <1>1, <1>2, <1>3, <1>4

LEMMA FetchStep ==
  ASSUME PresenceInv, NEW q \in asking, NEW c \in Connection, Presence!fetch(c, q)
  PROVE  PresenceInv'
<1> DEFINE S == Presence!Counts(presence)
<1>n. /\ now \in Nat /\ nextFrame \in Nat /\ alarm \in Nat \union {None}
      /\ nextFrame <= now + Gap /\ heard \in [Session -> Nat \union {None}]
      /\ q.user \in Viewer /\ asking \subseteq [user : Viewer, at : Nat]
  BY DEF PresenceInv, PresenceTypes
<1>a. /\ c \notin DOMAIN sockets /\ asking' = asking \ {q}
      /\ sockets' = [d \in DOMAIN sockets \union {c} |->
           IF d # c THEN sockets[d]
           ELSE [user |-> q.user, opened |-> now, expires |-> now + ViewLease, shown |-> S]]
      /\ Presence!Sooner(now + Beat)
      /\ UNCHANGED <<now, presence, heard, lastFrame, nextCleanup, nextFrame, watchers>>
  BY DEF Presence!fetch, Presence!Open
<1>s. /\ S \in [Scope -> Nat]
      /\ \A p \in Scope : S[p] <= Cardinality(HeardAfter(heard, p, now - Ttl))
  BY SnapshotHeard DEF PresenceInv, PresenceTypes, RowsHeard
<1> HIDE DEF S
<1>w. PICK e : e = [user |-> q.user, opened |-> now, expires |-> now + ViewLease, shown |-> S]
  OBVIOUS
<1>e. e \in Socket /\ e.opened = now /\ e.expires = now + ViewLease /\ e.shown = S
  BY <1>n, <1>s, <1>w, PresenceNumbers DEF Socket
<1>d. /\ DOMAIN sockets' = DOMAIN sockets \union {c} /\ sockets'[c] = e
      /\ \A d \in DOMAIN sockets : sockets'[d] = sockets[d]
  BY <1>a, <1>w
<1>b. alarm' \in Nat /\ alarm' <= now + Beat /\ now <= alarm' /\ (alarm # None => alarm' <= alarm)
  <2>1. now + Beat \in Nat /\ now + Beat >= now
    BY <1>n, PresenceNumbers
  <2>2. /\ alarm' \in Nat /\ alarm' <= now + Beat
        /\ alarm' = now + Beat \/ alarm' = alarm
        /\ alarm # None => alarm' <= alarm
    BY <1>a, <1>n, <2>1, AlarmSooner
  <2>3. now <= alarm'
    BY <1>n, <2>1, <2>2, PresenceNumbers DEF PresenceInv, AlarmSet
  <2> QED
    BY <2>2, <2>3
<1>1. PresenceTypes'
  BY <1>n, <1>a, <1>b, <1>d, <1>e DEF PresenceInv, PresenceTypes
<1>2. RowsHeard'
  BY <1>a DEF PresenceInv, RowsHeard
<1>3. AlarmSet'
  <2>1. ASSUME NEW d \in DOMAIN sockets'
        PROVE  /\ alarm' # None /\ alarm' <= now' + Beat
               /\ nextFrame' < sockets'[d].expires + Gap
               /\ alarm' < sockets'[d].expires + Beat + Gap
    <3>1. CASE d = c
      <4>1. sockets'[d].expires = now + ViewLease
        BY <1>d, <1>e, <3>1
      <4> QED
        BY <1>a, <1>b, <1>n, <4>1, PresenceNumbers
    <3>2. CASE d # c
      <4>1. d \in DOMAIN sockets /\ sockets'[d] = sockets[d]
        BY <1>d, <2>1, <3>2
      <4>2. /\ alarm # None /\ nextFrame < sockets[d].expires + Gap
            /\ alarm < sockets[d].expires + Beat + Gap
        BY <4>1 DEF PresenceInv, AlarmSet
      <4>3. sockets[d].expires \in Nat
        BY <4>1 DEF PresenceInv, PresenceTypes, Socket
      <4> QED
        BY <1>a, <1>b, <1>n, <4>1, <4>2, <4>3, PresenceNumbers
    <3> QED
      BY <3>1, <3>2
  <2> QED
    BY <1>a, <1>b, <2>1 DEF AlarmSet
<1>4. FramesHeard'
  <2>1. ASSUME NEW d \in DOMAIN sockets', NEW p \in Scope, sockets'[d].shown = lastFrame
        PROVE  lastFrame[p] <= Cardinality(HeardAfter(heard, p, alarm' - Beat - Gap - Ttl))
    <3>h. \A s \in Session : heard[s] # None => heard[s] # None /\ heard[s] <= heard[s]
      BY <1>n, PresenceNumbers
    <3>i. alarm' - Beat - Gap - Ttl \in Int
      BY <1>b, PresenceNumbers
    <3>1. PICK t \in Int : /\ alarm' - Beat - Gap - Ttl <= t
                           /\ lastFrame[p] <= Cardinality(HeardAfter(heard, p, t))
      <4>1. CASE d = c
        <5>1. lastFrame = S
          BY <1>d, <1>e, <2>1, <4>1
        <5>2. now - Ttl \in Int /\ alarm' - Beat - Gap - Ttl <= now - Ttl
          BY <1>b, <1>n, PresenceNumbers, EarlierThan
        <5> QED
          BY <1>s, <5>1, <5>2
      <4>2. CASE d # c
        <5>1. d \in DOMAIN sockets /\ sockets[d].shown = lastFrame
          BY <1>d, <2>1, <4>2
        <5>2. /\ alarm \in Nat /\ alarm' <= alarm
              /\ lastFrame[p] <= Cardinality(HeardAfter(heard, p, alarm - Beat - Gap - Ttl))
          BY <1>n, <1>b, <5>1 DEF PresenceInv, AlarmSet, FramesHeard
        <5>3. alarm - Beat - Gap - Ttl \in Int
              /\ alarm' - Beat - Gap - Ttl <= alarm - Beat - Gap - Ttl
          BY <1>b, <5>2, PresenceNumbers
        <5> QED
          BY <5>2, <5>3
      <4> QED
        BY <4>1, <4>2
    <3>2. /\ Cardinality(HeardAfter(heard, p, t)) \in Nat
          /\ Cardinality(HeardAfter(heard, p, alarm' - Beat - Gap - Ttl)) \in Nat
          /\ Cardinality(HeardAfter(heard, p, t))
               <= Cardinality(HeardAfter(heard, p, alarm' - Beat - Gap - Ttl))
      BY <1>n, <3>1, <3>i, <3>h, HeardMore
    <3>3. sockets'[d].shown \in [Scope -> Nat]
      BY <1>1, <2>1 DEF PresenceTypes, Socket
    <3> QED
      BY <2>1, <3>1, <3>2, <3>3
  <2> QED
    BY <1>a, <2>1 DEF PresenceInv, FramesHeard, HeardAfter
<1> QED
  BY <1>1, <1>2, <1>3, <1>4 DEF PresenceInv

LEMMA AlarmStep ==
  ASSUME PresenceInv, Presence!Alarm
  PROVE  PresenceInv'
<1>n. now \in Nat /\ nextFrame \in Nat /\ heard \in [Session -> Nat \union {None}]
  BY DEF PresenceInv, PresenceTypes
<1>a. /\ presence' = Presence!Kept /\ Presence!broadcast(presence')
      /\ alarm' = IF DOMAIN sockets' = {} /\ DOMAIN Presence!Kept = {} THEN None
                  ELSE now + Presence!AlarmDelay(DOMAIN sockets')
      /\ now' = now /\ heard' = heard /\ asking' = asking
  BY DEF Presence!Alarm
<1>k. /\ DOMAIN presence' \subseteq DOMAIN presence
      /\ \A u \in DOMAIN presence' : presence'[u] = presence[u]
      /\ \A u \in DOMAIN presence : presence[u] > now - Ttl => u \in DOMAIN presence'
  BY <1>a, KeptRows DEF PresenceInv
<1>d. Presence!AlarmDelay(DOMAIN sockets') = IF DOMAIN sockets' = {} THEN Ttl ELSE Beat
  BY DEF Presence!AlarmDelay
<1>1. /\ alarm' \in Nat \union {None} /\ (alarm' # None => now <= alarm')
      /\ (DOMAIN sockets' # {} => alarm' # None /\ alarm' <= now + Beat)
  <2>1. CASE DOMAIN sockets' = {}
    <3>1. alarm' = None \/ alarm' = now + Ttl
      BY <1>a, <1>d, <2>1
    <3> QED
      BY <1>n, <2>1, <3>1, PresenceNumbers
  <2>2. CASE DOMAIN sockets' # {}
    <3>1. alarm' = now + Beat
      BY <1>a, <1>d, <2>2
    <3> QED
      BY <1>n, <3>1, PresenceNumbers
  <2> QED
    BY <2>1, <2>2
<1>2. PresenceTypes' /\ AlarmSet' /\ FramesHeard'
  <2>1. /\ DOMAIN presence' \subseteq Session
        /\ \A s \in DOMAIN presence' :
             presence'[s] \in Nat /\ heard'[s] # None /\ presence'[s] <= heard'[s]
    BY <1>a, <1>k DEF PresenceInv, PresenceTypes, RowsHeard
  <2>2. /\ heard' \in [Session -> Nat \union {None}]
        /\ \A s \in Session : heard'[s] # None => heard'[s] <= now
        /\ \A s \in Session : heard[s] # None => heard'[s] # None /\ heard[s] <= heard'[s]
    BY <1>a, <1>n, PresenceNumbers DEF PresenceInv, PresenceTypes
  <2> QED
    BY <1>a, <1>1, <2>1, <2>2, AfterBroadcast
<1>3. RowsHeard'
  <2>1. ASSUME NEW u \in Session, heard[u] # None, now - heard[u] < Ttl - Skip
        PROVE  u \in DOMAIN presence' /\ presence'[u] >= heard[u] - Skip
    <3>1. /\ u \in DOMAIN presence /\ presence[u] >= heard[u] - Skip
          /\ presence[u] \in Nat /\ heard[u] \in Nat /\ now \in Nat
      BY <2>1 DEF PresenceInv, RowsHeard, PresenceTypes
    <3>2. presence[u] > now - Ttl
      BY <2>1, <3>1, PresenceNumbers
    <3> QED
      BY <1>k, <3>1, <3>2
  <2> QED
    BY <1>a, <1>k, <2>1 DEF PresenceInv, RowsHeard
<1> QED
  BY <1>2, <1>3 DEF PresenceInv

LEMMA EvictStep ==
  ASSUME PresenceInv, Presence!Evict
  PROVE  PresenceInv'
<1>a. /\ lastFrame' = None /\ nextFrame' = 0
      /\ UNCHANGED <<now, presence, heard, alarm, sockets, watchers, asking>>
  BY DEF Presence!Evict
<1>1. PresenceTypes'
  BY <1>a, PresenceNumbers DEF PresenceInv, PresenceTypes
<1>2. RowsHeard'
  BY <1>a DEF PresenceInv, RowsHeard
<1>3. AlarmSet'
  <2>1. ASSUME NEW c \in DOMAIN sockets
        PROVE  0 < sockets[c].expires + Gap
    <3>1. sockets[c] \in Socket /\ sockets[c].expires = sockets[c].opened + ViewLease
      BY <2>1 DEF PresenceInv, PresenceTypes
    <3>2. sockets[c].opened \in Nat
      BY <3>1 DEF Socket
    <3> QED
      BY <3>1, <3>2, PresenceNumbers
  <2> QED
    BY <1>a, <2>1 DEF PresenceInv, AlarmSet
<1>4. FramesHeard'
  <2>1. \A c \in DOMAIN sockets : sockets[c].shown # None
    BY PresenceNumbers DEF PresenceInv, PresenceTypes, Socket
  <2> QED
    BY <1>a, <2>1 DEF FramesHeard
<1> QED
  BY <1>1, <1>2, <1>3, <1>4 DEF PresenceInv

LEMMA PresenceTick ==
  ASSUME PresenceInv, Presence!Tick
  PROVE  PresenceInv'
<1>a. /\ now' = now + 1 /\ (alarm # None => alarm > now)
      /\ UNCHANGED <<presence, heard, alarm, sockets, lastFrame, nextFrame, asking>>
  BY DEF Presence!Tick
<1>n. now \in Nat /\ nextFrame \in Nat /\ alarm \in Nat \union {None}
      /\ heard \in [Session -> Nat \union {None}]
  BY DEF PresenceInv, PresenceTypes
<1>1. PresenceTypes'
  BY <1>a, <1>n, PresenceNumbers DEF PresenceInv, PresenceTypes
<1>2. RowsHeard'
  <2>1. ASSUME NEW u \in Session, heard[u] # None, now + 1 - heard[u] < Ttl - Skip
        PROVE  u \in DOMAIN presence /\ presence[u] >= heard[u] - Skip
    <3>1. now - heard[u] < Ttl - Skip
      BY <1>n, <2>1, PresenceNumbers
    <3> QED
      BY <2>1, <3>1 DEF PresenceInv, RowsHeard
  <2>2. \A s \in DOMAIN presence' : heard'[s] # None /\ presence'[s] <= heard'[s]
    BY <1>a DEF PresenceInv, RowsHeard
  <2>3. \A s \in Session : heard'[s] # None /\ now' - heard'[s] < Ttl - Skip =>
          s \in DOMAIN presence' /\ presence'[s] >= heard'[s] - Skip
    <3>1. ASSUME NEW s \in Session, heard'[s] # None, now' - heard'[s] < Ttl - Skip
          PROVE  s \in DOMAIN presence' /\ presence'[s] >= heard'[s] - Skip
      <4>1. heard' = heard /\ presence' = presence /\ now' = now + 1
        BY <1>a
      <4>2. heard[s] # None /\ now + 1 - heard[s] < Ttl - Skip
        BY <1>n, <3>1, <4>1, PresenceNumbers
      <4>3. s \in DOMAIN presence /\ presence[s] >= heard[s] - Skip
        BY <2>1, <4>2
      <4> QED
        BY <4>1, <4>3
    <3> QED
      BY <3>1
  <2> QED
    BY <2>2, <2>3 DEF RowsHeard
<1>3. AlarmSet'
  BY <1>a, <1>n, PresenceNumbers DEF PresenceInv, AlarmSet
<1>4. FramesHeard'
  BY <1>a DEF PresenceInv, FramesHeard, HeardAfter
<1> QED
  BY <1>1, <1>2, <1>3, <1>4 DEF PresenceInv

LEMMA PresenceStep ==
  ASSUME PresenceInv, Presence!Next
  PROVE  PresenceInv'
BY HeartbeatStep, HeartbeatRefusedStep, SocketSteps, FetchStep, AlarmStep, EvictStep,
   PresenceTick DEF Presence!Next

\* The invariant is enough.
LEMMA PresenceWatched ==
  ASSUME PresenceInv
  PROVE  Watched
<1>n. now \in Nat /\ alarm \in Nat \union {None}
      /\ heard \in [Session -> Nat \union {None}]
      /\ \A s \in Session : heard[s] # None => heard[s] <= now
  BY DEF PresenceInv, PresenceTypes
<1>1. Presence!ShortLived
  <2>1. ASSUME NEW c \in DOMAIN sockets
        PROVE  now < sockets[c].opened + ViewLease + Beat + Gap
    <3>1. sockets[c].expires = sockets[c].opened + ViewLease /\ sockets[c].opened \in Nat
      BY <2>1 DEF PresenceInv, PresenceTypes, Socket
    <3>2. now <= alarm /\ alarm \in Nat /\ alarm < sockets[c].expires + Beat + Gap
      BY <1>n, <2>1 DEF PresenceInv, AlarmSet
    <3> QED
      BY <1>n, <3>1, <3>2, PresenceNumbers
  <2> QED
    BY <2>1 DEF Presence!ShortLived, Presence!Open
<1>2. Presence!Online
  <2>1. ASSUME NEW s \in Session, heard[s] # None, now - heard[s] < Ttl - Skip
        PROVE  s \in DOMAIN presence /\ presence[s] > now - Ttl
    <3>1. /\ s \in DOMAIN presence /\ presence[s] >= heard[s] - Skip
          /\ presence[s] \in Nat /\ heard[s] \in Nat
      BY <1>n, <2>1 DEF PresenceInv, RowsHeard, PresenceTypes
    <3> QED
      BY <1>n, <2>1, <3>1, PresenceNumbers
  <2> QED
    BY <2>1 DEF PresenceInv, RowsHeard, Presence!Online
<1>3. Presence!Current
  <2>1. ASSUME NEW c \in DOMAIN sockets, NEW p \in Scope, sockets[c].shown = lastFrame
        PROVE  lastFrame[p] <= Presence!Cardinality(
                 {s \in Session : /\ ScopeOf[s] = p /\ heard[s] # None
                                  /\ now - heard[s] < Ttl + Beat + Gap})
    <3> DEFINE T == {s \in Session : /\ ScopeOf[s] = p /\ heard[s] # None
                                     /\ now - heard[s] < Ttl + Beat + Gap}
               H == HeardAfter(heard, p, alarm - Beat - Gap - Ttl)
    <3>1. now <= alarm /\ alarm \in Nat /\ lastFrame[p] <= Cardinality(H)
      BY <1>n, <2>1 DEF PresenceInv, AlarmSet, FramesHeard
    <3>2. H \in SUBSET T
      <4>1. ASSUME NEW s \in Session, heard[s] # None, heard[s] > alarm - Beat - Gap - Ttl
            PROVE  now - heard[s] < Ttl + Beat + Gap
        <5>1. heard[s] \in Nat /\ Ttl \in Nat /\ Beat \in Nat /\ Gap \in Nat
          BY <1>n, <4>1, PresenceNumbers
        <5> QED
          BY <1>n, <3>1, <4>1, <5>1
      <4> QED
        BY <4>1 DEF HeardAfter
    <3>3. IsFiniteSet(T)
      BY PresenceNumbers, FS_Subset
    <3>4. /\ Cardinality(H) <= Cardinality(T)
          /\ Cardinality(H) \in Nat /\ Cardinality(T) \in Nat
      BY <3>2, <3>3, FS_Subset, FS_CardinalityType
    <3>5. lastFrame[p] \in Nat
      <4>1. sockets[c].shown \in [Scope -> Nat]
        BY <2>1 DEF PresenceInv, PresenceTypes, Socket
      <4> QED
        BY <2>1, <4>1
    <3>6. lastFrame[p] <= Cardinality(T)
      BY <3>1, <3>4, <3>5
    <3> QED
      BY <3>6, PresenceCounts
  <2> QED
    BY <2>1 DEF Presence!Current, Presence!Open
<1> QED
  BY <1>1, <1>2, <1>3 DEF Watched

\* The state of the presence object is untouched by the other parts.
PresenceQuiet ==
  /\ presence = [s \in {} |-> 0] /\ heard = [s \in Session |-> None]
  /\ sockets = [c \in {} |-> 0]

\* Live presence keeps what it promises for any numbers of sessions, viewers
\* and connections and any intervals.
THEOREM WatchedAlways == StoresSpec => []Watched
<1> DEFINE storesVars ==
      <<part, vars, auditVars, presenceVars, accessVars, setupVars, paymentVars,
        endpointVars, logVars, source>>
<1> DEFINE Inv ==
      (part = "presence" => PresenceInv) /\ (part # "presence" => PresenceQuiet)
<1>1. StoresInit => Inv
  <2>1. ASSUME StoresInit
        PROVE  /\ now = 0 /\ presence = [s \in {} |-> 0]
               /\ heard = [s \in Session |-> None] /\ alarm = None
               /\ sockets = [c \in {} |-> 0] /\ lastFrame = None /\ nextFrame = 0
               /\ asking = {}
    BY <2>1 DEF StoresInit, Presence!Init
  <2>2. ASSUME StoresInit
        PROVE  PresenceTypes
    BY <2>1, <2>2, PresenceNumbers DEF PresenceTypes
  <2>3. ASSUME StoresInit
        PROVE  RowsHeard /\ AlarmSet /\ FramesHeard
    BY <2>1, <2>3, PresenceNumbers DEF RowsHeard, AlarmSet, FramesHeard
  <2> QED
    BY <2>1, <2>2, <2>3 DEF PresenceQuiet, PresenceInv
<1>2. Inv /\ [StoresNext]_storesVars => Inv'
  <2> SUFFICES ASSUME Inv, [StoresNext]_storesVars
               PROVE  Inv'
    OBVIOUS
  <2>1. part' = part
    BY DEF StoresNext
  <2>2. CASE part = "presence"
    <3>1. CASE StoresNext
      <4>1. Presence!Next
        BY <2>2, <3>1 DEF StoresNext
      <4> QED
        BY <2>1, <2>2, <4>1, PresenceStep
    <3>2. CASE UNCHANGED storesVars
      <4>1. UNCHANGED <<now, presence, heard, alarm, sockets, lastFrame, nextFrame, asking>>
        BY <3>2 DEF vars, presenceVars
      <4>2. PresenceTypes' /\ RowsHeard' /\ AlarmSet' /\ FramesHeard'
        BY <2>2, <4>1 DEF PresenceInv, PresenceTypes, RowsHeard, AlarmSet, FramesHeard,
                          HeardAfter
      <4> QED
        BY <2>1, <2>2, <4>2 DEF PresenceInv
    <3> QED
      BY <3>1, <3>2
  <2>3. CASE part # "presence"
    <3>1. UNCHANGED presenceVars
      BY <2>3 DEF StoresNext, Still
    <3> QED
      BY <2>1, <2>3, <3>1 DEF PresenceQuiet, presenceVars
  <2> QED
    BY <2>2, <2>3
<1>3. Inv => Watched
  <2>1. ASSUME PresenceQuiet
        PROVE  Watched
    BY <2>1, PresenceNumbers
      DEF PresenceQuiet, Watched, Presence!ShortLived, Presence!Online, Presence!Current,
          Presence!Open
  <2> QED
    BY <2>1, PresenceWatched
<1> QED
  BY <1>1, <1>2, <1>3, PTL DEF StoresSpec

-----------------------------------------------------------------------------
(* Endpoint measurements.                                                  *)

\* What counts event e of group g of batch b, and its row of a table.
KeyOf(b, g, e) ==
  [env |-> b.groups[g].env, id |-> Endpoints!Receipt(b, e), event |-> e]

RowOf(b, g, e, t) == [env |-> b.groups[g].env, event |-> e, table |-> t]

\* A failure that is kept at time t.
Fresh(e, t) == e \in Failed /\ EndpointStamp[e] >= t - FailureKeep

\* A request is young and its events are near its time; the groups it passed
\* are counted, and of its group what its step says is on record.
TaskOK(t) ==
  /\ t \in Endpoints!Task /\ t.group <= Len(t.batch.groups)
  /\ t.at <= now /\ now <= t.at + Transit
  /\ \A g \in DOMAIN t.batch.groups : \A e \in t.batch.groups[g].events :
       EndpointStamp[e] - t.at \in -EndpointSkew..EndpointSkew
  /\ t.step # "resolve" =>
       \A g \in 1..t.group - 1 : \A e \in t.batch.groups[g].events :
         KeyOf(t.batch, g, e) \in DOMAIN counted
  /\ \A e \in t.batch.groups[t.group].events :
       /\ t.step \in {"failures", "accept"} => RowOf(t.batch, t.group, e, "record") \in observed
       /\ t.step = "accept" /\ Fresh(e, now) => RowOf(t.batch, t.group, e, "failures") \in observed

TasksOK ==
  /\ deliveredBy \in [Attempt -> Endpoints!Task \union {None}]
  /\ \A a \in Attempt, t \in Endpoints!Task : deliveredBy[a] = t => TaskOK(t)

\* What is counted is counted once; its receipt is there until no request can
\* bring it again.
CountedKept ==
  /\ \A k \in DOMAIN counted : counted[k] = 1 /\ k.event \in DOMAIN EndpointStamp
  /\ \A k \in DOMAIN counted :
       \/ \E r \in endpointReceipts :
            r.env = k.env /\ r.id = k.id /\ r.seen >= EndpointStamp[k.event] - EndpointSkew
       \/ now > EndpointStamp[k.event] - EndpointSkew + Keep

\* A receipt says of all events that it stands for that they are counted.
ReceiptsBacked ==
  \A r \in endpointReceipts :
    /\ r.seen \in Nat
    /\ \A b \in EndpointBatch : \A g \in DOMAIN b.groups : \A e \in b.groups[g].events :
         b.groups[g].env = r.env /\ Endpoints!Receipt(b, e) = r.id =>
           KeyOf(b, g, e) \in DOMAIN counted

\* What is counted is in the inventory, and a failure among those that are kept;
\* what was answered is counted.
CountedSeen ==
  \A k \in DOMAIN counted :
    /\ [env |-> k.env, event |-> k.event, table |-> "record"] \in observed
    /\ Fresh(k.event, now) => [env |-> k.env, event |-> k.event, table |-> "failures"] \in observed

AnsweredKept ==
  /\ countedFor \subseteq EndpointBatch
  /\ \A b \in countedFor : \A g \in DOMAIN b.groups : \A e \in b.groups[g].events :
       KeyOf(b, g, e) \in DOMAIN counted

WithinLimit ==
  IsFiniteSet(environments) /\ Cardinality(environments) <= MaxEnvironments

EndpointInv ==
  /\ now \in Nat
  /\ TasksOK /\ CountedKept /\ ReceiptsBacked /\ CountedSeen /\ AnsweredKept /\ WithinLimit
-----------------------------------------------------------------------------
LEMMA EndpointsCount ==
  ASSUME NEW S
  PROVE  /\ Endpoints!Cardinality(S) = Cardinality(S)
         /\ Endpoints!IsFiniteSet(S) <=> IsFiniteSet(S)
  BY DEF Endpoints!Cardinality, Cardinality, Endpoints!IsFiniteSet, IsFiniteSet

\* The numbers and the batches of endpoint measurements.
LEMMA EndpointScale ==
  /\ MaxEnvironments \in Nat /\ EndpointSkew \in Nat /\ Keep \in Nat /\ Transit \in Nat
  /\ FailureKeep \in Nat
  /\ Keep >= 2 * EndpointSkew + Transit
  /\ \A e \in DOMAIN EndpointStamp : EndpointStamp[e] \in Int
  /\ \A b \in EndpointBatch :
       /\ b.groups \in Seq([env : Environment, events : SUBSET DOMAIN EndpointStamp])
       /\ Len(b.groups) \in Nat /\ Len(b.groups) >= 1
       /\ DOMAIN b.groups = 1..Len(b.groups)
       /\ \A g \in DOMAIN b.groups :
            b.groups[g].env \in Environment /\ b.groups[g].events \subseteq DOMAIN EndpointStamp
       /\ b.sdk => Len(b.groups) = 1
  /\ \A b, d \in EndpointBatch : b.sdk /\ d.sdk /\ b.id = d.id => b = d
  /\ None \notin Endpoints!Task
<1>1. Endpoints!IngestScale
  BY StoreScales
<1>2. None \notin Endpoints!Task
  BY <1>1 DEF Endpoints!IngestScale
<1>s. ASSUME NEW S, NEW q \in Seq(S), NEW i \in DOMAIN q
      PROVE  q[i] \in S
  BY <1>s
<1>3. ASSUME NEW b \in EndpointBatch
      PROVE  /\ b.groups \in Seq([env : Environment, events : SUBSET DOMAIN EndpointStamp])
             /\ Len(b.groups) \in Nat /\ Len(b.groups) >= 1
             /\ DOMAIN b.groups = 1..Len(b.groups)
             /\ \A g \in DOMAIN b.groups :
                  /\ b.groups[g].env \in Environment
                  /\ b.groups[g].events \subseteq DOMAIN EndpointStamp
  <2>1. /\ b.groups \in Seq([env : Environment, events : SUBSET DOMAIN EndpointStamp])
        /\ b.groups # <<>>
    BY <1>1 DEF Endpoints!IngestScale
  <2>2. Len(b.groups) \in Nat /\ DOMAIN b.groups = 1..Len(b.groups)
    BY <2>1
  <2>3. Len(b.groups) >= 1
    BY <2>1, <2>2
  <2>4. \A g \in DOMAIN b.groups :
          b.groups[g] \in [env : Environment, events : SUBSET DOMAIN EndpointStamp]
    BY <2>1, <1>s
  <2> QED
    BY <2>1, <2>2, <2>3, <2>4
<1> QED
  BY <1>1, <1>2, <1>3 DEF Endpoints!IngestScale

\* An environment that is there or has room keeps the limit.
LEMMA RoomForOne ==
  ASSUME WithinLimit, NEW x, x \in environments \/ Endpoints!HasRoom,
         environments' = environments \union {x}
  PROVE  WithinLimit'
<1>1. CASE x \in environments
  <2>1. environments' = environments
    BY <1>1
  <2> QED
    BY <2>1 DEF WithinLimit
<1>2. CASE x \notin environments
  <2>1. Cardinality(environments) < MaxEnvironments
    BY <1>2, EndpointsCount DEF Endpoints!HasRoom
  <2>2. /\ IsFiniteSet(environments') /\ Cardinality(environments) \in Nat
        /\ Cardinality(environments') = Cardinality(environments) + 1
    BY <1>2, FS_AddElement, FS_CardinalityType DEF WithinLimit
  <2>3. Cardinality(environments') <= MaxEnvironments
    BY <2>1, <2>2, EndpointScale
  <2> QED
    BY <2>2, <2>3 DEF WithinLimit
<1> QED
  BY <1>1, <1>2

\* A request that is put in place of another, or of none; the rest only grows.
LEMMA TaskPut ==
  ASSUME TasksOK, NEW a \in Attempt, NEW n, now' = now,
         deliveredBy' = [deliveredBy EXCEPT ![a] = n],
         DOMAIN counted \subseteq DOMAIN counted', observed \subseteq observed',
         n = None \/ TaskOK(n)'
  PROVE  TasksOK'
<1>1. n \in Endpoints!Task \union {None}
  BY DEF TaskOK
<1>2. deliveredBy' \in [Attempt -> Endpoints!Task \union {None}]
  BY <1>1 DEF TasksOK
<1>3. ASSUME NEW d \in Attempt, NEW t \in Endpoints!Task, deliveredBy'[d] = t
      PROVE  TaskOK(t)'
  <2>1. CASE d = a
    <3>1. t = n
      BY <1>3, <2>1 DEF TasksOK
    <3> QED
      BY <3>1, EndpointScale
  <2>2. CASE d # a
    <3>1. deliveredBy[d] = t
      BY <1>3, <2>2 DEF TasksOK
    <3>2. TaskOK(t)
      BY <3>1 DEF TasksOK
    <3> QED
      BY <3>2 DEF TaskOK
  <2> QED
    BY <2>1, <2>2
<1> QED
  BY <1>2, <1>3 DEF TasksOK

LEMMA IngestTask ==
  ASSUME EndpointInv, NEW a \in Attempt, NEW b \in EndpointBatch, Endpoints!ingest(a, b)
  PROVE  EndpointInv'
<1>1. PICK n : n = [batch |-> b, at |-> now, group |-> 1, step |-> "resolve"]
  OBVIOUS
<1>2. /\ deliveredBy' = [deliveredBy EXCEPT ![a] = n]
      /\ \A e \in Endpoints!Events(b) : EndpointStamp[e] - now \in -EndpointSkew..EndpointSkew
      /\ UNCHANGED <<now, environments, observed, endpointReceipts, counted, countedFor>>
  BY <1>1 DEF Endpoints!ingest
<1>3. n \in Endpoints!Task /\ n.batch = b /\ n.at = now /\ n.group = 1 /\ n.step = "resolve"
  BY <1>1 DEF EndpointInv, Endpoints!Task
<1>4. TaskOK(n)'
  <2>1. /\ n.at <= now /\ now <= n.at + Transit /\ n.group <= Len(n.batch.groups)
        /\ 1..n.group - 1 = {}
    BY <1>3, EndpointScale DEF EndpointInv
  <2>2. \A g \in DOMAIN b.groups : \A e \in b.groups[g].events :
          EndpointStamp[e] - now \in -EndpointSkew..EndpointSkew
    BY <1>2 DEF Endpoints!Events
  <2> QED
    BY <1>2, <1>3, <2>1, <2>2 DEF TaskOK
<1>5. TasksOK'
  BY <1>2, <1>4, TaskPut DEF EndpointInv
<1>6. CountedKept' /\ ReceiptsBacked' /\ CountedSeen' /\ AnsweredKept' /\ WithinLimit'
  BY <1>2 DEF EndpointInv, CountedKept, ReceiptsBacked, CountedSeen, AnsweredKept, WithinLimit
<1> QED
  BY <1>2, <1>5, <1>6 DEF EndpointInv

LEMMA ResolveTask ==
  ASSUME EndpointInv, NEW a \in Attempt, Endpoints!resolveScope(a)
  PROVE  EndpointInv'
<1>t. PICK t \in Endpoints!Task : t = deliveredBy[a] /\ TaskOK(t)
  BY DEF EndpointInv, TasksOK, Endpoints!resolveScope
<1>f. t.batch \in EndpointBatch /\ t.at \in Nat /\ t.group \in Nat \ {0} /\ t.group <= Len(t.batch.groups)
      /\ t.step = "resolve"
  BY <1>t DEF Endpoints!Task, TaskOK, Endpoints!resolveScope
<1>a. UNCHANGED <<now, observed, endpointReceipts, counted, countedFor>>
  BY DEF Endpoints!resolveScope
<1>b. \/ UNCHANGED environments
      \/ \E x \in Environment : environments' = environments \union {x} /\ (x \in environments \/ Endpoints!HasRoom)
  <2>1. Endpoints!Group(a).env \in Environment
    <3>1. t.batch.groups[t.group].env \in Environment
      BY <1>f, EndpointScale
    <3> QED
      BY <1>t, <3>1 DEF Endpoints!Group
  <2> QED
    BY <2>1 DEF Endpoints!resolveScope
<1>1. TasksOK'
  <2>1. CASE deliveredBy' = [deliveredBy EXCEPT ![a] = None]
    BY <1>a, <2>1, TaskPut DEF EndpointInv
  <2>2. CASE Endpoints!Advance(a, "record") /\ t.group < Len(t.batch.groups)
    <3>1. PICK n : n = [t EXCEPT !.group = @ + 1]
      OBVIOUS
    <3>2. deliveredBy' = [deliveredBy EXCEPT ![a] = n]
      BY <1>t, <2>2, <3>1 DEF Endpoints!Advance
    <3>3. n \in Endpoints!Task /\ n.batch = t.batch /\ n.at = t.at /\ n.group = t.group + 1
          /\ n.step = "resolve"
      BY <1>f, <3>1 DEF Endpoints!Task
    <3>4. n.group <= Len(n.batch.groups)
      BY <1>f, <2>2, <3>3, EndpointScale
    <3>5. TaskOK(n)'
      BY <1>a, <1>t, <3>3, <3>4 DEF TaskOK
    <3> QED
      BY <1>a, <3>2, <3>5, TaskPut DEF EndpointInv
  <2>3. CASE Endpoints!Advance(a, "record") /\ ~(t.group < Len(t.batch.groups))
    <3>1. PICK n : n = [t EXCEPT !.group = 1, !.step = "record"]
      OBVIOUS
    <3>2. deliveredBy' = [deliveredBy EXCEPT ![a] = n]
      BY <1>t, <2>3, <3>1 DEF Endpoints!Advance
    <3>3. n \in Endpoints!Task /\ n.batch = t.batch /\ n.at = t.at /\ n.group = 1 /\ n.step = "record"
      <4>1. n = [batch |-> t.batch, at |-> t.at, group |-> 1, step |-> "record"]
        BY <3>1 DEF Endpoints!Task
      <4> QED
        BY <1>f, <4>1 DEF Endpoints!Task
    <3>4. n.group <= Len(n.batch.groups) /\ 1..n.group - 1 = {}
      BY <1>f, <3>3, EndpointScale
    <3>5. TaskOK(n)'
      BY <1>a, <1>t, <3>3, <3>4 DEF TaskOK
    <3> QED
      BY <1>a, <3>2, <3>5, TaskPut DEF EndpointInv
  <2> QED
    BY <2>1, <2>2, <2>3 DEF Endpoints!resolveScope
<1>2. CountedKept' /\ ReceiptsBacked' /\ CountedSeen' /\ AnsweredKept'
  BY <1>a DEF EndpointInv, CountedKept, ReceiptsBacked, CountedSeen, AnsweredKept
<1>3. WithinLimit'
  <2>1. CASE UNCHANGED environments
    BY <2>1 DEF EndpointInv, WithinLimit
  <2> QED
    BY <1>b, <2>1, RoomForOne DEF EndpointInv
<1> QED
  BY <1>a, <1>1, <1>2, <1>3 DEF EndpointInv

LEMMA CreateEnvironment ==
  ASSUME EndpointInv, NEW x \in Environment, Endpoints!createEnvironmentKey(x)
  PROVE  EndpointInv'
<1>1. /\ environments' = environments \union {x} /\ Endpoints!HasRoom
      /\ UNCHANGED <<now, deliveredBy, observed, endpointReceipts, counted, countedFor>>
  BY DEF Endpoints!createEnvironmentKey
<1>2. TasksOK'
  BY <1>1 DEF EndpointInv, TasksOK, TaskOK
<1>3. CountedKept' /\ ReceiptsBacked' /\ CountedSeen' /\ AnsweredKept'
  BY <1>1 DEF EndpointInv, CountedKept, ReceiptsBacked, CountedSeen, AnsweredKept
<1>4. WithinLimit'
  BY <1>1, RoomForOne DEF EndpointInv
<1> QED
  BY <1>1, <1>2, <1>3, <1>4 DEF EndpointInv

LEMMA RecordMetadata ==
  ASSUME EndpointInv, NEW a \in Attempt, Endpoints!recordEndpointMetadata(a)
  PROVE  EndpointInv'
<1>t. PICK t \in Endpoints!Task : t = deliveredBy[a] /\ TaskOK(t)
  BY DEF EndpointInv, TasksOK, Endpoints!recordEndpointMetadata
<1>f. t.batch \in EndpointBatch /\ t.at \in Nat /\ t.group \in Nat \ {0} /\ t.group <= Len(t.batch.groups)
  BY <1>t DEF Endpoints!Task, TaskOK
<1>a. /\ t.step \in {"record", "failures"}
      /\ UNCHANGED <<now, environments, endpointReceipts, counted, countedFor>>
      /\ \A e \in t.batch.groups[t.group].events : (t.step = "failures" => e \in Failed) =>
           RowOf(t.batch, t.group, e, t.step) \in observed'
      /\ observed \subseteq observed'
  BY <1>t DEF Endpoints!recordEndpointMetadata, Endpoints!Recorded, Endpoints!Group, RowOf
<1>1. PICK n : n = [t EXCEPT !.step = IF t.step = "record" THEN "failures" ELSE "accept"]
  OBVIOUS
<1>2. deliveredBy' = [deliveredBy EXCEPT ![a] = n]
  BY <1>t, <1>1 DEF Endpoints!recordEndpointMetadata
<1>3. /\ n \in Endpoints!Task /\ n.batch = t.batch /\ n.at = t.at /\ n.group = t.group
      /\ n.step = IF t.step = "record" THEN "failures" ELSE "accept"
  BY <1>1 DEF Endpoints!Task
<1>4. TaskOK(n)'
  <2>1. /\ n.group <= Len(n.batch.groups) /\ n.at <= now /\ now <= n.at + Transit
        /\ \A g \in DOMAIN n.batch.groups : \A e \in n.batch.groups[g].events :
             EndpointStamp[e] - n.at \in -EndpointSkew..EndpointSkew
        /\ \A g \in 1..n.group - 1 : \A e \in n.batch.groups[g].events :
             KeyOf(n.batch, g, e) \in DOMAIN counted
    BY <1>a, <1>t, <1>3 DEF TaskOK
  <2>2. \A e \in n.batch.groups[n.group].events :
          /\ RowOf(n.batch, n.group, e, "record") \in observed'
          /\ n.step = "accept" /\ Fresh(e, now) =>
               RowOf(n.batch, n.group, e, "failures") \in observed'
    BY <1>a, <1>t, <1>3 DEF TaskOK, Fresh
  <2> QED
    BY <1>a, <1>3, <2>1, <2>2 DEF TaskOK
<1>5. TasksOK'
  BY <1>a, <1>2, <1>4, TaskPut DEF EndpointInv
<1>6. CountedKept' /\ ReceiptsBacked' /\ CountedSeen' /\ AnsweredKept' /\ WithinLimit'
  BY <1>a DEF EndpointInv, CountedKept, ReceiptsBacked, CountedSeen, AnsweredKept, WithinLimit
<1> QED
  BY <1>a, <1>5, <1>6 DEF EndpointInv

\* The events of the group of t that no receipt names.
Unreceived(t) ==
  {e \in t.batch.groups[t.group].events :
     \A r \in endpointReceipts :
       r.env = t.batch.groups[t.group].env => r.id # Endpoints!Receipt(t.batch, e)}

\* What a transaction adds: what is counted, and the receipts.
NewKeys(t) == {KeyOf(t.batch, t.group, e) : e \in Unreceived(t)}

NewReceipts(t) ==
  {[env |-> t.batch.groups[t.group].env, id |-> Endpoints!Receipt(t.batch, e),
    seen |-> t.at] : e \in Unreceived(t)}

LEMMA AcceptCounts ==
  ASSUME EndpointInv, NEW a \in Attempt, Endpoints!accept(a)
  PROVE  \E t \in Endpoints!Task :
           /\ t = deliveredBy[a] /\ TaskOK(t) /\ t.step = "accept"
           /\ t.batch \in EndpointBatch /\ t.group \in DOMAIN t.batch.groups
           /\ DOMAIN counted' = DOMAIN counted \union NewKeys(t)
           /\ \A k \in DOMAIN counted' :
                counted'[k] = (IF k \in DOMAIN counted THEN counted[k] ELSE 0)
                              + (IF k \in NewKeys(t) THEN 1 ELSE 0)
           /\ endpointReceipts' = endpointReceipts \union NewReceipts(t)
<1>t. PICK t \in Endpoints!Task : t = deliveredBy[a] /\ TaskOK(t)
  BY DEF EndpointInv, TasksOK, Endpoints!accept
<1>f. /\ t.step = "accept" /\ t.batch \in EndpointBatch /\ t.at \in Nat
      /\ t.group \in DOMAIN t.batch.groups
  <2>1. t.step = "accept" /\ t.batch \in EndpointBatch /\ t.at \in Nat
        /\ t.group \in Nat \ {0} /\ t.group <= Len(t.batch.groups)
    BY <1>t DEF Endpoints!Task, TaskOK, Endpoints!accept
  <2> QED
    BY <2>1, EndpointScale
<1> DEFINE K == NewKeys(t)
<1>1. Endpoints!Unseen(a) = Unreceived(t)
  BY <1>t DEF Endpoints!Unseen, Endpoints!Group, Unreceived
<1>2. /\ counted' = Endpoints!(+)(counted, Endpoints!SetToBag(K))
      /\ endpointReceipts' = endpointReceipts \union NewReceipts(t)
  BY <1>t, <1>1 DEF Endpoints!accept, Endpoints!Group, KeyOf, NewKeys, NewReceipts
<1> HIDE DEF K
<1>3. /\ DOMAIN counted' = DOMAIN counted \union K
      /\ \A k \in DOMAIN counted' :
           counted'[k] = (IF k \in DOMAIN counted THEN counted[k] ELSE 0)
                         + (IF k \in K THEN 1 ELSE 0)
  BY <1>2 DEF Endpoints!(+), Endpoints!SetToBag
<1> QED
  BY <1>t, <1>f, <1>2, <1>3 DEF K

LEMMA AcceptTask ==
  ASSUME EndpointInv, NEW a \in Attempt, Endpoints!accept(a)
  PROVE  EndpointInv'
<1>s. PICK t \in Endpoints!Task :
           /\ t = deliveredBy[a] /\ TaskOK(t) /\ t.step = "accept"
           /\ t.batch \in EndpointBatch /\ t.group \in DOMAIN t.batch.groups
           /\ DOMAIN counted' = DOMAIN counted \union NewKeys(t)
           /\ \A k \in DOMAIN counted' :
                counted'[k] = (IF k \in DOMAIN counted THEN counted[k] ELSE 0)
                              + (IF k \in NewKeys(t) THEN 1 ELSE 0)
           /\ endpointReceipts' = endpointReceipts \union NewReceipts(t)
  BY AcceptCounts
<1> DEFINE b == t.batch
           E == t.batch.groups[t.group].env
           evs == t.batch.groups[t.group].events
<1>t. /\ t = deliveredBy[a] /\ TaskOK(t) /\ t.step = "accept"
      /\ t.batch \in EndpointBatch /\ t.group \in DOMAIN t.batch.groups
  BY <1>s
<1>f. PICK fresh : fresh = Unreceived(t)
  OBVIOUS
<1>K. PICK K : K = NewKeys(t)
  OBVIOUS
<1>e. /\ fresh \subseteq evs
      /\ \A e \in evs : e \in fresh <=>
           \A r \in endpointReceipts : r.env = E => r.id # Endpoints!Receipt(b, e)
  BY <1>f DEF Unreceived
<1>y. /\ \A e \in fresh : KeyOf(b, t.group, e) \in K
      /\ \A k \in K : \E e \in fresh : k = KeyOf(b, t.group, e)
  BY <1>f, <1>K DEF NewKeys
<1>q. /\ \A r \in endpointReceipts : r \in endpointReceipts'
      /\ \A e \in fresh :
           [env |-> E, id |-> Endpoints!Receipt(b, e), seen |-> t.at] \in endpointReceipts'
      /\ \A r \in endpointReceipts' : r \notin endpointReceipts =>
           \E e \in fresh : r = [env |-> E, id |-> Endpoints!Receipt(b, e), seen |-> t.at]
  BY <1>s, <1>f DEF NewReceipts
<1>d. DOMAIN counted' = DOMAIN counted \union K
  BY <1>s, <1>K
<1>a. UNCHANGED <<now, environments, observed>>
  BY DEF Endpoints!accept
<1>n. /\ now \in Nat /\ t.at \in Nat /\ t.at <= now /\ now <= t.at + Transit
      /\ evs \subseteq DOMAIN EndpointStamp /\ fresh \subseteq evs
      /\ \A e \in evs : EndpointStamp[e] \in Int
                        /\ EndpointStamp[e] - t.at \in -EndpointSkew..EndpointSkew
  BY <1>t, <1>e, EndpointScale DEF EndpointInv, TaskOK, Endpoints!Task
<1>g. /\ t.group \in Nat \ {0} /\ Len(b.groups) \in Nat /\ t.group <= Len(b.groups)
      /\ DOMAIN b.groups = 1..Len(b.groups) /\ (b.sdk => Len(b.groups) = 1)
      /\ b \in EndpointBatch
  <2>1. b \in EndpointBatch /\ t.group \in DOMAIN b.groups
    BY <1>t
  <2>2. Len(b.groups) \in Nat /\ DOMAIN b.groups = 1..Len(b.groups)
        /\ (b.sdk => Len(b.groups) = 1)
    BY <2>1, EndpointScale
  <2> QED
    BY <2>1, <2>2
<1>r. \A k \in DOMAIN counted' :
        counted'[k] = (IF k \in DOMAIN counted THEN counted[k] ELSE 0)
                      + (IF k \in K THEN 1 ELSE 0)
  BY <1>s, <1>K
<1>u. \A e \in fresh, r \in endpointReceipts : ~(r.env = E /\ r.id = Endpoints!Receipt(b, e))
  BY <1>e
<1>k. ASSUME NEW e \in fresh
      PROVE  KeyOf(b, t.group, e) \notin DOMAIN counted
  <2> SUFFICES ASSUME KeyOf(b, t.group, e) \in DOMAIN counted
               PROVE  FALSE
    OBVIOUS
  <2>1. PICK k \in DOMAIN counted : k = KeyOf(b, t.group, e)
    OBVIOUS
  <2>2. k.env = E /\ k.id = Endpoints!Receipt(b, e) /\ k.event = e
    BY <2>1 DEF KeyOf
  <2>3. now > EndpointStamp[e] - EndpointSkew + Keep
    BY <1>u, <2>2 DEF EndpointInv, CountedKept
  <2>4. PICK s : s = EndpointStamp[e]
    OBVIOUS
  <2>5. s \in Int /\ s - t.at \in -EndpointSkew..EndpointSkew
    BY <1>n, <2>4
  <2>6. now > s - EndpointSkew + Keep
    BY <2>3, <2>4
  <2> HIDE <2>4
  <2> QED
    BY <1>n, <2>5, <2>6, EndpointScale
<1>1. /\ DOMAIN counted' = DOMAIN counted \union K
      /\ \A k \in DOMAIN counted' : counted'[k] = 1
  <2>1. ASSUME NEW k \in DOMAIN counted'
        PROVE  counted'[k] = 1
    <3>1. CASE k \in DOMAIN counted
      <4>1. k \notin K /\ counted[k] = 1
        BY <1>k, <1>y, <3>1 DEF EndpointInv, CountedKept
      <4> QED
        BY <1>r, <3>1, <4>1
    <3>2. CASE k \notin DOMAIN counted
      <4>1. k \in K
        BY <1>d, <3>2
      <4>2. counted'[k] = 0 + 1
        BY <1>r, <3>2, <4>1
      <4> QED
        BY <4>2
    <3> QED
      BY <3>1, <3>2
  <2> QED
    BY <1>d, <2>1
<1>c. \A e \in evs : KeyOf(b, t.group, e) \in DOMAIN counted'
  <2>1. ASSUME NEW e \in evs, e \notin fresh
        PROVE  KeyOf(b, t.group, e) \in DOMAIN counted
    <3>1. PICK r \in endpointReceipts : r.env = E /\ r.id = Endpoints!Receipt(b, e)
      BY <1>e, <2>1
    <3> QED
      BY <1>t, <2>1, <3>1 DEF EndpointInv, ReceiptsBacked
  <2> QED
    BY <1>1, <1>y, <2>1
<1>2. CountedKept'
  <2>1. ASSUME NEW k \in DOMAIN counted'
        PROVE  /\ k.event \in DOMAIN EndpointStamp
               /\ \/ \E r \in endpointReceipts' :
                       /\ r.env = k.env /\ r.id = k.id
                       /\ r.seen >= EndpointStamp[k.event] - EndpointSkew
                  \/ now > EndpointStamp[k.event] - EndpointSkew + Keep
    <3>1. CASE k \in DOMAIN counted
      BY <1>q, <3>1 DEF EndpointInv, CountedKept
    <3>2. CASE k \in K
      <4>1. PICK e \in fresh : k = KeyOf(b, t.group, e)
        BY <1>y, <3>2
      <4>2. k.env = E /\ k.id = Endpoints!Receipt(b, e) /\ k.event = e
        BY <4>1 DEF KeyOf
      <4>3. PICK r : r = [env |-> E, id |-> Endpoints!Receipt(b, e), seen |-> t.at]
        OBVIOUS
      <4>4. r \in endpointReceipts' /\ r.env = E /\ r.id = Endpoints!Receipt(b, e)
            /\ r.seen = t.at
        BY <1>q, <4>3
      <4>5. t.at >= EndpointStamp[e] - EndpointSkew
        BY <1>n, EndpointScale
      <4> QED
        BY <1>n, <4>2, <4>4, <4>5
    <3> QED
      BY <1>1, <3>1, <3>2
  <2> QED
    BY <1>1, <1>a, <2>1 DEF CountedKept
<1>3. ReceiptsBacked'
  <2>1. ASSUME NEW r \in endpointReceipts', NEW d \in EndpointBatch, NEW g \in DOMAIN d.groups,
               NEW e \in d.groups[g].events, d.groups[g].env = r.env,
               Endpoints!Receipt(d, e) = r.id
        PROVE  KeyOf(d, g, e) \in DOMAIN counted'
    <3>1. CASE r \in endpointReceipts
      BY <1>1, <2>1, <3>1 DEF EndpointInv, ReceiptsBacked
    <3>2. CASE r \notin endpointReceipts
      <4>1. PICK x \in fresh : r = [env |-> E, id |-> Endpoints!Receipt(b, x), seen |-> t.at]
        BY <1>q, <3>2
      <4>2. Endpoints!Receipt(d, e) = Endpoints!Receipt(b, x) /\ d.groups[g].env = E
        BY <2>1, <4>1
      <4>3. CASE d.sdk
        <5>1. b.sdk /\ d.id = b.id
          BY <4>2, <4>3 DEF Endpoints!Receipt
        <5>2. d = b
          BY <1>t, <4>3, <5>1, EndpointScale
        <5>3. g = t.group
          <6>1. Len(b.groups) = 1
            BY <1>g, <5>1
          <6>2. t.group = 1 /\ DOMAIN b.groups = 1..1
            BY <1>g, <6>1
          <6>3. g \in DOMAIN b.groups
            BY <5>2
          <6> QED
            BY <6>2, <6>3
        <5> QED
          BY <1>c, <5>2, <5>3
      <4>4. CASE ~d.sdk
        <5>1. ~b.sdk /\ e = x
          BY <4>2, <4>4 DEF Endpoints!Receipt
        <5>2. KeyOf(d, g, e) = KeyOf(b, t.group, x)
          BY <4>2, <5>1 DEF KeyOf
        <5> QED
          BY <1>1, <1>y, <5>2
      <4> QED
        BY <4>3, <4>4
    <3> QED
      BY <3>1, <3>2
  <2>2. \A r \in endpointReceipts' : r.seen \in Nat
    <3>1. ASSUME NEW r \in endpointReceipts', r \notin endpointReceipts
          PROVE  r.seen = t.at
      <4>1. PICK x \in fresh : r = [env |-> E, id |-> Endpoints!Receipt(b, x), seen |-> t.at]
        BY <1>q, <3>1
      <4> QED
        BY <4>1
    <3> QED
      BY <1>n, <3>1 DEF EndpointInv, ReceiptsBacked
  <2> QED
    BY <2>1, <2>2 DEF ReceiptsBacked
<1>4. CountedSeen'
  <2>1. ASSUME NEW e \in fresh
        PROVE  /\ RowOf(b, t.group, e, "record") \in observed
               /\ Fresh(e, now) => RowOf(b, t.group, e, "failures") \in observed
    BY <1>t, <1>n DEF TaskOK
  <2>2. ASSUME NEW k \in K
        PROVE  /\ [env |-> k.env, event |-> k.event, table |-> "record"] \in observed
               /\ Fresh(k.event, now) =>
                    [env |-> k.env, event |-> k.event, table |-> "failures"] \in observed
    <3>1. PICK e \in fresh : k = KeyOf(b, t.group, e)
      BY <1>y
    <3>2. k.env = b.groups[t.group].env /\ k.event = e
      BY <3>1 DEF KeyOf
    <3> QED
      BY <2>1, <3>2 DEF RowOf
  <2> QED
    BY <1>1, <1>a, <2>2 DEF EndpointInv, CountedSeen
<1>5. AnsweredKept' /\ TasksOK'
  <2>1. CASE t.group < Len(b.groups)
    <3>1. PICK n : n = [t EXCEPT !.group = t.group + 1, !.step = "record"]
      OBVIOUS
    <3>2. deliveredBy' = [deliveredBy EXCEPT ![a] = n] /\ UNCHANGED countedFor
      BY <1>t, <2>1, <3>1 DEF Endpoints!accept
    <3>3. /\ n \in Endpoints!Task /\ n.batch = b /\ n.at = t.at /\ n.group = t.group + 1
          /\ n.step = "record"
      <4>1. n = [batch |-> t.batch, at |-> t.at, group |-> t.group + 1, step |-> "record"]
        BY <3>1 DEF Endpoints!Task
      <4> QED
        BY <1>g, <1>n, <4>1 DEF Endpoints!Task
    <3>4. n.group <= Len(n.batch.groups) /\ t.group \in Nat \ {0}
      BY <1>g, <2>1, <3>3
    <3>5. \A g \in 1..n.group - 1 : \A e \in b.groups[g].events :
            KeyOf(b, g, e) \in DOMAIN counted'
      <4>1. \A g \in 1..t.group - 1 : \A e \in b.groups[g].events :
              KeyOf(b, g, e) \in DOMAIN counted
        BY <1>t DEF TaskOK
      <4>2. \A g \in 1..n.group - 1 : g \in 1..t.group - 1 \/ g = t.group
        BY <3>3, <3>4
      <4> QED
        BY <1>1, <1>c, <4>1, <4>2
    <3>6. TaskOK(n)'
      BY <1>t, <1>a, <1>n, <3>3, <3>4, <3>5 DEF TaskOK
    <3>7. TasksOK'
      BY <1>1, <1>a, <3>2, <3>6, TaskPut DEF EndpointInv
    <3> QED
      BY <1>1, <3>2, <3>7 DEF EndpointInv, AnsweredKept
  <2>2. CASE ~(t.group < Len(b.groups))
    <3>1. deliveredBy' = [deliveredBy EXCEPT ![a] = None] /\ countedFor' = countedFor \union {b}
      BY <1>t, <2>2 DEF Endpoints!accept
    <3>2. TasksOK'
      BY <1>1, <1>a, <3>1, TaskPut DEF EndpointInv
    <3>3. \A g \in DOMAIN b.groups : \A e \in b.groups[g].events :
            KeyOf(b, g, e) \in DOMAIN counted'
      <4>1. \A g \in 1..t.group - 1 : \A e \in b.groups[g].events :
              KeyOf(b, g, e) \in DOMAIN counted
        BY <1>t DEF TaskOK
      <4>2. \A g \in DOMAIN b.groups : g \in 1..t.group - 1 \/ g = t.group
        BY <1>g, <2>2
      <4> QED
        BY <1>1, <1>c, <4>1, <4>2
    <3> QED
      BY <1>t, <1>1, <3>1, <3>2, <3>3 DEF EndpointInv, AnsweredKept
  <2> QED
    BY <2>1, <2>2
<1>6. WithinLimit' /\ now' \in Nat
  BY <1>a, <1>n DEF EndpointInv, WithinLimit
<1> QED
  BY <1>2, <1>3, <1>4, <1>5, <1>6 DEF EndpointInv

LEMMA EndpointQuiet ==
  ASSUME EndpointInv, now' = now,
         UNCHANGED <<environments, observed, counted, countedFor>>,
         \/ UNCHANGED endpointReceipts
            /\ \E a \in Attempt : deliveredBy' = [deliveredBy EXCEPT ![a] = None]
         \/ UNCHANGED deliveredBy /\ Endpoints!cleanupReceipts
  PROVE  EndpointInv'
<1>1. TasksOK'
  <2>1. CASE \E a \in Attempt : deliveredBy' = [deliveredBy EXCEPT ![a] = None]
    BY <2>1, TaskPut DEF EndpointInv
  <2>2. CASE UNCHANGED deliveredBy
    BY <2>2 DEF EndpointInv, TasksOK, TaskOK
  <2> QED
    BY <2>1, <2>2
<1>2. CountedKept' /\ ReceiptsBacked'
  <2>1. CASE UNCHANGED endpointReceipts
    BY <2>1 DEF EndpointInv, CountedKept, ReceiptsBacked
  <2>2. CASE Endpoints!cleanupReceipts
    <3>1. PICK x \in endpointReceipts : x.seen < now - Keep /\ endpointReceipts' = endpointReceipts \ {x}
      BY <2>2 DEF Endpoints!cleanupReceipts, Endpoints!Expired
    <3>2. ASSUME NEW k \in DOMAIN counted
          PROVE  \/ \E r \in endpointReceipts' :
                      /\ r.env = k.env /\ r.id = k.id
                      /\ r.seen >= EndpointStamp[k.event] - EndpointSkew
                 \/ now > EndpointStamp[k.event] - EndpointSkew + Keep
      <4>1. CASE \E r \in endpointReceipts \ {x} :
                   /\ r.env = k.env /\ r.id = k.id
                   /\ r.seen >= EndpointStamp[k.event] - EndpointSkew
        BY <3>1, <4>1
      <4>2. CASE x.seen >= EndpointStamp[k.event] - EndpointSkew
        <5>1. PICK s : s = EndpointStamp[k.event]
          OBVIOUS
        <5>2. s \in Int /\ now \in Nat /\ x.seen \in Nat /\ EndpointSkew \in Nat /\ Keep \in Nat
          BY <5>1, EndpointScale DEF EndpointInv, CountedKept, ReceiptsBacked
        <5>3. x.seen >= s - EndpointSkew /\ x.seen < now - Keep
          BY <3>1, <4>2, <5>1
        <5>4. now > s - EndpointSkew + Keep
          BY <5>2, <5>3
        <5> QED
          BY <5>1, <5>4
      <4> QED
        BY <4>1, <4>2 DEF EndpointInv, CountedKept
    <3> QED
      BY <3>1, <3>2 DEF EndpointInv, CountedKept, ReceiptsBacked
  <2> QED
    BY <2>1, <2>2
<1>3. CountedSeen' /\ AnsweredKept' /\ WithinLimit' /\ now' \in Nat
  BY DEF EndpointInv, CountedSeen, AnsweredKept, WithinLimit
<1> QED
  BY <1>1, <1>2, <1>3 DEF EndpointInv

LEMMA EndpointTick ==
  ASSUME EndpointInv, Endpoints!Tick
  PROVE  EndpointInv'
<1>1. /\ now' = now + 1 /\ now \in Nat
      /\ \A a \in Attempt : deliveredBy[a] # None => now < deliveredBy[a].at + Transit
      /\ UNCHANGED <<environments, deliveredBy, observed, endpointReceipts, counted, countedFor>>
  BY DEF Endpoints!Tick, EndpointInv
<1>f. ASSUME NEW e \in DOMAIN EndpointStamp, Fresh(e, now + 1)
      PROVE  Fresh(e, now)
  <2>1. EndpointStamp[e] \in Int /\ FailureKeep \in Nat
    BY EndpointScale
  <2> QED
    BY <1>1, <1>f, <2>1 DEF Fresh
<1>2. TasksOK'
  <2>1. ASSUME NEW a \in Attempt, NEW t \in Endpoints!Task, deliveredBy[a] = t
        PROVE  TaskOK(t)'
    <3>1. TaskOK(t) /\ now < t.at + Transit /\ t.at \in Nat
      BY <1>1, <2>1, EndpointScale DEF EndpointInv, TasksOK, Endpoints!Task
    <3>2. t.at <= now + 1 /\ now + 1 <= t.at + Transit
      BY <1>1, <3>1, EndpointScale DEF TaskOK
    <3>3. \A e \in t.batch.groups[t.group].events : Fresh(e, now + 1) => Fresh(e, now)
      <4>1. t.batch \in EndpointBatch /\ t.group \in DOMAIN t.batch.groups
        BY <3>1, EndpointScale DEF TaskOK, Endpoints!Task
      <4> QED
        BY <1>f, <4>1, EndpointScale
    <3> QED
      BY <1>1, <3>1, <3>2, <3>3 DEF TaskOK
  <2> QED
    BY <1>1, <2>1 DEF EndpointInv, TasksOK
<1>3. CountedKept'
  <2>1. ASSUME NEW k \in DOMAIN counted, now > EndpointStamp[k.event] - EndpointSkew + Keep
        PROVE  now + 1 > EndpointStamp[k.event] - EndpointSkew + Keep
    <3>1. EndpointStamp[k.event] \in Int
      BY EndpointScale DEF EndpointInv, CountedKept
    <3> QED
      BY <1>1, <2>1, <3>1, EndpointScale
  <2> QED
    BY <1>1, <2>1 DEF EndpointInv, CountedKept
<1>4. ReceiptsBacked' /\ AnsweredKept' /\ WithinLimit'
  BY <1>1 DEF EndpointInv, ReceiptsBacked, AnsweredKept, WithinLimit
<1>5. CountedSeen'
  <2>1. \A k \in DOMAIN counted : k.event \in DOMAIN EndpointStamp
    BY DEF EndpointInv, CountedKept
  <2> QED
    BY <1>1, <1>f, <2>1 DEF EndpointInv, CountedSeen
<1> QED
  BY <1>1, <1>2, <1>3, <1>4, <1>5 DEF EndpointInv

\* A failure that is deleted is one that nobody needs to find any more.
LEMMA FailuresForgotten ==
  ASSUME EndpointInv, Endpoints!cleanupFailures
  PROVE  EndpointInv'
<1>1. PICK x \in observed :
        /\ x.table = "failures" /\ EndpointStamp[x.event] < now - FailureKeep
        /\ observed' = observed \ {x}
  BY DEF Endpoints!cleanupFailures, Endpoints!FailureExpired
<1>2. /\ now' = now
      /\ UNCHANGED <<environments, deliveredBy, endpointReceipts, counted, countedFor>>
  BY DEF Endpoints!cleanupFailures
<1>3. ASSUME NEW r \in observed, r.table = "record"
      PROVE  r \in observed'
  BY <1>1, <1>3
<1>4. ASSUME NEW r \in observed, r.event \in DOMAIN EndpointStamp, Fresh(r.event, now)
      PROVE  r \in observed'
  <2>1. EndpointStamp[r.event] \in Int /\ FailureKeep \in Nat /\ now \in Nat
    BY <1>4, EndpointScale DEF EndpointInv
  <2>2. r # x
    BY <1>1, <1>4, <2>1 DEF Fresh
  <2> QED
    BY <1>1, <2>2
<1>5. TasksOK'
  <2>1. ASSUME NEW a \in Attempt, NEW t \in Endpoints!Task, deliveredBy[a] = t
        PROVE  TaskOK(t)'
    <3>1. TaskOK(t)
      BY <2>1 DEF EndpointInv, TasksOK
    <3>2. t.batch.groups[t.group].events \subseteq DOMAIN EndpointStamp
      <4>1. t.batch \in EndpointBatch /\ t.group \in DOMAIN t.batch.groups
        BY <3>1, EndpointScale DEF TaskOK, Endpoints!Task
      <4> QED
        BY <4>1, EndpointScale
    <3>3. ASSUME NEW e \in t.batch.groups[t.group].events
          PROVE  /\ t.step \in {"failures", "accept"} =>
                      RowOf(t.batch, t.group, e, "record") \in observed'
                 /\ t.step = "accept" /\ Fresh(e, now) =>
                      RowOf(t.batch, t.group, e, "failures") \in observed'
      <4>1. RowOf(t.batch, t.group, e, "record").table = "record"
        BY DEF RowOf
      <4>2. RowOf(t.batch, t.group, e, "failures").event = e
        BY DEF RowOf
      <4> QED
        BY <1>3, <1>4, <3>1, <3>2, <4>1, <4>2 DEF TaskOK
    <3> QED
      BY <1>2, <3>1, <3>3 DEF TaskOK
  <2> QED
    BY <1>2, <2>1 DEF EndpointInv, TasksOK
<1>6. CountedSeen'
  <2>1. ASSUME NEW k \in DOMAIN counted
        PROVE  /\ [env |-> k.env, event |-> k.event, table |-> "record"] \in observed'
               /\ Fresh(k.event, now) =>
                    [env |-> k.env, event |-> k.event, table |-> "failures"] \in observed'
    BY <1>3, <1>4 DEF EndpointInv, CountedSeen, CountedKept
  <2> QED
    BY <1>2, <2>1 DEF CountedSeen
<1>7. CountedKept' /\ ReceiptsBacked' /\ AnsweredKept' /\ WithinLimit' /\ now' \in Nat
  BY <1>2 DEF EndpointInv, CountedKept, ReceiptsBacked, AnsweredKept, WithinLimit
<1> QED
  BY <1>5, <1>6, <1>7 DEF EndpointInv

LEMMA EndpointStep ==
  ASSUME EndpointInv, Endpoints!Next
  PROVE  EndpointInv'
<1>1. ASSUME NEW a \in Attempt, Endpoints!Fails(a)
      PROVE  EndpointInv'
  BY <1>1, EndpointQuiet DEF Endpoints!Fails
<1>2. ASSUME Endpoints!cleanupReceipts
      PROVE  EndpointInv'
  BY <1>2, EndpointQuiet DEF Endpoints!cleanupReceipts
<1> QED
  BY <1>1, <1>2, IngestTask, ResolveTask, CreateEnvironment, RecordMetadata, AcceptTask,
     EndpointTick, FailuresForgotten DEF Endpoints!Next

LEMMA EndpointsBegin ==
  ASSUME Endpoints!Init
  PROVE  EndpointInv
<1>1. /\ now = 0 /\ environments = {} /\ deliveredBy = [a \in Attempt |-> None]
      /\ endpointReceipts = {} /\ countedFor = {} /\ DOMAIN counted = {}
  BY DEF Endpoints!Init, Endpoints!EmptyBag, Endpoints!SetToBag
<1>2. TasksOK
  BY <1>1, EndpointScale DEF TasksOK
<1>3. WithinLimit
  BY <1>1, FS_EmptySet, EndpointScale DEF WithinLimit
<1>4. CountedKept /\ ReceiptsBacked /\ CountedSeen /\ AnsweredKept
  BY <1>1 DEF CountedKept, ReceiptsBacked, CountedSeen, AnsweredKept
<1> QED
  BY <1>1, <1>2, <1>3, <1>4 DEF EndpointInv

EndpointsIngested ==
  Endpoints!NeverTwice /\ Endpoints!AnsweredCounted /\ Endpoints!EnvironmentsBounded

LEMMA EndpointInvEnough ==
  ASSUME EndpointInv
  PROVE  EndpointsIngested
<1>1. Endpoints!NeverTwice
  BY DEF EndpointInv, CountedKept, Endpoints!NeverTwice, Endpoints!BagToSet
<1>2. Endpoints!AnsweredCounted
  BY DEF EndpointInv, CountedSeen, AnsweredKept, KeyOf, Fresh, Endpoints!AnsweredCounted,
         Endpoints!BagIn, Endpoints!BagToSet
<1>3. Endpoints!EnvironmentsBounded
  BY EndpointsCount DEF EndpointInv, WithinLimit, Endpoints!EnvironmentsBounded
<1> QED
  BY <1>1, <1>2, <1>3 DEF EndpointsIngested

-----------------------------------------------------------------------------
(* Application logs.                                                       *)

\* The request that holds the claim of batch b since s.
HeldBy(a, b, s) ==
  /\ loggedBy[a] # None /\ loggedBy[a].step \in {"store", "respond", "forget"}
  /\ loggedBy[a].batch = b /\ loggedBy[a].at = s

HeldAtAll(b) == \E a \in Attempt, s \in Nat : HeldBy(a, b, s)

\* Nothing is lost that is retried.
SafeBatch(b) == Logs!Retained(b) \/ b \in broken \/ HeldAtAll(b)

LogTasks ==
  /\ now \in Nat
  /\ loggedBy \in [Attempt -> Logs!Task \union {None}]
  /\ answers \in [LogBatch -> SUBSET {"accepted", "duplicate"}]
  /\ \A a \in Attempt, t \in Logs!Task : loggedBy[a] = t =>
       /\ t.at <= now /\ now <= t.at + Transit
       /\ t.step = "respond" => Logs!Retained(t.batch)

\* One claim for an identity, and of its holder if there is one.
ClaimsHeld ==
  /\ \A c \in seenBatches : c.seen \in Nat /\ c = [id |-> c.id, seen |-> c.seen]
  /\ \A c, d \in seenBatches : c.id = d.id => c = d
  /\ \A a \in Attempt, b \in LogBatch, s \in Nat :
       HeldBy(a, b, s) => [id |-> b.id, seen |-> s] \in seenBatches
  /\ \A a, d \in Attempt, b \in LogBatch, s, u \in Nat :
       HeldBy(a, b, s) /\ HeldBy(d, b, u) => a = d

BatchesSafe ==
  /\ \A c \in seenBatches, b \in LogBatch : b.id = c.id => SafeBatch(b)
  /\ \A b \in LogBatch :
       /\ "accepted" \in answers[b] => Logs!Retained(b)
       /\ "duplicate" \in answers[b] => SafeBatch(b)

\* The claim of an alert is there and nobody holds it, or has expired, and who
\* holds the identity since then is late.
AlertsLast ==
  /\ \A x \in alerts :
       /\ x.batch \in LogBatch /\ x.at \in Nat
       /\ \/ [id |-> x.batch.id, seen |-> x.at] \in seenBatches /\ ~HeldAtAll(x.batch)
          \/ /\ now > x.at + ClaimKeep
             /\ \A a \in Attempt, s \in Nat :
                  HeldBy(a, x.batch, s) => s > x.at + ClaimKeep - Transit
  /\ \A x, y \in alerts :
       x.batch = y.batch /\ x.at < y.at => y.at > x.at + ClaimKeep - Transit

RowsOnce == \A q, r \in logRows : q.log = r.log => q = r

\* What browsers stored in window w, and what they may still store.
RowsOf(w) == {r \in logRows : r.browser /\ r.window = w}

Reserves(t, w) ==
  /\ t # None /\ t.step \in {"claim", "store"} /\ t.batch.browser
  /\ Logs!WindowOf(t.at) = w

Reserved(w) ==
  {p \in Attempt \X DOMAIN LogStamp :
     Reserves(loggedBy[p[1]], w) /\ p[2] \in loggedBy[p[1]].batch.logs}

QuotaKept ==
  \A w \in DOMAIN quota :
    /\ quota[w] \in Nat /\ IsFiniteSet(RowsOf(w)) /\ IsFiniteSet(Reserved(w))
    /\ Cardinality(RowsOf(w)) + Cardinality(Reserved(w)) <= quota[w]
    /\ Cardinality(RowsOf(w)) + Cardinality(Reserved(w)) <= Quota

LogInv == LogTasks /\ ClaimsHeld /\ BatchesSafe /\ AlertsLast /\ RowsOnce /\ QuotaKept
-----------------------------------------------------------------------------
LEMMA LogsCount ==
  ASSUME NEW S
  PROVE  /\ Logs!Cardinality(S) = Cardinality(S)
         /\ Logs!IsFiniteSet(S) <=> IsFiniteSet(S)
  BY DEF Logs!Cardinality, Cardinality, Logs!IsFiniteSet, IsFiniteSet

LEMMA LogNumbers ==
  /\ Quota \in Nat /\ LogRetention \in Nat /\ ClaimKeep \in Nat /\ Transit \in Nat
  /\ Transit <= ClaimKeep
  /\ \A l \in DOMAIN LogStamp : LogStamp[l] \in Int
  /\ \A b \in LogBatch :
       /\ b.logs \subseteq DOMAIN LogStamp /\ b.stored \subseteq b.logs
       /\ IsFiniteSet(b.logs) /\ Cardinality(b.logs) \in Nat
  /\ \A b, d \in LogBatch : b.id = d.id => b = d
  /\ IsFiniteSet(Attempt) /\ None \notin Logs!Task
BY StoreScales, LogsCount, FS_CardinalityType DEF Logs!LogScale

\* The tasks after attempt a goes on with n.
LEMMA LogPut ==
  ASSUME LogTasks, NEW a \in Attempt, NEW n \in Logs!Task \union {None},
         loggedBy' = [loggedBy EXCEPT ![a] = n]
  PROVE  /\ loggedBy' \in [Attempt -> Logs!Task \union {None}]
         /\ loggedBy'[a] = n
         /\ \A d \in Attempt : d # a => loggedBy'[d] = loggedBy[d]
BY DEF LogTasks

LEMMA LogTasksKept ==
  ASSUME LogTasks, NEW a \in Attempt, NEW n \in Logs!Task \union {None},
         loggedBy' = [loggedBy EXCEPT ![a] = n], now' = now,
         answers' \in [LogBatch -> SUBSET {"accepted", "duplicate"}],
         n # None => /\ n.at <= now /\ now <= n.at + Transit
                     /\ n.step = "respond" => Logs!Retained(n.batch)',
         \A b \in LogBatch : Logs!Retained(b) => Logs!Retained(b)'
  PROVE  LogTasks'
<1>1. ASSUME NEW d \in Attempt, NEW t \in Logs!Task, loggedBy'[d] = t
      PROVE  /\ t.at <= now /\ now <= t.at + Transit
             /\ t.step = "respond" => Logs!Retained(t.batch)'
  <2>1. CASE d = a
    BY <1>1, <2>1, LogPut, LogNumbers
  <2>2. CASE d # a
    <3>1. loggedBy[d] = t /\ t.batch \in LogBatch
      BY <1>1, <2>2, LogPut DEF Logs!Task
    <3> QED
      BY <3>1 DEF LogTasks
  <2> QED
    BY <2>1, <2>2
<1> QED
  BY <1>1, LogPut DEF LogTasks

\* A set of finitely many values has no more of them than there are arguments.
LEMMA ImageNoLarger ==
  ASSUME NEW S, IsFiniteSet(S), NEW f, DOMAIN f = S
  PROVE  /\ IsFiniteSet({f[x] : x \in S})
         /\ Cardinality({f[x] : x \in S}) <= Cardinality(S)
<1> DEFINE T == {f[x] : x \in S}
<1>1. PICK g : g = [x \in S |-> f[x]]
  OBVIOUS
<1>2. g \in Surjection(S, T)
  BY <1>1 DEF Surjection
<1> QED
  BY <1>2, FS_Surjection

\* What attempt d with task t may still store in window w.
Weight(t, w) == IF Reserves(t, w) THEN Cardinality(t.batch.logs) ELSE 0

Pairs(d, t, w) == IF Reserves(t, w) THEN {d} \X t.batch.logs ELSE {}

LEMMA PairsWeigh ==
  ASSUME NEW d, NEW t \in Logs!Task \union {None}, NEW w
  PROVE  /\ IsFiniteSet(Pairs(d, t, w)) /\ Weight(t, w) \in Nat
         /\ Cardinality(Pairs(d, t, w)) = Weight(t, w)
<1>1. CASE Reserves(t, w)
  <2>1. t.batch \in LogBatch
    BY <1>1 DEF Reserves, Logs!Task
  <2>2. IsFiniteSet(t.batch.logs) /\ Cardinality(t.batch.logs) \in Nat
    BY <2>1, LogNumbers
  <2>3. /\ IsFiniteSet({d} \X t.batch.logs)
        /\ Cardinality({d} \X t.batch.logs) = Cardinality(t.batch.logs)
    <3>1. IsFiniteSet({d}) /\ Cardinality({d}) = 1
      BY FS_Singleton
    <3>2. /\ IsFiniteSet({d} \X t.batch.logs)
          /\ Cardinality({d} \X t.batch.logs) = Cardinality({d}) * Cardinality(t.batch.logs)
      BY <2>2, <3>1, FS_Product
    <3>3. 1 * Cardinality(t.batch.logs) = Cardinality(t.batch.logs)
      BY <2>2
    <3> QED
      BY <3>1, <3>2, <3>3
  <2> QED
    BY <1>1, <2>2, <2>3 DEF Pairs, Weight
<1>2. CASE ~Reserves(t, w)
  BY <1>2, FS_EmptySet DEF Pairs, Weight
<1> QED
  BY <1>1, <1>2

\* What is reserved changes by what the attempt gives up and takes.
LEMMA ReservedPut ==
  ASSUME LogTasks, NEW a \in Attempt, NEW n \in Logs!Task \union {None},
         loggedBy' = [loggedBy EXCEPT ![a] = n], NEW w, IsFiniteSet(Reserved(w))
  PROVE  /\ IsFiniteSet(Reserved(w)')
         /\ Cardinality(Reserved(w)) \in Nat /\ Cardinality(Reserved(w)') \in Nat
         /\ Weight(loggedBy[a], w) \in Nat /\ Weight(n, w) \in Nat
         /\ Cardinality(Reserved(w)') + Weight(loggedBy[a], w)
              = Cardinality(Reserved(w)) + Weight(n, w)
<1> DEFINE Others == {p \in Reserved(w) : p[1] # a}
           o == loggedBy[a]
<1>o. PICK old \in Logs!Task \union {None} : old = o
  BY DEF LogTasks
<1>b. \A t \in Logs!Task : t.batch.logs \subseteq DOMAIN LogStamp
  BY LogNumbers DEF Logs!Task
<1>1. Reserved(w) = Others \union Pairs(a, old, w)
  <2>1. ASSUME NEW p \in Reserved(w), p[1] = a
        PROVE  p \in Pairs(a, old, w)
    BY <1>o, <2>1 DEF Reserved, Pairs
  <2>2. ASSUME NEW p \in Pairs(a, old, w)
        PROVE  p \in Reserved(w)
    <3>1. /\ Reserves(old, w) /\ old \in Logs!Task
          /\ p \in {a} \X old.batch.logs
      BY <2>2 DEF Pairs, Reserves
    <3>2. p[1] = a /\ p[2] \in old.batch.logs /\ p = <<p[1], p[2]>>
      BY <3>1
    <3>3. p \in Attempt \X DOMAIN LogStamp
      BY <1>b, <3>1, <3>2
    <3> QED
      BY <1>o, <3>1, <3>2, <3>3 DEF Reserved
  <2> QED
    BY <2>1, <2>2
<1>2. Reserved(w)' = Others \union Pairs(a, n, w)
  <2>1. ASSUME NEW p \in Reserved(w)'
        PROVE  p \in Others \union Pairs(a, n, w)
    <3>1. /\ p \in Attempt \X DOMAIN LogStamp
          /\ Reserves(loggedBy'[p[1]], w) /\ p[2] \in loggedBy'[p[1]].batch.logs
      BY <2>1 DEF Reserved, Reserves
    <3>2. CASE p[1] = a
      <4>1. loggedBy'[p[1]] = n
        BY <3>2, LogPut
      <4>2. Reserves(n, w) /\ p[2] \in n.batch.logs /\ p = <<a, p[2]>>
        BY <3>1, <3>2, <4>1
      <4> QED
        BY <4>2 DEF Pairs
    <3>3. CASE p[1] # a
      <4>1. p[1] \in Attempt /\ loggedBy'[p[1]] = loggedBy[p[1]]
        BY <3>1, <3>3, LogPut
      <4> QED
        BY <3>1, <3>3, <4>1 DEF Reserved
    <3> QED
      BY <3>2, <3>3
  <2>2. ASSUME NEW p \in Others
        PROVE  p \in Reserved(w)'
    <3>1. /\ p \in Attempt \X DOMAIN LogStamp /\ p[1] # a
          /\ Reserves(loggedBy[p[1]], w) /\ p[2] \in loggedBy[p[1]].batch.logs
      BY <2>2 DEF Reserved
    <3>2. loggedBy'[p[1]] = loggedBy[p[1]]
      BY <3>1, LogPut
    <3> QED
      BY <3>1, <3>2 DEF Reserved, Reserves
  <2>3. ASSUME NEW p \in Pairs(a, n, w)
        PROVE  p \in Reserved(w)'
    <3>1. Reserves(n, w) /\ n \in Logs!Task /\ p \in {a} \X n.batch.logs
      BY <2>3 DEF Pairs, Reserves
    <3>2. p[1] = a /\ p[2] \in n.batch.logs /\ p = <<p[1], p[2]>>
      BY <3>1
    <3>3. p \in Attempt \X DOMAIN LogStamp /\ loggedBy'[p[1]] = n
      BY <1>b, <3>1, <3>2, LogPut
    <3> QED
      BY <3>1, <3>2, <3>3 DEF Reserved, Reserves
  <2> QED
    BY <2>1, <2>2, <2>3
<1>3. \A t : Others \cap Pairs(a, t, w) = {}
  BY DEF Pairs
<1>4. IsFiniteSet(Others) /\ Cardinality(Others) \in Nat
  <2>1. Others \in SUBSET Reserved(w)
    OBVIOUS
  <2> QED
    BY <2>1, FS_Subset, FS_CardinalityType
<1> HIDE DEF Others
<1>5. /\ IsFiniteSet(Pairs(a, old, w)) /\ IsFiniteSet(Pairs(a, n, w))
      /\ Cardinality(Pairs(a, old, w)) = Weight(old, w) /\ Weight(old, w) \in Nat
      /\ Cardinality(Pairs(a, n, w)) = Weight(n, w) /\ Weight(n, w) \in Nat
  BY PairsWeigh
<1>6. /\ IsFiniteSet(Others \union Pairs(a, old, w)) /\ IsFiniteSet(Others \union Pairs(a, n, w))
      /\ Cardinality(Others \union Pairs(a, old, w)) = Cardinality(Others) + Weight(old, w) - 0
      /\ Cardinality(Others \union Pairs(a, n, w)) = Cardinality(Others) + Weight(n, w) - 0
  BY <1>3, <1>4, <1>5, FS_Union, FS_EmptySet
<1> QED
  BY <1>1, <1>2, <1>4, <1>5, <1>6, <1>o, FS_CardinalityType

\* An attempt that reserves no more than before stays within the quotas when
\* nothing else about them changes.
LEMMA QuotaPut ==
  ASSUME LogTasks, QuotaKept, NEW a \in Attempt, NEW n \in Logs!Task \union {None},
         loggedBy' = [loggedBy EXCEPT ![a] = n], UNCHANGED <<logRows, quota>>,
         \A w : Weight(n, w) <= Weight(loggedBy[a], w)
  PROVE  QuotaKept'
<1>1. ASSUME NEW w \in DOMAIN quota
      PROVE  /\ IsFiniteSet(Reserved(w)')
             /\ Cardinality(RowsOf(w)) + Cardinality(Reserved(w)') <= quota[w]
             /\ Cardinality(RowsOf(w)) + Cardinality(Reserved(w)') <= Quota
  <2>1. /\ quota[w] \in Nat /\ IsFiniteSet(RowsOf(w)) /\ IsFiniteSet(Reserved(w))
        /\ Cardinality(RowsOf(w)) + Cardinality(Reserved(w)) <= quota[w]
        /\ Cardinality(RowsOf(w)) + Cardinality(Reserved(w)) <= Quota
    BY DEF QuotaKept
  <2>2. /\ IsFiniteSet(Reserved(w)')
        /\ Cardinality(Reserved(w)) \in Nat /\ Cardinality(Reserved(w)') \in Nat
        /\ Weight(loggedBy[a], w) \in Nat /\ Weight(n, w) \in Nat
        /\ Cardinality(Reserved(w)') + Weight(loggedBy[a], w)
             = Cardinality(Reserved(w)) + Weight(n, w)
    BY <2>1, ReservedPut
  <2>3. Cardinality(RowsOf(w)) \in Nat
    BY <2>1, FS_CardinalityType
  <2>4. Cardinality(Reserved(w)') <= Cardinality(Reserved(w))
    BY <2>2
  <2> QED
    BY <2>1, <2>2, <2>3, <2>4, LogNumbers
<1>2. \A w : RowsOf(w)' = RowsOf(w)
  BY DEF RowsOf
<1> QED
  BY <1>1, <1>2 DEF QuotaKept

\* The frame of the claims: nothing that they speak of changes, except that a
\* batch may be answered as what it is.
LEMMA ClaimsFrame ==
  ASSUME LogTasks, ClaimsHeld, BatchesSafe, AlertsLast, now' = now,
         UNCHANGED <<seenBatches, alerts, broken>>,
         \A d \in Attempt, b \in LogBatch, s \in Nat : HeldBy(d, b, s)' <=> HeldBy(d, b, s),
         \A b \in LogBatch : Logs!Retained(b) => Logs!Retained(b)',
         \A b \in LogBatch :
           /\ "accepted" \in answers'[b] => "accepted" \in answers[b]
           /\ "duplicate" \in answers'[b] =>
                "duplicate" \in answers[b] \/ \E c \in seenBatches : c.id = b.id
  PROVE  ClaimsHeld' /\ BatchesSafe' /\ AlertsLast'
<1>1. \A b \in LogBatch : HeldAtAll(b)' <=> HeldAtAll(b)
  BY DEF HeldAtAll
<1>2. \A b \in LogBatch : SafeBatch(b) => SafeBatch(b)'
  BY <1>1 DEF SafeBatch
<1>3. ClaimsHeld'
  BY DEF ClaimsHeld
<1>4. BatchesSafe'
  BY <1>2 DEF BatchesSafe
<1>5. AlertsLast'
  BY <1>1 DEF AlertsLast
<1> QED
  BY <1>3, <1>4, <1>5

\* A new request, of which nothing is said yet.
LEMMA IngestLogs ==
  ASSUME LogInv, NEW a \in Attempt, NEW b \in LogBatch, Logs!ingestLogs(a, b)
  PROVE  LogInv'
<1>1. PICK n : n = [batch |-> b, at |-> now, step |-> IF b.browser THEN "quota" ELSE "claim"]
  OBVIOUS
<1>2. /\ loggedBy[a] = None /\ loggedBy' = [loggedBy EXCEPT ![a] = n]
      /\ UNCHANGED <<now, seenBatches, logRows, quota, answers, alerts, broken>>
  BY <1>1 DEF Logs!ingestLogs
<1>3. n \in Logs!Task /\ n.batch = b /\ n.at = now /\ n.step \in {"quota", "claim"}
      /\ (b.browser => n.step = "quota")
  BY <1>1 DEF LogInv, LogTasks, Logs!Task
<1>4. \A d \in LogBatch : Logs!Retained(d) => Logs!Retained(d)'
  BY <1>2 DEF Logs!Retained
<1>5. LogTasks'
  <2>1. n.at <= now /\ now <= n.at + Transit
    BY <1>3, LogNumbers DEF LogInv, LogTasks
  <2> QED
    BY <1>2, <1>3, <1>4, <2>1, LogTasksKept DEF LogInv, LogTasks
<1>6. ClaimsHeld' /\ BatchesSafe' /\ AlertsLast'
  <2>1. \A d \in Attempt, c \in LogBatch, s \in Nat : HeldBy(d, c, s)' <=> HeldBy(d, c, s)
    BY <1>2, <1>3, LogPut DEF LogInv, HeldBy
  <2> QED
    BY <1>2, <1>4, <2>1, ClaimsFrame DEF LogInv
<1>7. QuotaKept'
  <2>1. \A w : Weight(n, w) = 0 /\ Weight(loggedBy[a], w) = 0
    BY <1>2, <1>3 DEF Weight, Reserves
  <2>2. \A w : Weight(n, w) <= Weight(loggedBy[a], w)
    BY <2>1
  <2> QED
    BY <1>2, <1>3, <2>2, QuotaPut DEF LogInv
<1>8. RowsOnce'
  BY <1>2 DEF LogInv, RowsOnce
<1> QED
  BY <1>5, <1>6, <1>7, <1>8 DEF LogInv

LEMMA ConsumeQuota ==
  ASSUME LogInv, NEW a \in Attempt, Logs!consumeBrowserQuota(a)
  PROVE  LogInv'
<1>t. PICK t \in Logs!Task : t = loggedBy[a] /\ t.step = "quota"
  BY DEF LogInv, LogTasks, Logs!consumeBrowserQuota
<1>f. t.batch \in LogBatch /\ t.at \in Nat /\ t.at <= now /\ now <= t.at + Transit
  BY <1>t DEF LogInv, LogTasks, Logs!Task
<1> DEFINE W == Logs!WindowOf(t.at)
           size == Cardinality(t.batch.logs)
           over == quota[W] + size > Quota
<1>s. size \in Nat /\ Quota \in Nat
  BY <1>f, LogNumbers
<1> HIDE DEF size
<1>1. PICK n : n = IF over THEN None ELSE [t EXCEPT !.step = "claim"]
  OBVIOUS
<1>2. /\ UNCHANGED <<now, seenBatches, logRows, answers, alerts, broken>>
      /\ quota' = [quota EXCEPT ![W] = Logs!Min({Quota + 1, quota[W] + size})]
  BY <1>t, LogsCount DEF Logs!consumeBrowserQuota, size
<1>3. loggedBy' = [loggedBy EXCEPT ![a] = n]
  <2>1. Logs!Used(a) = quota[W] + size
    BY <1>t, LogsCount DEF Logs!Used, size
  <2>2. CASE over
    BY <1>1, <2>1, <2>2 DEF Logs!consumeBrowserQuota, Logs!Ends
  <2>3. CASE ~over
    BY <1>1, <1>t, <2>1, <2>3 DEF Logs!consumeBrowserQuota, Logs!To
  <2> QED
    BY <2>2, <2>3
<1>4. /\ n \in Logs!Task \union {None}
      /\ over => n = None
      /\ ~over => n \in Logs!Task /\ n.batch = t.batch /\ n.at = t.at /\ n.step = "claim"
  BY <1>1, <1>t DEF Logs!Task
<1>5. \A d \in LogBatch : Logs!Retained(d) => Logs!Retained(d)'
  BY <1>2 DEF Logs!Retained
<1>6. LogTasks'
  <2>1. n # None => n.at <= now /\ now <= n.at + Transit /\ n.step # "respond"
    BY <1>4, <1>f
  <2> QED
    BY <1>2, <1>3, <1>4, <1>5, <2>1, LogTasksKept DEF LogInv, LogTasks
<1>7. ClaimsHeld' /\ BatchesSafe' /\ AlertsLast'
  <2>1. \A d \in Attempt, c \in LogBatch, s \in Nat : HeldBy(d, c, s)' <=> HeldBy(d, c, s)
    <3>1. \A c \in LogBatch, s \in Nat : ~HeldBy(a, c, s) /\ ~HeldBy(a, c, s)'
      BY <1>t, <1>3, <1>4, LogPut DEF LogInv, HeldBy
    <3>2. \A d \in Attempt : d # a => loggedBy'[d] = loggedBy[d]
      BY <1>3, <1>4, LogPut DEF LogInv
    <3> QED
      BY <3>1, <3>2 DEF HeldBy
  <2> QED
    BY <1>2, <1>5, <2>1, ClaimsFrame DEF LogInv
<1>8. QuotaKept'
  <2>1. ASSUME NEW w \in DOMAIN quota
        PROVE  /\ quota'[w] \in Nat /\ IsFiniteSet(Reserved(w)')
               /\ Cardinality(RowsOf(w)) + Cardinality(Reserved(w)') <= quota'[w]
               /\ Cardinality(RowsOf(w)) + Cardinality(Reserved(w)') <= Quota
    <3>1. /\ quota[w] \in Nat /\ IsFiniteSet(RowsOf(w)) /\ IsFiniteSet(Reserved(w))
          /\ Cardinality(RowsOf(w)) + Cardinality(Reserved(w)) <= quota[w]
          /\ Cardinality(RowsOf(w)) + Cardinality(Reserved(w)) <= Quota
      BY DEF LogInv, QuotaKept
    <3>2. /\ IsFiniteSet(Reserved(w)')
          /\ Cardinality(Reserved(w)) \in Nat /\ Cardinality(Reserved(w)') \in Nat
          /\ Weight(loggedBy[a], w) \in Nat /\ Weight(n, w) \in Nat
          /\ Cardinality(Reserved(w)') + Weight(loggedBy[a], w)
               = Cardinality(Reserved(w)) + Weight(n, w)
      BY <1>3, <1>4, <3>1, ReservedPut DEF LogInv
    <3>3. Cardinality(RowsOf(w)) \in Nat
      BY <3>1, FS_CardinalityType
    <3>4. Weight(loggedBy[a], w) = 0
      BY <1>t DEF Weight, Reserves
    <3>5. Weight(n, w) = 0 \/ (w = W /\ ~over /\ Weight(n, w) = size)
      BY <1>4 DEF Weight, Reserves, size
    <3>6. CASE w = W
      <4>1. quota'[w] = IF Quota + 1 <= quota[w] + size THEN Quota + 1 ELSE quota[w] + size
        <5>1. quota'[w] = Logs!Min({Quota + 1, quota[w] + size})
          BY <1>2, <3>6
        <5>2. \A i, j \in Nat : Logs!Min({i, j}) = IF i <= j THEN i ELSE j
          BY DEF Logs!Min
        <5> QED
          BY <1>s, <3>1, <5>1, <5>2
      <4> QED
        BY <1>s, <3>1, <3>2, <3>3, <3>4, <3>5, <3>6, <4>1
    <3>7. CASE w # W
      <4>1. quota'[w] = quota[w]
        BY <1>2, <3>7
      <4> QED
        BY <1>s, <3>1, <3>2, <3>3, <3>4, <3>5, <3>7, <4>1
    <3> QED
      BY <3>6, <3>7
  <2>2. \A w \in DOMAIN quota : RowsOf(w)' = RowsOf(w) /\ IsFiniteSet(RowsOf(w))
    BY <1>2 DEF LogInv, QuotaKept, RowsOf
  <2>3. DOMAIN quota' = DOMAIN quota
    BY <1>2
  <2> QED
    BY <2>1, <2>2, <2>3 DEF QuotaKept
<1>9. RowsOnce'
  BY <1>2 DEF LogInv, RowsOnce
<1> QED
  BY <1>6, <1>7, <1>8, <1>9 DEF LogInv

\* Who holds what, after a request that did not hold its batch, or ends with it.
LEMMA HeldByOthers ==
  ASSUME LogTasks, NEW a \in Attempt, NEW n \in Logs!Task \union {None},
         loggedBy' = [loggedBy EXCEPT ![a] = n]
  PROVE  /\ \A d \in Attempt : \A b, s : d # a => (HeldBy(d, b, s)' <=> HeldBy(d, b, s))
         /\ n = None => \A b, s : ~HeldBy(a, b, s)'
         /\ n # None /\ n.step \in {"store", "respond", "forget"} =>
              \A b, s : HeldBy(a, b, s)' <=> (b = n.batch /\ s = n.at)
BY LogPut, LogNumbers DEF HeldBy

LEMMA HeldNoMore ==
  ASSUME LogTasks, NEW a \in Attempt, loggedBy' = [loggedBy EXCEPT ![a] = None]
  PROVE  /\ \A d \in Attempt : \A b, s : d # a => (HeldBy(d, b, s)' <=> HeldBy(d, b, s))
         /\ \A b, s : ~HeldBy(a, b, s)'
<1>1. PICK n \in Logs!Task \union {None} : n = None
  OBVIOUS
<1>2. loggedBy' = [loggedBy EXCEPT ![a] = n]
  BY <1>1
<1> QED
  BY <1>1, <1>2, HeldByOthers

\* A batch that is claimed already is answered as a duplicate.
LEMMA MarkDuplicate ==
  ASSUME LogInv, NEW a \in Attempt, Logs!markSeen(a), Logs!Claimed(loggedBy[a].batch)
  PROVE  LogInv'
<1>t. PICK t \in Logs!Task : t = loggedBy[a] /\ t.step = "claim" /\ t.batch \in LogBatch
  BY DEF LogInv, LogTasks, Logs!markSeen, Logs!Task
<1>1. /\ loggedBy' = [loggedBy EXCEPT ![a] = None]
      /\ answers' = [answers EXCEPT ![t.batch] = @ \union {"duplicate"}]
      /\ UNCHANGED <<now, seenBatches, logRows, quota, alerts, broken>>
  BY <1>t DEF Logs!markSeen, Logs!Ends, Logs!Answer
<1>2. \E c \in seenBatches : c.id = t.batch.id
  BY <1>t DEF Logs!Claimed
<1>3. \A d \in LogBatch : Logs!Retained(d) => Logs!Retained(d)'
  BY <1>1 DEF Logs!Retained
<1>4. answers' \in [LogBatch -> SUBSET {"accepted", "duplicate"}]
  BY <1>1 DEF LogInv, LogTasks
<1>5. LogTasks'
  BY <1>1, <1>3, <1>4, LogTasksKept DEF LogInv
<1>6. ClaimsHeld' /\ BatchesSafe' /\ AlertsLast'
  <2>1. \A d \in Attempt, c \in LogBatch, s \in Nat : HeldBy(d, c, s)' <=> HeldBy(d, c, s)
    <3>1. \A c, s : ~HeldBy(a, c, s)
      BY <1>t DEF HeldBy
    <3>2. /\ \A d \in Attempt : \A b, s : d # a => (HeldBy(d, b, s)' <=> HeldBy(d, b, s))
          /\ \A b, s : ~HeldBy(a, b, s)'
      BY <1>1, HeldNoMore DEF LogInv
    <3> QED
      BY <3>1, <3>2
  <2>2. \A b \in LogBatch :
          /\ "accepted" \in answers'[b] => "accepted" \in answers[b]
          /\ "duplicate" \in answers'[b] =>
               "duplicate" \in answers[b] \/ \E c \in seenBatches : c.id = b.id
    BY <1>1, <1>2 DEF LogInv, LogTasks
  <2> QED
    BY <1>1, <1>3, <2>1, <2>2, ClaimsFrame DEF LogInv
<1>7. QuotaKept'
  <2>1. \A w : Weight(None, w) = 0 /\ Weight(loggedBy[a], w) \in Nat
    BY <1>t, PairsWeigh DEF Weight, Reserves
  <2>2. \A w : Weight(None, w) <= Weight(loggedBy[a], w)
    BY <2>1
  <2> QED
    BY <1>1, <2>2, QuotaPut DEF LogInv
<1>8. RowsOnce'
  BY <1>1 DEF LogInv, RowsOnce
<1> QED
  BY <1>5, <1>6, <1>7, <1>8 DEF LogInv

\* A request that goes on with its batch, in the same state of claims.
LEMMA MarkClaims ==
  ASSUME LogInv, NEW a \in Attempt, Logs!markSeen(a), ~Logs!Claimed(loggedBy[a].batch)
  PROVE  LogInv'
<1>t. PICK t \in Logs!Task : t = loggedBy[a] /\ t.step = "claim" /\ t.batch \in LogBatch
                             /\ t.at \in Nat /\ t.at <= now /\ now <= t.at + Transit
  BY DEF LogInv, LogTasks, Logs!markSeen, Logs!Task
<1>n. PICK n : n = [t EXCEPT !.step = "store"]
  OBVIOUS
<1>c. PICK c : c = [id |-> t.batch.id, seen |-> t.at]
  OBVIOUS
<1>1. /\ loggedBy' = [loggedBy EXCEPT ![a] = n]
      /\ seenBatches' = seenBatches \union {c}
      /\ UNCHANGED <<now, logRows, quota, answers, alerts, broken>>
  BY <1>t, <1>n, <1>c DEF Logs!markSeen, Logs!To
<1>2. n \in Logs!Task /\ n.batch = t.batch /\ n.at = t.at /\ n.step = "store"
  BY <1>t, <1>n DEF Logs!Task
<1>3. \A d \in seenBatches : d.id # t.batch.id
  BY <1>t DEF Logs!Claimed
<1>4. \A d \in LogBatch : Logs!Retained(d) => Logs!Retained(d)'
  BY <1>1 DEF Logs!Retained
<1>5. LogTasks'
  <2>1. n.at <= now /\ now <= n.at + Transit /\ n.step # "respond"
    BY <1>2, <1>t
  <2> QED
    BY <1>1, <1>2, <1>4, <2>1, LogTasksKept DEF LogInv, LogTasks
<1>h. \A d \in Attempt, b \in LogBatch, s \in Nat :
        HeldBy(d, b, s)' <=> HeldBy(d, b, s) \/ (d = a /\ b = t.batch /\ s = t.at)
  <2>1. \A b, s : ~HeldBy(a, b, s)
    BY <1>t DEF HeldBy
  <2>2. /\ \A b, s : HeldBy(a, b, s)' <=> (b = t.batch /\ s = t.at)
        /\ \A d \in Attempt : \A b, s : d # a => (HeldBy(d, b, s)' <=> HeldBy(d, b, s))
    BY <1>1, <1>2, HeldByOthers, LogNumbers DEF LogInv
  <2> QED
    BY <2>1, <2>2
<1>o. \A d \in Attempt, s \in Nat : ~HeldBy(d, t.batch, s)
  <2>1. \A d \in Attempt, s \in Nat :
          HeldBy(d, t.batch, s) => [id |-> t.batch.id, seen |-> s] \in seenBatches
    BY <1>t DEF LogInv, ClaimsHeld
  <2>2. \A s : [id |-> t.batch.id, seen |-> s] \notin seenBatches
    BY <1>3
  <2> QED
    BY <2>1, <2>2
<1>6. ClaimsHeld'
  <2>1. \A d \in seenBatches' : d.seen \in Nat /\ d = [id |-> d.id, seen |-> d.seen]
    BY <1>1, <1>c, <1>t DEF LogInv, ClaimsHeld
  <2>2. \A d, e \in seenBatches' : d.id = e.id => d = e
    BY <1>1, <1>c, <1>3 DEF LogInv, ClaimsHeld
  <2>3. \A d \in Attempt, b \in LogBatch, s \in Nat :
          HeldBy(d, b, s)' => [id |-> b.id, seen |-> s] \in seenBatches'
    BY <1>1, <1>c, <1>h DEF LogInv, ClaimsHeld
  <2>4. \A d, e \in Attempt, b \in LogBatch, s, u \in Nat :
          HeldBy(d, b, s)' /\ HeldBy(e, b, u)' => d = e
    BY <1>h, <1>o DEF LogInv, ClaimsHeld
  <2> QED
    BY <2>1, <2>2, <2>3, <2>4 DEF ClaimsHeld
<1>7. BatchesSafe'
  <2>1. \A b \in LogBatch : SafeBatch(b) => SafeBatch(b)'
    BY <1>1, <1>4, <1>h DEF SafeBatch, HeldAtAll
  <2>2. SafeBatch(t.batch)'
    BY <1>h, <1>t DEF SafeBatch, HeldAtAll
  <2>3. \A b \in LogBatch : b.id = c.id => b = t.batch
    BY <1>c, <1>t, LogNumbers
  <2> QED
    BY <1>1, <1>4, <2>1, <2>2, <2>3 DEF LogInv, BatchesSafe
<1>8. AlertsLast'
  <2>1. ASSUME NEW x \in alerts
        PROVE  \/ [id |-> x.batch.id, seen |-> x.at] \in seenBatches' /\ ~HeldAtAll(x.batch)'
               \/ /\ now > x.at + ClaimKeep
                  /\ \A d \in Attempt, s \in Nat :
                       HeldBy(d, x.batch, s)' => s > x.at + ClaimKeep - Transit
    <3>x. x.batch \in LogBatch /\ x.at \in Nat
      BY DEF LogInv, AlertsLast
    <3>1. CASE x.batch = t.batch
      <4>1. [id |-> x.batch.id, seen |-> x.at] \notin seenBatches
        BY <1>3, <3>1
      <4>2. now > x.at + ClaimKeep
        BY <4>1 DEF LogInv, AlertsLast
      <4>3. t.at > x.at + ClaimKeep - Transit
        BY <1>t, <3>x, <4>2, LogNumbers DEF LogInv, LogTasks
      <4>4. \A d \in Attempt, s \in Nat : HeldBy(d, x.batch, s)' => s = t.at
        BY <1>h, <1>o, <3>1, <3>x
      <4> QED
        BY <4>2, <4>3, <4>4
    <3>2. CASE x.batch # t.batch
      <4>1. \A d \in Attempt, s \in Nat : HeldBy(d, x.batch, s)' <=> HeldBy(d, x.batch, s)
        BY <1>h, <3>x, <3>2
      <4> QED
        BY <1>1, <4>1 DEF LogInv, AlertsLast, HeldAtAll
    <3> QED
      BY <3>1, <3>2
  <2> QED
    BY <1>1, <2>1 DEF LogInv, AlertsLast
<1>9. QuotaKept'
  <2>1. ASSUME NEW w
        PROVE  Weight(n, w) = Weight(loggedBy[a], w) /\ Weight(n, w) \in Nat
    <3>1. Reserves(n, w) <=> Reserves(loggedBy[a], w)
      BY <1>t, <1>2, LogNumbers DEF Reserves
    <3>2. Weight(n, w) \in Nat
      BY <1>2, PairsWeigh
    <3> QED
      BY <1>t, <1>2, <3>1, <3>2 DEF Weight
  <2>2. \A w : Weight(n, w) <= Weight(loggedBy[a], w)
    BY <2>1
  <2> QED
    BY <1>1, <1>2, <2>2, QuotaPut DEF LogInv
<1>10. RowsOnce'
  BY <1>1 DEF LogInv, RowsOnce
<1> QED
  BY <1>5, <1>6, <1>7, <1>8, <1>9, <1>10 DEF LogInv

\* What is stored of a batch is among what its attempt had reserved.
LEMMA RecordLogs ==
  ASSUME LogInv, NEW a \in Attempt, Logs!recordLogs(a)
  PROVE  LogInv'
<1>t. PICK t \in Logs!Task : t = loggedBy[a] /\ t.step = "store" /\ t.batch \in LogBatch
                             /\ t.at \in Nat /\ t.at <= now /\ now <= t.at + Transit
  BY DEF LogInv, LogTasks, Logs!recordLogs, Logs!Task
<1>n. PICK n : n = [t EXCEPT !.step = "respond"]
  OBVIOUS
<1> DEFINE W == Logs!WindowOf(t.at)
           fresh == {m \in t.batch.stored : \A r \in logRows : r.log # m}
           row(l) == [log |-> l, window |-> W, browser |-> t.batch.browser]
           added == {row(l) : l \in fresh}
<1>1. /\ loggedBy' = [loggedBy EXCEPT ![a] = n]
      /\ logRows' = logRows \union added
      /\ UNCHANGED <<now, seenBatches, quota, answers, alerts, broken>>
  BY <1>t, <1>n DEF Logs!recordLogs, Logs!To
<1>2. n \in Logs!Task /\ n.batch = t.batch /\ n.at = t.at /\ n.step = "respond"
  BY <1>t, <1>n DEF Logs!Task
<1>3. \A d \in LogBatch : Logs!Retained(d) => Logs!Retained(d)'
  BY <1>1 DEF Logs!Retained
<1>4. Logs!Retained(t.batch)'
  <2>1. ASSUME NEW l \in t.batch.stored
        PROVE  \E r \in logRows' : r.log = l
    <3>1. CASE l \in fresh
      <4>1. row(l) \in logRows' /\ row(l).log = l
        BY <1>1, <3>1
      <4> QED
        BY <4>1
    <3>2. CASE l \notin fresh
      BY <1>1, <3>2
    <3> QED
      BY <3>1, <3>2
  <2> QED
    BY <2>1 DEF Logs!Retained
<1>5. LogTasks'
  <2>1. n.at <= now /\ now <= n.at + Transit /\ Logs!Retained(n.batch)'
    BY <1>2, <1>4, <1>t
  <2> QED
    BY <1>1, <1>2, <1>3, <2>1, LogTasksKept DEF LogInv, LogTasks
<1>6. ClaimsHeld' /\ BatchesSafe' /\ AlertsLast'
  <2>1. \A d \in Attempt, b \in LogBatch, s \in Nat : HeldBy(d, b, s)' <=> HeldBy(d, b, s)
    <3>1. \A b, s : HeldBy(a, b, s) <=> (b = t.batch /\ s = t.at)
      BY <1>t, LogNumbers DEF HeldBy
    <3>2. \A b, s : HeldBy(a, b, s)' <=> (b = t.batch /\ s = t.at)
      BY <1>1, <1>2, HeldByOthers, LogNumbers DEF LogInv
    <3>3. \A d \in Attempt : \A b, s : d # a => (HeldBy(d, b, s)' <=> HeldBy(d, b, s))
      BY <1>1, <1>2, HeldByOthers DEF LogInv
    <3> QED
      BY <3>1, <3>2, <3>3
  <2> QED
    BY <1>1, <1>3, <2>1, ClaimsFrame DEF LogInv
<1>7. RowsOnce'
  BY <1>1 DEF LogInv, RowsOnce
<1>8. QuotaKept'
  <2>1. ASSUME NEW w \in DOMAIN quota
        PROVE  /\ IsFiniteSet(RowsOf(w)') /\ IsFiniteSet(Reserved(w)')
               /\ Cardinality(RowsOf(w)') + Cardinality(Reserved(w)') <= quota[w]
               /\ Cardinality(RowsOf(w)') + Cardinality(Reserved(w)') <= Quota
    <3>1. /\ quota[w] \in Nat /\ IsFiniteSet(RowsOf(w)) /\ IsFiniteSet(Reserved(w))
          /\ Cardinality(RowsOf(w)) + Cardinality(Reserved(w)) <= quota[w]
          /\ Cardinality(RowsOf(w)) + Cardinality(Reserved(w)) <= Quota
      BY DEF LogInv, QuotaKept
    <3>2. /\ IsFiniteSet(Reserved(w)')
          /\ Cardinality(Reserved(w)) \in Nat /\ Cardinality(Reserved(w)') \in Nat
          /\ Weight(t, w) \in Nat /\ Weight(n, w) \in Nat
          /\ Cardinality(Reserved(w)') + Weight(t, w)
               = Cardinality(Reserved(w)) + Weight(n, w)
      BY <1>t, <1>1, <1>2, <3>1, ReservedPut DEF LogInv
    <3>3. Weight(n, w) = 0
      BY <1>2 DEF Weight, Reserves
    <3>4. Cardinality(RowsOf(w)) \in Nat
      BY <3>1, FS_CardinalityType
    <3>5. /\ IsFiniteSet(RowsOf(w)') /\ Cardinality(RowsOf(w)') \in Nat
          /\ Cardinality(RowsOf(w)') <= Cardinality(RowsOf(w)) + Weight(t, w)
      <4>1. CASE Reserves(t, w)
        <5>1. IsFiniteSet(t.batch.logs) /\ fresh \in SUBSET t.batch.logs
              /\ t.batch.browser /\ W = w
          BY <1>t, <4>1, LogNumbers DEF Reserves
        <5>2. /\ IsFiniteSet(fresh) /\ Cardinality(fresh) <= Cardinality(t.batch.logs)
              /\ Cardinality(fresh) \in Nat /\ Cardinality(t.batch.logs) \in Nat
          BY <5>1, FS_Subset, FS_CardinalityType
        <5>3. PICK f : f = [l \in fresh |-> row(l)]
          OBVIOUS
        <5>4. added = {f[l] : l \in fresh} /\ DOMAIN f = fresh
          BY <5>3
        <5> HIDE DEF fresh, added
        <5>5. /\ IsFiniteSet(added) /\ Cardinality(added) <= Cardinality(fresh)
              /\ Cardinality(added) \in Nat
          BY <5>2, <5>4, ImageNoLarger, FS_CardinalityType
        <5>6. RowsOf(w)' = RowsOf(w) \union added
          BY <1>1, <5>1 DEF RowsOf, added
        <5>7. /\ IsFiniteSet(RowsOf(w) \union added)
              /\ Cardinality(RowsOf(w) \union added) =
                   Cardinality(RowsOf(w)) + Cardinality(added)
                     - Cardinality(RowsOf(w) \cap added)
          BY <3>1, <5>5, FS_Union
        <5>8. Cardinality(RowsOf(w) \cap added) \in Nat /\ Cardinality(RowsOf(w)') \in Nat
          <6>1. RowsOf(w) \cap added \in SUBSET added
            OBVIOUS
          <6>2. Cardinality(RowsOf(w) \cap added) \in Nat
            BY <5>5, <6>1, FS_Subset, FS_CardinalityType
          <6> QED
            BY <5>6, <5>7, <6>2, FS_CardinalityType
        <5>9. Weight(t, w) = Cardinality(t.batch.logs)
          BY <4>1 DEF Weight
        <5> QED
          BY <3>4, <5>2, <5>5, <5>6, <5>7, <5>8, <5>9
      <4>2. CASE ~Reserves(t, w)
        <5>1. ~(t.batch.browser /\ W = w)
          BY <1>t, <4>2, LogNumbers DEF Reserves
        <5>2. RowsOf(w)' = RowsOf(w)
          BY <1>1, <5>1 DEF RowsOf
        <5> QED
          BY <3>1, <3>2, <3>4, <5>2
      <4> QED
        BY <4>1, <4>2
    <3> QED
      BY <3>1, <3>2, <3>3, <3>4, <3>5, LogNumbers
  <2> QED
    BY <1>1, <2>1 DEF LogInv, QuotaKept
<1> QED
  BY <1>5, <1>6, <1>7, <1>8 DEF LogInv

\* Ending a request reserves nothing more.
LEMMA QuotaEnds ==
  ASSUME LogTasks, QuotaKept, NEW a \in Attempt,
         loggedBy' = [loggedBy EXCEPT ![a] = None], UNCHANGED <<logRows, quota>>
  PROVE  QuotaKept'
<1>1. \A w : Weight(None, w) = 0
  BY DEF Weight, Reserves
<1>2. \A w : Weight(loggedBy[a], w) \in Nat
  <2>1. loggedBy[a] \in Logs!Task \union {None}
    BY DEF LogTasks
  <2> QED
    BY <2>1, PairsWeigh
<1>3. \A w : Weight(None, w) <= Weight(loggedBy[a], w)
  BY <1>1, <1>2
<1> QED
  BY <1>3, QuotaPut

LEMMA StoreFails ==
  ASSUME LogInv, NEW a \in Attempt, Logs!storeFails(a)
  PROVE  LogInv'
<1>t. PICK t \in Logs!Task : /\ t = loggedBy[a] /\ t.step \in {"store", "respond"}
                             /\ t.batch \in LogBatch
                             /\ t.at \in Nat /\ t.at <= now /\ now <= t.at + Transit
  BY DEF LogInv, LogTasks, Logs!storeFails, Logs!Task
<1>n. PICK n : n = [t EXCEPT !.step = "forget"]
  OBVIOUS
<1>1. /\ loggedBy' = [loggedBy EXCEPT ![a] = n]
      /\ UNCHANGED <<now, seenBatches, logRows, quota, answers, alerts, broken>>
  BY <1>t, <1>n DEF Logs!storeFails, Logs!To
<1>2. n \in Logs!Task /\ n.batch = t.batch /\ n.at = t.at /\ n.step = "forget"
  BY <1>t, <1>n DEF Logs!Task
<1>3. \A d \in LogBatch : Logs!Retained(d) => Logs!Retained(d)'
  BY <1>1 DEF Logs!Retained
<1>4. LogTasks'
  <2>1. n.at <= now /\ now <= n.at + Transit /\ n.step # "respond"
    BY <1>2, <1>t
  <2> QED
    BY <1>1, <1>2, <1>3, <2>1, LogTasksKept DEF LogInv, LogTasks
<1>5. ClaimsHeld' /\ BatchesSafe' /\ AlertsLast'
  <2>1. \A d \in Attempt, b \in LogBatch, s \in Nat : HeldBy(d, b, s)' <=> HeldBy(d, b, s)
    <3>1. \A b, s : HeldBy(a, b, s) <=> (b = t.batch /\ s = t.at)
      BY <1>t, LogNumbers DEF HeldBy
    <3>2. \A b, s : HeldBy(a, b, s)' <=> (b = t.batch /\ s = t.at)
      BY <1>1, <1>2, HeldByOthers, LogNumbers DEF LogInv
    <3>3. \A d \in Attempt : \A b, s : d # a => (HeldBy(d, b, s)' <=> HeldBy(d, b, s))
      BY <1>1, <1>2, HeldByOthers DEF LogInv
    <3> QED
      BY <3>1, <3>2, <3>3
  <2> QED
    BY <1>1, <1>3, <2>1, ClaimsFrame DEF LogInv
<1>6. QuotaKept'
  <2>1. \A w : Weight(n, w) = 0
    BY <1>2 DEF Weight, Reserves
  <2>2. \A w : Weight(loggedBy[a], w) \in Nat
    BY <1>t, PairsWeigh
  <2>3. \A w : Weight(n, w) <= Weight(loggedBy[a], w)
    BY <2>1, <2>2
  <2> QED
    BY <1>1, <1>2, <2>3, QuotaPut DEF LogInv
<1>7. RowsOnce'
  BY <1>1 DEF LogInv, RowsOnce
<1> QED
  BY <1>4, <1>5, <1>6, <1>7 DEF LogInv

\* The answer of a stored batch, with its alerts or without.
LEMMA Respond ==
  ASSUME LogInv, NEW a \in Attempt, Logs!respond(a)
  PROVE  LogInv'
<1>t. PICK t \in Logs!Task : /\ t = loggedBy[a] /\ t.step = "respond" /\ t.batch \in LogBatch
                             /\ t.at \in Nat /\ t.at <= now /\ now <= t.at + Transit
                             /\ Logs!Retained(t.batch)
  BY DEF LogInv, LogTasks, Logs!respond, Logs!Task
<1>x. PICK x : x = [batch |-> t.batch, at |-> t.at]
  OBVIOUS
<1>1. /\ loggedBy' = [loggedBy EXCEPT ![a] = None]
      /\ answers' = [answers EXCEPT ![t.batch] = @ \union {"accepted"}]
      /\ alerts' = alerts \union {x} \/ alerts' = alerts
      /\ UNCHANGED <<now, seenBatches, logRows, quota, broken>>
  BY <1>t, <1>x DEF Logs!respond, Logs!Ends, Logs!Answer
<1>3. \A d \in LogBatch : Logs!Retained(d) => Logs!Retained(d)'
  BY <1>1 DEF Logs!Retained
<1>4. LogTasks'
  <2>1. answers' \in [LogBatch -> SUBSET {"accepted", "duplicate"}]
    BY <1>1 DEF LogInv, LogTasks
  <2> QED
    BY <1>1, <1>3, <2>1, LogTasksKept DEF LogInv
<1>h. \A b, s : HeldBy(a, b, s) <=> (b = t.batch /\ s = t.at)
  BY <1>t, LogNumbers DEF HeldBy
<1>g. /\ \A d \in Attempt : \A b, s : d # a => (HeldBy(d, b, s)' <=> HeldBy(d, b, s))
      /\ \A b, s : ~HeldBy(a, b, s)'
  BY <1>1, HeldNoMore DEF LogInv
<1>o. \A d \in Attempt, s \in Nat : ~HeldBy(d, t.batch, s)'
  BY <1>g, <1>h, <1>t DEF LogInv, ClaimsHeld
<1>5. ClaimsHeld'
  <2>1. \A d \in Attempt, b \in LogBatch, s \in Nat : HeldBy(d, b, s)' => HeldBy(d, b, s)
    BY <1>g
  <2> QED
    BY <1>1, <2>1 DEF LogInv, ClaimsHeld
<1>6. BatchesSafe'
  <2>1. ASSUME NEW b \in LogBatch, SafeBatch(b)
        PROVE  SafeBatch(b)'
    <3>1. CASE b = t.batch
      BY <1>3, <1>t, <3>1 DEF SafeBatch
    <3>2. CASE b # t.batch
      BY <1>1, <1>3, <1>g, <1>h, <2>1, <3>2 DEF SafeBatch, HeldAtAll
    <3> QED
      BY <3>1, <3>2
  <2>2. \A b \in LogBatch : /\ "duplicate" \in answers'[b] => "duplicate" \in answers[b]
                            /\ "accepted" \in answers'[b] => "accepted" \in answers[b] \/ b = t.batch
    BY <1>1 DEF LogInv, LogTasks
  <2> QED
    BY <1>1, <1>3, <1>t, <2>1, <2>2 DEF LogInv, BatchesSafe
<1>7. AlertsLast'
  <2>c. [id |-> t.batch.id, seen |-> t.at] \in seenBatches
    BY <1>h, <1>t DEF LogInv, ClaimsHeld
  <2>x. x.batch = t.batch /\ x.at = t.at
    BY <1>x
  <2>1. ASSUME NEW y \in alerts'
        PROVE  /\ y.batch \in LogBatch /\ y.at \in Nat
               /\ \/ [id |-> y.batch.id, seen |-> y.at] \in seenBatches /\ ~HeldAtAll(y.batch)'
                  \/ /\ now > y.at + ClaimKeep
                     /\ \A d \in Attempt, s \in Nat :
                          HeldBy(d, y.batch, s)' => s > y.at + ClaimKeep - Transit
    <3>1. CASE y = x
      BY <1>o, <1>t, <2>c, <2>x, <3>1 DEF HeldAtAll
    <3>2. CASE y \in alerts
      <4>1. \A d \in Attempt, s \in Nat : HeldBy(d, y.batch, s)' => HeldBy(d, y.batch, s)
        BY <1>g
      <4> QED
        BY <3>2, <4>1 DEF LogInv, AlertsLast, HeldAtAll
    <3> QED
      BY <1>1, <3>1, <3>2
  <2>2. ASSUME NEW y \in alerts, y.batch = t.batch
        PROVE  y.at \in Nat /\ t.at > y.at + ClaimKeep - Transit /\ ~(t.at < y.at)
    <3>1. HeldBy(a, y.batch, t.at)
      BY <1>h, <2>2
    <3>2. y.at \in Nat /\ t.at > y.at + ClaimKeep - Transit
      BY <1>t, <3>1 DEF LogInv, AlertsLast, HeldAtAll
    <3> QED
      BY <1>t, <3>2, LogNumbers
  <2>3. ASSUME NEW y \in alerts', NEW z \in alerts', y.batch = z.batch, y.at < z.at
        PROVE  z.at > y.at + ClaimKeep - Transit
    <3>1. CASE y \in alerts /\ z \in alerts
      BY <2>3, <3>1 DEF LogInv, AlertsLast
    <3>2. CASE z = x /\ y \in alerts
      BY <2>2, <2>3, <2>x, <3>2
    <3>3. CASE y = x /\ z \in alerts
      BY <2>2, <2>3, <2>x, <3>3
    <3>4. CASE y = x /\ z = x
      <4>1. ~(t.at < t.at)
        BY <1>t
      <4> QED
        BY <2>3, <2>x, <3>4, <4>1
    <3> QED
      BY <1>1, <3>1, <3>2, <3>3, <3>4
  <2> QED
    BY <1>1, <2>1, <2>3 DEF AlertsLast
<1>8. QuotaKept'
  BY <1>1, QuotaEnds DEF LogInv
<1>9. RowsOnce'
  BY <1>1 DEF LogInv, RowsOnce
<1> QED
  BY <1>4, <1>5, <1>6, <1>7, <1>8, <1>9 DEF LogInv

\* The claim is released, and who was told of a duplicate meanwhile is a loss.
LEMMA Forget ==
  ASSUME LogInv, NEW a \in Attempt, Logs!forget(a)
  PROVE  LogInv'
<1>t. PICK t \in Logs!Task : /\ t = loggedBy[a] /\ t.step = "forget" /\ t.batch \in LogBatch
                             /\ t.at \in Nat
  BY DEF LogInv, LogTasks, Logs!forget, Logs!Task
<1>1. /\ loggedBy' = [loggedBy EXCEPT ![a] = None]
      /\ seenBatches' = {c \in seenBatches : c.id # t.batch.id}
      /\ broken' = IF "duplicate" \in answers[t.batch] THEN broken \union {t.batch} ELSE broken
      /\ UNCHANGED <<now, logRows, quota, answers, alerts>>
  BY <1>t DEF Logs!forget, Logs!Ends, Logs!Forgotten
<1>2. \A d \in LogBatch : Logs!Retained(d) => Logs!Retained(d)'
  BY <1>1 DEF Logs!Retained
<1>3. LogTasks'
  BY <1>1, <1>2, LogTasksKept DEF LogInv, LogTasks
<1>h. \A b, s : HeldBy(a, b, s) <=> (b = t.batch /\ s = t.at)
  BY <1>t, LogNumbers DEF HeldBy
<1>g. /\ \A d \in Attempt : \A b, s : d # a => (HeldBy(d, b, s)' <=> HeldBy(d, b, s))
      /\ \A b, s : ~HeldBy(a, b, s)'
  BY <1>1, HeldNoMore DEF LogInv
<1>o. \A d \in Attempt, s \in Nat : ~HeldBy(d, t.batch, s)'
  BY <1>g, <1>h, <1>t DEF LogInv, ClaimsHeld
<1>i. \A b \in LogBatch : b.id = t.batch.id => b = t.batch
  BY <1>t, LogNumbers
<1>4. ClaimsHeld'
  <2>1. \A c \in seenBatches' : c \in seenBatches
    BY <1>1
  <2>2. ASSUME NEW d \in Attempt, NEW b \in LogBatch, NEW s \in Nat, HeldBy(d, b, s)'
        PROVE  HeldBy(d, b, s) /\ [id |-> b.id, seen |-> s] \in seenBatches'
    <3>1. HeldBy(d, b, s)
      BY <1>g, <2>2
    <3>2. b # t.batch
      BY <1>o, <2>2
    <3>3. PICK c \in seenBatches : c = [id |-> b.id, seen |-> s]
      BY <3>1 DEF LogInv, ClaimsHeld
    <3>4. c.id # t.batch.id
      BY <1>i, <3>2, <3>3
    <3>5. c \in seenBatches'
      BY <1>1, <3>4
    <3> QED
      BY <3>1, <3>3, <3>5
  <2> QED
    BY <2>1, <2>2 DEF LogInv, ClaimsHeld
<1>5. BatchesSafe'
  <2>1. ASSUME NEW b \in LogBatch, b # t.batch, SafeBatch(b)
        PROVE  SafeBatch(b)'
    <3>1. HeldAtAll(b) => HeldAtAll(b)'
      BY <1>g, <1>h, <2>1 DEF HeldAtAll
    <3> QED
      BY <1>1, <1>2, <2>1, <3>1 DEF SafeBatch
  <2>2. "duplicate" \in answers[t.batch] => SafeBatch(t.batch)'
    BY <1>1 DEF SafeBatch
  <2>3. \A c \in seenBatches' : c \in seenBatches /\ c.id # t.batch.id
    BY <1>1
  <2>4. \A c \in seenBatches', b \in LogBatch : b.id = c.id => SafeBatch(b)'
    BY <2>1, <2>3 DEF LogInv, BatchesSafe
  <2>5. ASSUME NEW b \in LogBatch
        PROVE  /\ "accepted" \in answers'[b] => Logs!Retained(b)'
               /\ "duplicate" \in answers'[b] => SafeBatch(b)'
    <3>1. CASE b = t.batch
      BY <1>1, <1>2, <2>2, <3>1 DEF LogInv, BatchesSafe
    <3>2. CASE b # t.batch
      BY <1>1, <1>2, <2>1, <3>2 DEF LogInv, BatchesSafe
    <3> QED
      BY <3>1, <3>2
  <2> QED
    BY <2>4, <2>5 DEF BatchesSafe
<1>6. AlertsLast'
  <2>1. ASSUME NEW x \in alerts
        PROVE  \/ [id |-> x.batch.id, seen |-> x.at] \in seenBatches' /\ ~HeldAtAll(x.batch)'
               \/ /\ now > x.at + ClaimKeep
                  /\ \A d \in Attempt, s \in Nat :
                       HeldBy(d, x.batch, s)' => s > x.at + ClaimKeep - Transit
    <3>x. x.batch \in LogBatch
      BY DEF LogInv, AlertsLast
    <3>1. CASE x.batch = t.batch
      <4>1. HeldAtAll(x.batch)
        BY <1>h, <1>t, <3>1 DEF HeldAtAll
      <4> QED
        BY <1>o, <3>1, <4>1 DEF LogInv, AlertsLast
    <3>2. CASE x.batch # t.batch
      <4>1. \A d \in Attempt, s \in Nat : HeldBy(d, x.batch, s)' => HeldBy(d, x.batch, s)
        BY <1>g
      <4>2. ASSUME [id |-> x.batch.id, seen |-> x.at] \in seenBatches
            PROVE  [id |-> x.batch.id, seen |-> x.at] \in seenBatches'
        <5>1. PICK c \in seenBatches : c = [id |-> x.batch.id, seen |-> x.at]
          BY <4>2
        <5>2. c.id # t.batch.id
          BY <1>i, <3>2, <3>x, <5>1
        <5>3. c \in seenBatches'
          BY <1>1, <5>2
        <5> QED
          BY <5>1, <5>3
      <4> QED
        BY <4>1, <4>2 DEF LogInv, AlertsLast, HeldAtAll
    <3> QED
      BY <3>1, <3>2
  <2> QED
    BY <1>1, <2>1 DEF LogInv, AlertsLast
<1>7. QuotaKept'
  BY <1>1, QuotaEnds DEF LogInv
<1>8. RowsOnce'
  BY <1>1 DEF LogInv, RowsOnce
<1> QED
  BY <1>3, <1>4, <1>5, <1>6, <1>7, <1>8 DEF LogInv

\* A claim whose holder is gone may be of a batch that is nowhere.
LEMMA DiesLogging ==
  ASSUME LogInv, NEW a \in Attempt, Logs!Dies(a)
  PROVE  LogInv'
<1>t. PICK t \in Logs!Task : t = loggedBy[a] /\ t.batch \in LogBatch /\ t.at \in Nat
  BY DEF LogInv, LogTasks, Logs!Dies, Logs!Task
<1> DEFINE held == t.step \in {"store", "respond", "forget"}
<1>1. /\ loggedBy' = [loggedBy EXCEPT ![a] = None]
      /\ held => broken' = broken \union {t.batch}
      /\ ~held => broken' = broken
      /\ UNCHANGED <<now, seenBatches, logRows, quota, answers, alerts>>
  BY <1>t, LogNumbers DEF Logs!Dies, Logs!Ends, Logs!Holds
<1>2. \A d \in LogBatch : Logs!Retained(d) => Logs!Retained(d)'
  BY <1>1 DEF Logs!Retained
<1>3. LogTasks'
  BY <1>1, <1>2, LogTasksKept DEF LogInv, LogTasks
<1>h. \A b, s : HeldBy(a, b, s) <=> (held /\ b = t.batch /\ s = t.at)
  BY <1>t, LogNumbers DEF HeldBy
<1>g. /\ \A d \in Attempt : \A b, s : d # a => (HeldBy(d, b, s)' <=> HeldBy(d, b, s))
      /\ \A b, s : ~HeldBy(a, b, s)'
  BY <1>1, HeldNoMore DEF LogInv
<1>k. \A d \in Attempt, b \in LogBatch, s \in Nat : HeldBy(d, b, s)' => HeldBy(d, b, s)
  BY <1>g
<1>4. ClaimsHeld'
  BY <1>1, <1>k DEF LogInv, ClaimsHeld
<1>5. BatchesSafe'
  <2>1. ASSUME NEW b \in LogBatch, SafeBatch(b)
        PROVE  SafeBatch(b)'
    <3>1. CASE held /\ b = t.batch
      BY <1>1, <3>1 DEF SafeBatch
    <3>2. CASE ~(held /\ b = t.batch)
      <4>1. HeldAtAll(b) => HeldAtAll(b)'
        BY <1>g, <1>h, <3>2 DEF HeldAtAll
      <4>2. broken \subseteq broken'
        BY <1>1
      <4> QED
        BY <1>2, <2>1, <4>1, <4>2 DEF SafeBatch
    <3> QED
      BY <3>1, <3>2
  <2> QED
    BY <1>1, <1>2, <2>1 DEF LogInv, BatchesSafe
<1>6. AlertsLast'
  BY <1>1, <1>k DEF LogInv, AlertsLast, HeldAtAll
<1>7. QuotaKept'
  BY <1>1, QuotaEnds DEF LogInv
<1>8. RowsOnce'
  BY <1>1 DEF LogInv, RowsOnce
<1> QED
  BY <1>3, <1>4, <1>5, <1>6, <1>7, <1>8 DEF LogInv

\* A claim that has expired is nobody's any more: a request is over by then.
LEMMA ClaimExpires ==
  ASSUME LogInv, NEW c \in seenBatches, Logs!ClaimExpired(c),
         seenBatches' = seenBatches \ {c},
         UNCHANGED <<now, loggedBy, logRows, quota, answers, alerts, broken>>
  PROVE  LogInv'
<1>1. \A d \in LogBatch : Logs!Retained(d)' <=> Logs!Retained(d)
  BY DEF Logs!Retained
<1>h. \A d, b, s : HeldBy(d, b, s)' <=> HeldBy(d, b, s)
  BY DEF HeldBy
<1>a. \A b : HeldAtAll(b)' <=> HeldAtAll(b)
  BY <1>h DEF HeldAtAll
<1>c. c.seen \in Nat /\ c = [id |-> c.id, seen |-> c.seen] /\ c.seen + ClaimKeep < now
      /\ now \in Nat
  BY LogNumbers DEF LogInv, LogTasks, ClaimsHeld, Logs!ClaimExpired
<1>2. LogTasks'
  BY <1>1 DEF LogInv, LogTasks, Logs!Task
<1>3. ASSUME NEW d \in Attempt, NEW b \in LogBatch, NEW s \in Nat, HeldBy(d, b, s)
      PROVE  [id |-> b.id, seen |-> s] # c /\ now <= s + Transit
  <2>1. PICK t \in Logs!Task : t = loggedBy[d] /\ t.at = s
    BY <1>3 DEF LogInv, LogTasks, HeldBy
  <2>2. now <= s + Transit
    BY <2>1 DEF LogInv, LogTasks
  <2> QED
    BY <1>c, <2>2, LogNumbers
<1>4. ClaimsHeld'
  BY <1>h, <1>3 DEF LogInv, ClaimsHeld
<1>5. BatchesSafe'
  <2>1. \A b \in LogBatch : SafeBatch(b)' <=> SafeBatch(b)
    BY <1>1, <1>a DEF SafeBatch
  <2> QED
    BY <1>1, <2>1 DEF LogInv, BatchesSafe
<1>6. AlertsLast'
  <2>1. ASSUME NEW x \in alerts
        PROVE  \/ [id |-> x.batch.id, seen |-> x.at] \in seenBatches' /\ ~HeldAtAll(x.batch)
               \/ /\ now > x.at + ClaimKeep
                  /\ \A d \in Attempt, s \in Nat :
                       HeldBy(d, x.batch, s) => s > x.at + ClaimKeep - Transit
    <3>1. CASE [id |-> x.batch.id, seen |-> x.at] = c /\ ~HeldAtAll(x.batch)
      BY <1>c, <3>1, LogNumbers DEF HeldAtAll
    <3>2. CASE ~([id |-> x.batch.id, seen |-> x.at] = c /\ ~HeldAtAll(x.batch))
      BY <3>2 DEF LogInv, AlertsLast
    <3> QED
      BY <3>1, <3>2
  <2> QED
    BY <1>a, <1>h, <2>1 DEF LogInv, AlertsLast
<1>7. QuotaKept'
  BY DEF LogInv, QuotaKept, RowsOf, Reserved, Reserves
<1>8. RowsOnce'
  BY DEF LogInv, RowsOnce
<1> QED
  BY <1>2, <1>4, <1>5, <1>6, <1>7, <1>8 DEF LogInv

\* Logs expire by their own timestamp.
LEMMA RowExpires ==
  ASSUME LogInv, NEW r \in logRows, LogStamp[r.log] < now - LogRetention,
         logRows' = logRows \ {r},
         UNCHANGED <<now, loggedBy, seenBatches, quota, answers, alerts, broken>>
  PROVE  LogInv'
<1>1. ASSUME NEW b \in LogBatch, Logs!Retained(b)
      PROVE  Logs!Retained(b)'
  <2>1. ASSUME NEW l \in b.stored, LogStamp[l] >= now - LogRetention
        PROVE  \E q \in logRows' : q.log = l
    <3>1. PICK q \in logRows : q.log = l
      BY <1>1, <2>1 DEF Logs!Retained
    <3>2. LogStamp[l] \in Int /\ now \in Nat /\ LogRetention \in Nat
      BY LogNumbers DEF LogInv, LogTasks
    <3>3. q # r
      BY <2>1, <3>1, <3>2
    <3> QED
      BY <3>1, <3>3
  <2> QED
    BY <2>1 DEF Logs!Retained
<1>h. \A d, b, s : HeldBy(d, b, s)' <=> HeldBy(d, b, s)
  BY DEF HeldBy
<1>2. LogTasks'
  <2>1. \A t \in Logs!Task : Logs!Retained(t.batch) => Logs!Retained(t.batch)'
    BY <1>1 DEF Logs!Task
  <2> QED
    BY <2>1 DEF LogInv, LogTasks
<1>3. ClaimsHeld' /\ BatchesSafe' /\ AlertsLast'
  BY <1>1, <1>h, ClaimsFrame DEF LogInv
<1>4. QuotaKept'
  <2>1. ASSUME NEW w \in DOMAIN quota
        PROVE  /\ IsFiniteSet(RowsOf(w)')
               /\ Cardinality(RowsOf(w)') + Cardinality(Reserved(w)) <= quota[w]
               /\ Cardinality(RowsOf(w)') + Cardinality(Reserved(w)) <= Quota
    <3>1. /\ quota[w] \in Nat /\ IsFiniteSet(RowsOf(w)) /\ IsFiniteSet(Reserved(w))
          /\ Cardinality(RowsOf(w)) + Cardinality(Reserved(w)) <= quota[w]
          /\ Cardinality(RowsOf(w)) + Cardinality(Reserved(w)) <= Quota
      BY DEF LogInv, QuotaKept
    <3>2. RowsOf(w)' \in SUBSET RowsOf(w)
      BY DEF RowsOf
    <3>3. /\ IsFiniteSet(RowsOf(w)') /\ Cardinality(RowsOf(w)') <= Cardinality(RowsOf(w))
      BY <3>1, <3>2, FS_Subset
    <3>4. /\ Cardinality(RowsOf(w)) \in Nat /\ Cardinality(RowsOf(w)') \in Nat
          /\ Cardinality(Reserved(w)) \in Nat
      BY <3>1, <3>3, FS_CardinalityType
    <3> QED
      BY <3>1, <3>3, <3>4, LogNumbers
  <2>2. \A w : Reserved(w)' = Reserved(w)
    BY DEF Reserved, Reserves
  <2> QED
    BY <2>1, <2>2 DEF LogInv, QuotaKept
<1>5. RowsOnce'
  BY DEF LogInv, RowsOnce
<1> QED
  BY <1>2, <1>3, <1>4, <1>5 DEF LogInv

\* Time passes, but for no request beyond its end.
LEMMA LogTick ==
  ASSUME LogInv, Logs!Tick
  PROVE  LogInv'
<1>1. /\ now' = now + 1 /\ now \in Nat
      /\ \A a \in Attempt : loggedBy[a] # None => now < loggedBy[a].at + Transit
      /\ UNCHANGED <<loggedBy, seenBatches, logRows, quota, answers, alerts, broken>>
  BY DEF LogInv, LogTasks, Logs!Tick
<1>2. ASSUME NEW b \in LogBatch, Logs!Retained(b)
      PROVE  Logs!Retained(b)'
  <2>1. ASSUME NEW l \in b.stored, LogStamp[l] >= now' - LogRetention
        PROVE  \E q \in logRows : q.log = l
    <3>1. LogStamp[l] \in Int /\ LogRetention \in Nat
      BY LogNumbers
    <3>2. LogStamp[l] >= now - LogRetention
      BY <1>1, <2>1, <3>1
    <3> QED
      BY <1>2, <3>2 DEF Logs!Retained
  <2> QED
    BY <1>1, <2>1 DEF Logs!Retained
<1>h. \A d, b, s : HeldBy(d, b, s)' <=> HeldBy(d, b, s)
  BY <1>1 DEF HeldBy
<1>a. \A b : HeldAtAll(b)' <=> HeldAtAll(b)
  BY <1>h DEF HeldAtAll
<1>3. LogTasks'
  <2>1. ASSUME NEW a \in Attempt, NEW t \in Logs!Task, loggedBy[a] = t
        PROVE  /\ t.at <= now' /\ now' <= t.at + Transit
               /\ t.step = "respond" => Logs!Retained(t.batch)'
    <3>1. t.batch \in LogBatch /\ t.at \in Nat
      BY DEF Logs!Task
    <3>2. t.at <= now /\ (t.step = "respond" => Logs!Retained(t.batch))
      BY <2>1 DEF LogInv, LogTasks
    <3>3. now < t.at + Transit
      BY <1>1, <2>1, LogNumbers
    <3> QED
      BY <1>1, <1>2, <3>1, <3>2, <3>3, LogNumbers
  <2> QED
    BY <1>1, <2>1 DEF LogInv, LogTasks
<1>4. ClaimsHeld'
  BY <1>1, <1>h DEF LogInv, ClaimsHeld
<1>5. BatchesSafe'
  <2>1. \A b \in LogBatch : SafeBatch(b) => SafeBatch(b)'
    BY <1>1, <1>2, <1>a DEF SafeBatch
  <2> QED
    BY <1>1, <1>2, <2>1 DEF LogInv, BatchesSafe
<1>6. AlertsLast'
  <2>1. ASSUME NEW x \in alerts
        PROVE  x.at \in Nat /\ (now > x.at + ClaimKeep => now' > x.at + ClaimKeep)
    <3>1. x.at \in Nat
      BY DEF LogInv, AlertsLast
    <3> QED
      BY <1>1, <3>1, LogNumbers
  <2> QED
    BY <1>1, <1>a, <1>h, <2>1 DEF LogInv, AlertsLast
<1>7. QuotaKept'
  BY <1>1 DEF LogInv, QuotaKept, RowsOf, Reserved, Reserves
<1>8. RowsOnce'
  BY <1>1 DEF LogInv, RowsOnce
<1> QED
  BY <1>3, <1>4, <1>5, <1>6, <1>7, <1>8 DEF LogInv

LEMMA LogStep ==
  ASSUME LogInv, Logs!Next
  PROVE  LogInv'
<1>1. ASSUME NEW a \in Attempt, NEW b \in LogBatch, Logs!ingestLogs(a, b)
      PROVE  LogInv'
  BY <1>1, IngestLogs
<1>2. ASSUME NEW a \in Attempt, Logs!consumeBrowserQuota(a)
      PROVE  LogInv'
  BY <1>2, ConsumeQuota
<1>3. ASSUME NEW a \in Attempt, Logs!markSeen(a)
      PROVE  LogInv'
  BY <1>3, MarkDuplicate, MarkClaims
<1>4. ASSUME NEW a \in Attempt, Logs!recordLogs(a)
      PROVE  LogInv'
  BY <1>4, RecordLogs
<1>5. ASSUME NEW a \in Attempt, Logs!respond(a)
      PROVE  LogInv'
  BY <1>5, Respond
<1>6. ASSUME NEW a \in Attempt, Logs!storeFails(a)
      PROVE  LogInv'
  BY <1>6, StoreFails
<1>7. ASSUME NEW a \in Attempt, Logs!forget(a)
      PROVE  LogInv'
  BY <1>7, Forget
<1>8. ASSUME NEW a \in Attempt, Logs!Dies(a)
      PROVE  LogInv'
  BY <1>8, DiesLogging
<1>9. CASE Logs!cleanup
  <2>1. UNCHANGED <<now, loggedBy, quota, answers, alerts, broken>>
    BY <1>9 DEF Logs!cleanup
  <2>2. ASSUME NEW c \in seenBatches, Logs!ClaimExpired(c),
               seenBatches' = seenBatches \ {c}, UNCHANGED logRows
        PROVE  LogInv'
    BY <2>1, <2>2, ClaimExpires
  <2>3. ASSUME NEW r \in logRows, LogStamp[r.log] < now - LogRetention,
               logRows' = logRows \ {r}, UNCHANGED seenBatches
        PROVE  LogInv'
    BY <2>1, <2>3, RowExpires
  <2> QED
    BY <1>9, <2>2, <2>3 DEF Logs!cleanup
<1>10. CASE Logs!Tick
  BY <1>10, LogTick
<1> QED
  BY <1>1, <1>2, <1>3, <1>4, <1>5, <1>6, <1>7, <1>8, <1>9, <1>10 DEF Logs!Next

LEMMA LogsBegin ==
  ASSUME Logs!Init
  PROVE  LogInv
<1>1. /\ now = 0 /\ loggedBy = [a \in Attempt |-> None]
      /\ seenBatches = {} /\ logRows = {} /\ alerts = {} /\ broken = {}
      /\ answers = [b \in LogBatch |-> {}]
      /\ \A w \in DOMAIN quota : quota[w] = 0
  BY DEF Logs!Init
<1>2. \A a, b, s : a \in Attempt => ~HeldBy(a, b, s)
  BY <1>1 DEF HeldBy
<1>3. LogTasks
  BY <1>1, LogNumbers DEF LogTasks
<1>4. ClaimsHeld /\ BatchesSafe /\ AlertsLast /\ RowsOnce
  BY <1>1, <1>2 DEF ClaimsHeld, BatchesSafe, AlertsLast, RowsOnce
<1>5. QuotaKept
  <2>1. \A w : RowsOf(w) = {} /\ Reserved(w) = {}
    BY <1>1 DEF RowsOf, Reserved, Reserves
  <2>2. IsFiniteSet({}) /\ Cardinality({}) = 0
    BY FS_EmptySet
  <2>3. ASSUME NEW w \in DOMAIN quota
        PROVE  /\ quota[w] \in Nat /\ IsFiniteSet(RowsOf(w)) /\ IsFiniteSet(Reserved(w))
               /\ Cardinality(RowsOf(w)) + Cardinality(Reserved(w)) <= quota[w]
               /\ Cardinality(RowsOf(w)) + Cardinality(Reserved(w)) <= Quota
    <3>1. quota[w] = 0 /\ RowsOf(w) = {} /\ Reserved(w) = {}
      BY <1>1, <2>1
    <3>2. 0 + 0 <= 0 /\ 0 + 0 <= Quota /\ 0 \in Nat
      BY LogNumbers
    <3> HIDE DEF Reserved, RowsOf
    <3> QED
      BY <2>2, <3>1, <3>2
  <2> QED
    BY <2>3 DEF QuotaKept
<1> QED
  BY <1>3, <1>4, <1>5 DEF LogInv

LogsIngested ==
  Logs!Lasting /\ Logs!StoredOnce /\ Logs!AlertedOnce /\ Logs!WithinQuota

LEMMA LogInvEnough ==
  ASSUME LogInv
  PROVE  LogsIngested
<1>1. Logs!Lasting
  <2>1. ASSUME NEW b \in LogBatch, HeldAtAll(b)
        PROVE  \E a \in Attempt : Logs!Holds(a) /\ loggedBy[a].batch.id = b.id
    BY <2>1 DEF HeldAtAll, HeldBy, Logs!Holds
  <2> QED
    BY <2>1 DEF LogInv, BatchesSafe, SafeBatch, Logs!Lasting
<1>2. Logs!StoredOnce
  BY DEF LogInv, RowsOnce, Logs!StoredOnce
<1>3. Logs!AlertedOnce
  BY DEF LogInv, AlertsLast, Logs!AlertedOnce
<1>4. Logs!WithinQuota
  <2>1. ASSUME NEW w \in DOMAIN quota
        PROVE  Cardinality(RowsOf(w)) <= Quota
    <3>1. /\ IsFiniteSet(RowsOf(w)) /\ IsFiniteSet(Reserved(w))
          /\ Cardinality(RowsOf(w)) + Cardinality(Reserved(w)) <= Quota
      BY DEF LogInv, QuotaKept
    <3>2. Cardinality(RowsOf(w)) \in Nat /\ Cardinality(Reserved(w)) \in Nat
      BY <3>1, FS_CardinalityType
    <3> QED
      BY <3>1, <3>2, LogNumbers
  <2> QED
    BY <2>1, LogsCount DEF RowsOf, Logs!WithinQuota
<1> QED
  BY <1>1, <1>2, <1>3, <1>4 DEF LogsIngested

-----------------------------------------------------------------------------
\* The tables that the other parts leave empty.
EndpointsUnused ==
  environments = {} /\ countedFor = {} /\ DOMAIN counted = {}

LogsUnused ==
  answers = [b \in LogBatch |-> {}] /\ logRows = {} /\ alerts = {}

LEMMA UnusedIngested ==
  ASSUME TRUE
  PROVE  /\ EndpointsUnused => EndpointsIngested
         /\ LogsUnused => LogsIngested
<1>1. ASSUME EndpointsUnused
      PROVE  EndpointsIngested
  <2>1. Endpoints!EnvironmentsBounded
    <3>1. Cardinality({}) <= MaxEnvironments
      BY FS_EmptySet, EndpointScale
    <3> QED
      BY <1>1, <3>1, EndpointsCount DEF EndpointsUnused, Endpoints!EnvironmentsBounded
  <2>2. Endpoints!NeverTwice /\ Endpoints!AnsweredCounted
    BY <1>1 DEF EndpointsUnused, Endpoints!NeverTwice, Endpoints!AnsweredCounted,
                Endpoints!BagIn, Endpoints!BagToSet
  <2> QED
    BY <2>1, <2>2 DEF EndpointsIngested
<1>2. ASSUME LogsUnused
      PROVE  LogsIngested
  <2>1. Logs!Lasting /\ Logs!StoredOnce /\ Logs!AlertedOnce
    BY <1>2 DEF LogsUnused, Logs!Lasting, Logs!StoredOnce, Logs!AlertedOnce
  <2>2. Logs!WithinQuota
    <3>1. \A w : {r \in logRows : r.browser /\ r.window = w} = {}
      BY <1>2 DEF LogsUnused
    <3>2. Cardinality({}) <= Quota
      BY FS_EmptySet, LogNumbers
    <3> QED
      BY <3>1, <3>2, LogsCount DEF Logs!WithinQuota
  <2> QED
    BY <2>1, <2>2 DEF LogsIngested
<1> QED
  BY <1>1, <1>2

\* For any batches, numbers of requests and limits: endpoint events are counted
\* once, and what is counted is in the inventory and, until failures of its age
\* are deleted, among the failures; what the routes store of accepted logs lasts
\* until it expires, and is stored and alerted once, within the quota.
THEOREM IngestedAlways == StoresSpec => []Ingested
<1> DEFINE storesVars ==
      <<part, vars, auditVars, presenceVars, accessVars, setupVars, paymentVars,
        endpointVars, logVars, source>>
<1> DEFINE Inv ==
      /\ part = "endpoints" => EndpointInv
      /\ part # "endpoints" => EndpointsUnused
      /\ part = "logs" => LogInv
      /\ part # "logs" => LogsUnused
<1>1. StoresInit => Inv
  <2> SUFFICES ASSUME StoresInit
               PROVE  Inv
    OBVIOUS
  <2>1. Endpoints!Init /\ Logs!Init
    BY DEF StoresInit
  <2>2. EndpointInv /\ LogInv
    BY <2>1, EndpointsBegin, LogsBegin
  <2>3. EndpointsUnused /\ LogsUnused
    BY <2>1 DEF Endpoints!Init, Endpoints!EmptyBag, Endpoints!SetToBag, Logs!Init,
                EndpointsUnused, LogsUnused
  <2> QED
    BY <2>2, <2>3
<1>2. Inv /\ [StoresNext]_storesVars => Inv'
  <2> SUFFICES ASSUME Inv, [StoresNext]_storesVars
               PROVE  Inv'
    OBVIOUS
  <2>1. part' = part
    BY DEF StoresNext
  <2>2. CASE part = "endpoints"
    <3>1. EndpointInv'
      <4>1. CASE StoresNext
        <5>1. Endpoints!Next
          BY <2>2, <4>1 DEF StoresNext
        <5> QED
          BY <2>2, <5>1, EndpointStep
      <4>2. CASE UNCHANGED storesVars
        <5>1. UNCHANGED <<now, environments, deliveredBy, observed, endpointReceipts,
                          counted, countedFor>>
          BY <4>2 DEF vars, endpointVars
        <5> QED
          BY <2>2, <5>1
            DEF EndpointInv, TasksOK, TaskOK, CountedKept, ReceiptsBacked, CountedSeen,
                AnsweredKept, WithinLimit
      <4> QED
        BY <4>1, <4>2
    <3>2. UNCHANGED logVars
      BY <2>2 DEF StoresNext, Still
    <3> QED
      BY <2>1, <2>2, <3>1, <3>2 DEF LogsUnused, logVars
  <2>3. CASE part = "logs"
    <3>1. LogInv'
      <4>1. CASE StoresNext
        <5>1. Logs!Next
          BY <2>3, <4>1 DEF StoresNext
        <5> QED
          BY <2>3, <5>1, LogStep
      <4>2. CASE UNCHANGED storesVars
        <5>1. UNCHANGED <<now, loggedBy, seenBatches, logRows, quota, answers, alerts, broken>>
          BY <4>2 DEF vars, logVars
        <5>2. \A b : Logs!Retained(b)' <=> Logs!Retained(b)
          BY <5>1 DEF Logs!Retained
        <5>3. \A d, b, s : HeldBy(d, b, s)' <=> HeldBy(d, b, s)
          BY <5>1 DEF HeldBy
        <5>4. LogTasks'
          BY <2>3, <5>1, <5>2 DEF LogInv, LogTasks
        <5>5. ClaimsHeld' /\ BatchesSafe' /\ AlertsLast'
          BY <2>3, <5>1, <5>2, <5>3, ClaimsFrame DEF LogInv
        <5>6. RowsOnce' /\ QuotaKept'
          BY <2>3, <5>1 DEF LogInv, RowsOnce, QuotaKept, RowsOf, Reserved, Reserves
        <5> QED
          BY <5>4, <5>5, <5>6 DEF LogInv
      <4> QED
        BY <4>1, <4>2
    <3>2. UNCHANGED endpointVars
      BY <2>3 DEF StoresNext, Still
    <3> QED
      BY <2>1, <2>3, <3>1, <3>2 DEF EndpointsUnused, endpointVars
  <2>4. CASE part # "endpoints" /\ part # "logs"
    <3>1. UNCHANGED <<endpointVars, logVars>>
      BY <2>4 DEF StoresNext, Still
    <3> QED
      BY <2>1, <2>4, <3>1 DEF EndpointsUnused, LogsUnused, endpointVars, logVars
  <2> QED
    BY <2>2, <2>3, <2>4
<1>3. Inv => Ingested
  <2>1. Inv => EndpointsIngested /\ LogsIngested
    BY EndpointInvEnough, LogInvEnough, UnusedIngested
  <2> QED
    BY <2>1 DEF EndpointsIngested, LogsIngested, Ingested
<1> QED
  BY <1>1, <1>2, <1>3, PTL DEF StoresSpec
-----------------------------------------------------------------------------
(* Members of a workspace.                                                 *)

\* The tables hold rows.
AccessTypes ==
  /\ now \in Nat
  /\ members \in [Guest -> Access!Role \union {None}]
  /\ invites \in [Invite -> Access!Invitation \union {None}]
  /\ granted \in [Guest -> SUBSET Access!Role]
  /\ spent \in [Guest -> SUBSET Invite]

\* The invitations that can be accepted are finitely many and within their
\* limit, whatever there are, and so are the members.
OpenNow == {i \in Invite : Access!Pending(i)}
Joined == {u \in Guest : members[u] # None}

AccessLimits ==
  /\ IsFiniteSet(OpenNow) /\ Cardinality(OpenNow) <= OpenInvites
  /\ IsFiniteSet(Joined) /\ Cardinality(Joined) <= Seats

\* What was spent when a member was removed had been accepted by it, so that
\* nothing that can still be accepted is spent.
SpentAccepted ==
  \A u \in Guest : \A i \in spent[u] : invites[i] # None /\ invites[i].by = u

\* Somebody who is no member has been granted nothing.
NothingGranted == \A u \in Guest : members[u] = None => granted[u] = {}

AccessInv ==
  /\ AccessTypes /\ AccessLimits /\ SpentAccepted /\ NothingGranted
  /\ Access!Admitted /\ Access!RolesGranted
-----------------------------------------------------------------------------
LEMMA AccessNumbers ==
  /\ Seats \in Nat /\ OpenInvites \in Nat /\ Life \in Nat
  /\ None \notin Guest /\ None \notin Access!Role /\ None \notin Access!Invitation
BY StoreScales DEF Access!AccessScale

LEMMA AccessCount ==
  ASSUME NEW S
  PROVE  Access!Cardinality(S) = Cardinality(S)
  BY DEF Access!Cardinality, Cardinality

\* A subset of a set within a limit is within the limit.
LEMMA WithinFewer ==
  ASSUME NEW S, IsFiniteSet(S), NEW T \in SUBSET S, NEW k \in Nat, Cardinality(S) <= k
  PROVE  IsFiniteSet(T) /\ Cardinality(T) <= k
<1>1. IsFiniteSet(T) /\ Cardinality(T) <= Cardinality(S)
  BY FS_Subset
<1>2. Cardinality(T) \in Nat /\ Cardinality(S) \in Nat
  BY <1>1, FS_CardinalityType
<1> QED
  BY <1>1, <1>2

\* A set below a limit has room for one more.
LEMMA WithinOneMore ==
  ASSUME NEW S, IsFiniteSet(S), NEW e, NEW T \in SUBSET (S \union {e}),
         NEW k \in Nat, Cardinality(S) < k
  PROVE  IsFiniteSet(T) /\ Cardinality(T) <= k
<1>1. /\ IsFiniteSet(S \union {e})
      /\ \/ Cardinality(S \union {e}) = Cardinality(S)
         \/ Cardinality(S \union {e}) = Cardinality(S) + 1
  BY FS_AddElement
<1>2. Cardinality(S) \in Nat
  BY FS_CardinalityType
<1>3. Cardinality(S \union {e}) <= k
  BY <1>1, <1>2
<1> QED
  BY <1>1, <1>3, WithinFewer

\* An invitation is added to those that can be accepted while there is room.
LEMMA CreateInvite ==
  ASSUME AccessInv, NEW i \in Invite, NEW u \in Guest, NEW role \in Access!Role,
         Access!createInvite(i, u, role)
  PROVE  AccessInv'
<1> DEFINE n == [email |-> u, role |-> role, expires |-> now + Life, revoked |-> FALSE,
                 by |-> None]
<1>1. /\ invites' = [invites EXCEPT ![i] = n] /\ invites[i] = None
      /\ UNCHANGED <<now, members, granted, spent>>
  BY DEF Access!createInvite
<1>2. n \in Access!Invitation /\ n # None
  <2>1. now + Life \in Nat
    BY AccessNumbers DEF AccessInv, AccessTypes
  <2>2. n \in Access!Invitation
    BY <2>1 DEF Access!Invitation
  <2> QED
    BY <2>2, AccessNumbers
<1> HIDE DEF n
<1>3. AccessTypes'
  BY <1>1, <1>2 DEF AccessInv, AccessTypes
<1>4. \A j \in Invite : j # i => invites'[j] = invites[j]
  BY <1>1 DEF AccessInv, AccessTypes
<1>5. AccessLimits'
  <2>1. Cardinality(OpenNow) < OpenInvites
    BY AccessCount DEF Access!createInvite, Access!Issuable, OpenNow
  <2>2. OpenNow' \in SUBSET (OpenNow \union {i})
    BY <1>1, <1>4 DEF OpenNow, Access!Pending
  <2>3. IsFiniteSet(OpenNow)' /\ (Cardinality(OpenNow) <= OpenInvites)'
    BY <2>1, <2>2, WithinOneMore, AccessNumbers DEF AccessInv, AccessLimits
  <2>4. Joined' = Joined
    BY <1>1 DEF Joined
  <2> QED
    BY <2>3, <2>4 DEF AccessInv, AccessLimits
<1>6. \A v \in Guest : \A j \in Invite : invites[j] # None => j # i
  BY <1>1
<1>7. SpentAccepted' /\ NothingGranted'
  <2>1. \A v \in Guest : spent[v] \subseteq Invite
    BY DEF AccessInv, AccessTypes
  <2> QED
    BY <1>1, <1>4, <2>1 DEF AccessInv, SpentAccepted, NothingGranted
<1>8. Access!Admitted'
  <2> SUFFICES ASSUME NEW v \in Guest, members'[v] # None
               PROVE  \E j \in Invite \ spent'[v] :
                        invites'[j] # None /\ invites'[j].by = v /\ invites'[j].email = v
    BY DEF Access!Admitted
  <2>1. PICK j \in Invite \ spent[v] :
          invites[j] # None /\ invites[j].by = v /\ invites[j].email = v
    BY <1>1 DEF AccessInv, Access!Admitted
  <2> QED
    BY <1>1, <1>4, <2>1
<1>9. Access!RolesGranted'
  BY <1>1 DEF AccessInv, Access!RolesGranted
<1> QED
  BY <1>3, <1>5, <1>7, <1>8, <1>9 DEF AccessInv

LEMMA RevokeInvite ==
  ASSUME AccessInv, NEW i \in Invite, Access!revokeInvite(i)
  PROVE  AccessInv'
<1>1. PICK o \in Access!Invitation : o = invites[i]
  BY DEF Access!revokeInvite, AccessInv, AccessTypes
<1>2. PICK n \in Access!Invitation : n = [o EXCEPT !.revoked = TRUE]
  BY <1>1 DEF Access!Invitation
<1>3. n.revoked /\ n.by = o.by /\ n.email = o.email /\ n # None
  BY <1>2, AccessNumbers DEF Access!Invitation
<1>4. /\ invites' = [invites EXCEPT ![i] = n]
      /\ UNCHANGED <<now, members, granted, spent>>
  BY <1>1, <1>2 DEF Access!revokeInvite
<1>5. AccessTypes' /\ invites'[i] = n
  BY <1>4 DEF AccessInv, AccessTypes
<1>6. \A j \in Invite : j # i => invites'[j] = invites[j]
  BY <1>4 DEF AccessInv, AccessTypes
<1>7. AccessLimits'
  <2>1. OpenNow' \in SUBSET OpenNow
    BY <1>3, <1>4, <1>5, <1>6 DEF OpenNow, Access!Pending
  <2>2. Joined' = Joined
    BY <1>4 DEF Joined
  <2> QED
    BY <2>1, <2>2, WithinFewer, AccessNumbers DEF AccessInv, AccessLimits
<1>8. \A j \in Invite : invites[j] # None =>
        /\ invites'[j] # None
        /\ invites'[j].by = invites[j].by /\ invites'[j].email = invites[j].email
  BY <1>1, <1>3, <1>5, <1>6
<1>9. SpentAccepted' /\ NothingGranted'
  <2>1. \A v \in Guest : spent[v] \subseteq Invite
    BY DEF AccessInv, AccessTypes
  <2> QED
    BY <1>4, <1>8, <2>1 DEF AccessInv, SpentAccepted, NothingGranted
<1>10. Access!Admitted' /\ Access!RolesGranted'
  BY <1>4, <1>8 DEF AccessInv, Access!Admitted, Access!RolesGranted
<1> QED
  BY <1>5, <1>7, <1>9, <1>10 DEF AccessInv

\* A guest takes a seat that is free or its own; its invitation cannot be
\* accepted any more, was not spent, and its role is the highest it was given.
LEMMA AcceptInvite ==
  ASSUME AccessInv, NEW i \in Invite, NEW u \in Guest, Access!acceptInvite(i, u)
  PROVE  AccessInv'
<1>1. PICK o \in Access!Invitation : o = invites[i]
  BY DEF Access!acceptInvite, Access!Eligible, Access!Pending, AccessInv, AccessTypes
<1>2. PICK n \in Access!Invitation : n = [o EXCEPT !.by = u]
  BY <1>1 DEF Access!Invitation
<1>3. /\ n.by = u /\ n.email = u /\ n # None /\ u # None
      /\ o.by = None /\ o.role \in Access!Role
  BY <1>1, <1>2, AccessNumbers
    DEF Access!Invitation, Access!acceptInvite, Access!Eligible, Access!Pending
<1>r. PICK role \in Access!Role :
        role = IF members[u] = "editor" THEN "editor" ELSE o.role
  BY <1>3 DEF Access!Role
<1>4. /\ invites' = [invites EXCEPT ![i] = n]
      /\ members' = [members EXCEPT ![u] = role]
      /\ granted' = [granted EXCEPT ![u] = granted[u] \union {o.role}]
      /\ UNCHANGED <<now, spent>>
  BY <1>1, <1>2, <1>r DEF Access!acceptInvite, Access!RoleFrom, AccessInv, AccessTypes
<1>5. AccessTypes' /\ invites'[i] = n /\ members'[u] = role
  BY <1>3, <1>4 DEF AccessInv, AccessTypes
<1>6. /\ \A j \in Invite : j # i => invites'[j] = invites[j]
      /\ \A v \in Guest : v # u => members'[v] = members[v] /\ granted'[v] = granted[v]
      /\ granted'[u] = granted[u] \union {o.role}
  BY <1>4 DEF AccessInv, AccessTypes
<1>7. AccessLimits'
  <2>1. OpenNow' \in SUBSET OpenNow
    BY <1>3, <1>4, <1>5, <1>6 DEF OpenNow, Access!Pending
  <2>2. IsFiniteSet(Joined') /\ Cardinality(Joined') <= Seats
    <3>1. CASE members[u] # None
      <4>1. Joined' \in SUBSET Joined
        BY <1>6, <3>1 DEF Joined
      <4> QED
        BY <4>1, WithinFewer, AccessNumbers DEF AccessInv, AccessLimits
    <3>2. CASE members[u] = None
      <4>1. Joined' \in SUBSET (Joined \union {u})
        BY <1>6 DEF Joined
      <4>2. Cardinality(Joined) < Seats
        BY <3>2, AccessCount DEF Access!acceptInvite, Access!Seated, Joined
      <4> QED
        BY <4>1, <4>2, WithinOneMore, AccessNumbers DEF AccessInv, AccessLimits
    <3> QED
      BY <3>1, <3>2
  <2> QED
    BY <2>1, <2>2, WithinFewer, AccessNumbers DEF AccessInv, AccessLimits
<1>8. \A v \in Guest : i \notin spent[v]
  BY <1>1, <1>3, AccessNumbers DEF AccessInv, SpentAccepted
<1>9. SpentAccepted'
  <2>1. \A v \in Guest : spent[v] \subseteq Invite
    BY DEF AccessInv, AccessTypes
  <2> QED
    BY <1>4, <1>6, <1>8, <2>1 DEF AccessInv, SpentAccepted
<1>10. NothingGranted'
  BY <1>5, <1>6, AccessNumbers DEF AccessInv, NothingGranted
<1>11. Access!Admitted'
  <2> SUFFICES ASSUME NEW v \in Guest, members'[v] # None
               PROVE  \E j \in Invite \ spent'[v] :
                        invites'[j] # None /\ invites'[j].by = v /\ invites'[j].email = v
    BY DEF Access!Admitted
  <2>1. CASE v = u
    BY <1>3, <1>4, <1>5, <1>8, <2>1
  <2>2. CASE v # u
    <3>1. PICK j \in Invite \ spent[v] :
            invites[j] # None /\ invites[j].by = v /\ invites[j].email = v
      BY <1>6, <2>2 DEF AccessInv, Access!Admitted
    <3>2. j # i
      BY <1>1, <1>3, <3>1, AccessNumbers
    <3> QED
      BY <1>4, <1>6, <3>1, <3>2
  <2> QED
    BY <2>1, <2>2
<1>12. Access!RolesGranted'
  <2> SUFFICES ASSUME NEW v \in Guest, members'[v] # None
               PROVE  members'[v] = "editor" <=> "editor" \in granted'[v]
    BY DEF Access!RolesGranted
  <2>1. CASE v = u
    <3>1. CASE members[u] = None
      BY <1>5, <1>6, <1>r, <2>1, <3>1, AccessNumbers
        DEF AccessInv, NothingGranted, Access!Role
    <3>2. CASE members[u] # None
      BY <1>5, <1>6, <1>r, <2>1, <3>2 DEF AccessInv, Access!RolesGranted
    <3> QED
      BY <3>1, <3>2
  <2>2. CASE v # u
    BY <1>6, <2>2 DEF AccessInv, Access!RolesGranted
  <2> QED
    BY <2>1, <2>2
<1> QED
  BY <1>5, <1>7, <1>9, <1>10, <1>11, <1>12 DEF AccessInv

\* With its seat a member loses its roles, and what it accepted is spent.
LEMMA MemberLeaves ==
  ASSUME AccessInv, NEW u \in Guest, Access!removeMember(u)
  PROVE  AccessInv'
<1> DEFINE used == {i \in Invite : invites[i] # None /\ invites[i].by = u}
<1>1. /\ members' = [members EXCEPT ![u] = None]
      /\ granted' = [granted EXCEPT ![u] = {}]
      /\ spent' = [spent EXCEPT ![u] = used]
      /\ UNCHANGED <<now, invites>>
  BY DEF Access!removeMember
<1>2. AccessTypes'
  BY <1>1 DEF AccessInv, AccessTypes
<1>3. /\ members'[u] = None /\ granted'[u] = {} /\ spent'[u] = used
      /\ \A v \in Guest : v # u =>
           members'[v] = members[v] /\ granted'[v] = granted[v] /\ spent'[v] = spent[v]
  BY <1>1 DEF AccessInv, AccessTypes
<1>4. AccessLimits'
  <2>1. OpenNow' = OpenNow
    BY <1>1 DEF OpenNow, Access!Pending
  <2>2. Joined' \in SUBSET Joined
    BY <1>3 DEF Joined
  <2> QED
    BY <2>1, <2>2, WithinFewer, AccessNumbers DEF AccessInv, AccessLimits
<1>5. SpentAccepted' /\ NothingGranted'
  BY <1>1, <1>3 DEF AccessInv, SpentAccepted, NothingGranted
<1>6. Access!Admitted' /\ Access!RolesGranted'
  BY <1>1, <1>3 DEF AccessInv, Access!Admitted, Access!RolesGranted
<1> QED
  BY <1>2, <1>4, <1>5, <1>6 DEF AccessInv

LEMMA SetRole ==
  ASSUME AccessInv, NEW u \in Guest, NEW role \in Access!Role, Access!setRole(u, role)
  PROVE  AccessInv'
<1>1. /\ members[u] # None /\ members' = [members EXCEPT ![u] = role]
      /\ granted' = [granted EXCEPT ![u] = {role}]
      /\ UNCHANGED <<now, invites, spent>>
  BY DEF Access!setRole
<1>2. AccessTypes' /\ role # None
  BY <1>1, AccessNumbers DEF AccessInv, AccessTypes
<1>3. /\ members'[u] = role /\ granted'[u] = {role}
      /\ \A v \in Guest : v # u => members'[v] = members[v] /\ granted'[v] = granted[v]
  BY <1>1 DEF AccessInv, AccessTypes
<1>4. AccessLimits'
  <2>1. OpenNow' = OpenNow /\ Joined' = Joined
    BY <1>1, <1>2, <1>3 DEF OpenNow, Access!Pending, Joined
  <2> QED
    BY <2>1 DEF AccessInv, AccessLimits
<1>5. SpentAccepted' /\ NothingGranted'
  BY <1>1, <1>2, <1>3 DEF AccessInv, SpentAccepted, NothingGranted
<1>6. Access!Admitted'
  BY <1>1, <1>3 DEF AccessInv, Access!Admitted
<1>7. Access!RolesGranted'
  BY <1>3 DEF AccessInv, Access!RolesGranted
<1> QED
  BY <1>2, <1>4, <1>5, <1>6, <1>7 DEF AccessInv

\* With time invitations only end.
LEMMA AccessTick ==
  ASSUME AccessInv, Access!Tick
  PROVE  AccessInv'
<1>1. now' = now + 1 /\ now \in Nat /\ UNCHANGED <<members, invites, granted, spent>>
  BY DEF Access!Tick, AccessInv, AccessTypes
<1>2. AccessTypes'
  BY <1>1 DEF AccessInv, AccessTypes
<1>3. AccessLimits'
  <2>1. \A i \in Invite : Access!Pending(i)' => Access!Pending(i)
    <3> SUFFICES ASSUME NEW i \in Invite, Access!Pending(i)'
                 PROVE  Access!Pending(i)
      OBVIOUS
    <3>1. invites[i].expires \in Nat
      BY <1>1 DEF Access!Pending, AccessInv, AccessTypes, Access!Invitation
    <3> QED
      BY <1>1, <3>1 DEF Access!Pending
  <2>2. OpenNow' \in SUBSET OpenNow /\ Joined' = Joined
    BY <1>1, <2>1 DEF OpenNow, Joined
  <2> QED
    BY <2>2, WithinFewer, AccessNumbers DEF AccessInv, AccessLimits
<1>4. SpentAccepted' /\ NothingGranted'
  BY <1>1 DEF AccessInv, SpentAccepted, NothingGranted
<1>5. Access!Admitted' /\ Access!RolesGranted'
  BY <1>1 DEF AccessInv, Access!Admitted, Access!RolesGranted
<1> QED
  BY <1>2, <1>3, <1>4, <1>5 DEF AccessInv

LEMMA AccessStep ==
  ASSUME AccessInv, Access!Next
  PROVE  AccessInv'
<1>1. ASSUME NEW i \in Invite, NEW u \in Guest, NEW role \in Access!Role,
             Access!createInvite(i, u, role)
      PROVE  AccessInv'
  BY <1>1, CreateInvite
<1>2. ASSUME NEW i \in Invite, NEW u \in Guest, Access!acceptInvite(i, u)
      PROVE  AccessInv'
  BY <1>2, AcceptInvite
<1>3. ASSUME NEW i \in Invite, Access!revokeInvite(i)
      PROVE  AccessInv'
  BY <1>3, RevokeInvite
<1>4. ASSUME NEW u \in Guest, Access!removeMember(u)
      PROVE  AccessInv'
  BY <1>4, MemberLeaves
<1>5. ASSUME NEW u \in Guest, NEW role \in Access!Role, Access!setRole(u, role)
      PROVE  AccessInv'
  BY <1>5, SetRole
<1> QED
  BY <1>1, <1>2, <1>3, <1>4, <1>5, AccessTick DEF Access!Next

\* Nobody is invited or a member of the workspace yet.
NobodyIn ==
  /\ members = [u \in Guest |-> None]
  /\ invites = [i \in Invite |-> None]

LEMMA NobodyInLimits ==
  ASSUME NobodyIn
  PROVE  OpenNow = {} /\ Joined = {} /\ Access!InLimits
<1>1. OpenNow = {} /\ Joined = {}
  BY DEF NobodyIn, OpenNow, Joined, Access!Pending
<1>2. Cardinality({}) <= OpenInvites /\ Cardinality({}) <= Seats
  BY FS_EmptySet, AccessNumbers
<1>3. Access!InLimits
  BY <1>1, <1>2, AccessCount DEF Access!InLimits, OpenNow, Joined
<1> QED
  BY <1>1, <1>3

LEMMA AccessBegins ==
  ASSUME Access!Init, now \in Nat
  PROVE  AccessInv /\ NobodyIn
<1>1. NobodyIn
  BY DEF Access!Init, NobodyIn
<1>2. AccessTypes
  BY AccessNumbers DEF Access!Init, AccessTypes
<1>3. AccessLimits
  <2>1. Cardinality({}) <= OpenInvites /\ Cardinality({}) <= Seats /\ IsFiniteSet({})
    BY FS_EmptySet, AccessNumbers
  <2> QED
    BY <1>1, <2>1, NobodyInLimits DEF AccessLimits
<1>4. SpentAccepted /\ NothingGranted
  BY DEF Access!Init, SpentAccepted, NothingGranted
<1>5. Access!Admitted /\ Access!RolesGranted
  BY DEF Access!Init, Access!Admitted, Access!RolesGranted
<1> QED
  BY <1>1, <1>2, <1>3, <1>4, <1>5 DEF AccessInv

LEMMA AccessEnough ==
  /\ AccessInv => Access!InLimits /\ Access!Admitted /\ Access!RolesGranted
  /\ NobodyIn => Access!InLimits /\ Access!Admitted /\ Access!RolesGranted
<1>1. ASSUME AccessInv
      PROVE  Access!InLimits
  BY <1>1, AccessCount DEF AccessInv, AccessLimits, OpenNow, Joined, Access!InLimits
<1>2. ASSUME NobodyIn
      PROVE  Access!Admitted /\ Access!RolesGranted
  BY <1>2 DEF NobodyIn, Access!Admitted, Access!RolesGranted
<1> QED
  BY <1>1, <1>2, NobodyInLimits DEF AccessInv
-----------------------------------------------------------------------------
(* First sessions.                                                         *)

\* Where a request of a first session may be.
Places == {"start", "missing", "insert", "inserted", "ignored", "done"}

\* Of the requests of an owner one at most has inserted the workspace and not
\* reported it yet; until it does nothing was reported.
FirstTypes ==
  /\ first \in [Owner -> [First -> Places]]
  /\ signups \in [Owner -> {0, 1}]

SignupFor(u) ==
  /\ signups[u] = 1 => u \in workspace
  /\ \A r \in First : first[u][r] = "inserted" => u \in workspace /\ signups[u] = 0
  /\ \A r, s \in First : first[u][r] = "inserted" /\ first[u][s] = "inserted" => r = s

SignupInv == FirstTypes /\ \A u \in Owner : SignupFor(u)

\* A request goes on and the others stay where they are.
LEMMA RequestGoes ==
  ASSUME FirstTypes, NEW u \in Owner, NEW r \in First, NEW to \in Places,
         first' = [first EXCEPT ![u][r] = to]
  PROVE  /\ first' \in [Owner -> [First -> Places]]
         /\ first'[u][r] = to
         /\ \A s \in First : s # r => first'[u][s] = first[u][s]
         /\ \A v \in Owner : v # u => first'[v] = first[v]
<1>1. PICK f \in [First -> Places] : f = first[u]
  BY DEF FirstTypes
<1>2. PICK g \in [First -> Places] : g = [f EXCEPT ![r] = to]
  OBVIOUS
<1>3. first' = [first EXCEPT ![u] = g]
  BY <1>1, <1>2 DEF FirstTypes
<1>4. g[r] = to /\ \A s \in First : s # r => g[s] = f[s]
  BY <1>2
<1> QED
  BY <1>1, <1>3, <1>4 DEF FirstTypes

\* A request that goes on without inserting or reporting.
LEMMA SignupKept ==
  ASSUME SignupInv, NEW u \in Owner, NEW r \in First, NEW to \in Places \ {"inserted"},
         first' = [first EXCEPT ![u][r] = to], UNCHANGED <<workspace, signups>>
  PROVE  SignupInv'
<1>1. FirstTypes'
  BY RequestGoes DEF SignupInv, FirstTypes
<1>2. ASSUME NEW v \in Owner
      PROVE  SignupFor(v)'
  <2>1. \A s \in First : first'[v][s] = "inserted" => first[v][s] = "inserted"
    BY RequestGoes DEF SignupInv
  <2> QED
    BY <2>1 DEF SignupInv, SignupFor
<1> QED
  BY <1>1, <1>2 DEF SignupInv

LEMMA ReadWorkspace ==
  ASSUME SignupInv, NEW u \in Owner, NEW r \in First, Setup!readWorkspace(u, r)
  PROVE  SignupInv'
<1>1. PICK to \in {"done", "missing", "insert"} :
        first' = [first EXCEPT ![u][r] = to]
  BY DEF Setup!readWorkspace, Setup!At
<1>2. to \in Places \ {"inserted"}
  BY DEF Places
<1> QED
  BY <1>1, <1>2, SignupKept DEF Setup!readWorkspace

LEMMA RequestDies ==
  ASSUME SignupInv, NEW u \in Owner, NEW r \in First, Setup!Dies(u, r)
  PROVE  SignupInv'
<1>1. "done" \in Places \ {"inserted"}
  BY DEF Places
<1> QED
  BY <1>1, SignupKept DEF Setup!Dies

\* Only a request that finds no workspace inserts one, and before there is one
\* nobody has.
LEMMA InsertWorkspace ==
  ASSUME SignupInv, NEW u \in Owner, NEW r \in First, Setup!insertWorkspace(u, r)
  PROVE  SignupInv'
<1>1. PICK to \in Places :
        /\ to = IF u \in workspace THEN "ignored" ELSE "inserted"
        /\ first' = [first EXCEPT ![u][r] = to]
  BY DEF Setup!insertWorkspace, Setup!At, Places
<1>2. workspace' = workspace \union {u} /\ UNCHANGED signups
  BY DEF Setup!insertWorkspace
<1>3. FirstTypes'
  BY <1>1, <1>2, RequestGoes DEF SignupInv, FirstTypes
<1>4. ASSUME NEW v \in Owner
      PROVE  SignupFor(v)'
  <2>1. CASE v # u
    <3>1. first'[v] = first[v]
      BY <1>1, <2>1, RequestGoes DEF SignupInv
    <3> QED
      BY <1>2, <2>1, <3>1 DEF SignupInv, SignupFor
  <2>2. CASE v = u /\ u \in workspace
    <3>1. \A s \in First : first'[u][s] = "inserted" => first[u][s] = "inserted"
      BY <1>1, <2>2, RequestGoes DEF SignupInv
    <3> QED
      BY <1>2, <2>2, <3>1 DEF SignupInv, SignupFor
  <2>3. CASE v = u /\ u \notin workspace
    <3>1. signups[u] = 0 /\ \A s \in First : first[u][s] # "inserted"
      BY <2>3 DEF SignupInv, SignupFor, FirstTypes
    <3>2. \A s \in First : first'[u][s] = "inserted" => s = r
      BY <1>1, <3>1, RequestGoes DEF SignupInv
    <3> QED
      BY <1>2, <2>3, <3>1, <3>2 DEF SignupFor
  <2> QED
    BY <2>1, <2>2, <2>3
<1> QED
  BY <1>3, <1>4 DEF SignupInv

\* Who inserted the workspace reports it, once and alone.
LEMMA ReportSignup ==
  ASSUME SignupInv, NEW u \in Owner, NEW r \in First, Setup!reportSignup(u, r)
  PROVE  SignupInv'
<1>1. "done" \in Places \ {"inserted"} /\ "done" \in Places
  BY DEF Places
<1>2. first' = [first EXCEPT ![u][r] = "done"] /\ UNCHANGED workspace
  BY DEF Setup!reportSignup, Setup!At
<1>3. CASE first[u][r] = "inserted"
  <2>1. u \in workspace /\ signups[u] = 0
    BY <1>3 DEF SignupInv, SignupFor
  <2>2. signups' = [signups EXCEPT ![u] = 1]
    BY <1>3, <2>1 DEF Setup!reportSignup, Setup!Inserted, SignupInv, FirstTypes
  <2>3. signups'[u] = 1 /\ \A v \in Owner : v # u => signups'[v] = signups[v]
    BY <2>2 DEF SignupInv, FirstTypes
  <2>4. FirstTypes'
    BY <1>1, <1>2, <2>2, RequestGoes DEF SignupInv, FirstTypes
  <2>5. \A s \in First : first'[u][s] # "inserted"
    <3> SUFFICES ASSUME NEW s \in First, first'[u][s] = "inserted"
                 PROVE  FALSE
      OBVIOUS
    <3>1. s # r /\ first[u][s] = "inserted"
      BY <1>1, <1>2, RequestGoes DEF SignupInv
    <3> QED
      BY <1>3, <3>1 DEF SignupInv, SignupFor
  <2>6. ASSUME NEW v \in Owner
        PROVE  SignupFor(v)'
    <3>1. CASE v = u
      BY <1>2, <2>1, <2>3, <2>5, <3>1 DEF SignupFor
    <3>2. CASE v # u
      <4>1. first'[v] = first[v]
        BY <1>1, <1>2, <3>2, RequestGoes DEF SignupInv
      <4> QED
        BY <1>2, <2>3, <3>2, <4>1 DEF SignupInv, SignupFor
    <3> QED
      BY <3>1, <3>2
  <2> QED
    BY <2>4, <2>6 DEF SignupInv
<1>4. CASE first[u][r] # "inserted"
  <2>1. UNCHANGED signups
    BY <1>4 DEF Setup!reportSignup, Setup!Inserted
  <2> QED
    BY <1>1, <1>2, <2>1, SignupKept
<1> QED
  BY <1>3, <1>4
-----------------------------------------------------------------------------
(* Imports.                                                                *)

\* What ImportsBound says of the tables, of any apps A and imports I.
Bound(A, I) ==
  /\ \A x \in I : [app |-> x.app, workspace |-> x.workspace] \in A
  /\ \A x, y \in I : x.workspace = y.workspace => (x.catalog = y.catalog <=> x.app = y.app)
  /\ \A x, y \in A : x.app = y.app => x = y

\* A set of naturals that is not empty has a least element.
Smaller == {pair \in Nat \X Nat : pair[1] < pair[2]}

LEMMA LeastOf ==
  ASSUME NEW S \in SUBSET Nat, S # {}
  PROVE  \E k \in S : \A j \in S : k <= j
<1>1. IsWellFoundedOn(Smaller, Nat)
  BY NatLessThanWellFounded, Zenon DEF OpToRel, Smaller
<1>2. PICK k \in S : \A j \in S : <<j, k>> \notin Smaller
  BY <1>1, WFMin
<1>3. \A j \in S : ~ (j < k)
  BY <1>2 DEF Smaller
<1> QED
  BY <1>3

\* An import row, of any tables, for what was asked of a project.
Row(J, u, p) ==
  \E x \in J : x.workspace = u /\ x.catalog = p.catalog /\ x.payload = p.payload

\* A project that no trigger refuses leaves the tables as they should be, with
\* a row for it and everything that was there.
LEMMA OneImported ==
  ASSUME NEW A, NEW I, Bound(A, I), NEW u, NEW p, NEW t,
         t = Setup!Imported([apps |-> A, imports |-> I], u, p), t # None
  PROVE  \E B, J : /\ t = [apps |-> B, imports |-> J] /\ Bound(B, J)
                   /\ A \subseteq B /\ I \subseteq J /\ Row(J, u, p)
<1> DEFINE app == Setup!AppOf(u, p)
<1> DEFINE Tabled(B) == [apps |-> B, imports |-> I]
<1>1. PICK B : /\ Setup!WithApp([apps |-> A, imports |-> I], u, p) = Tabled(B)
               /\ A \subseteq B /\ \A x, y \in B : x.app = y.app => x = y
  <2> DEFINE c == Setup!Created(u, p.catalog)
  <2>1. CASE p.existing # None \/ \E x \in A : x.app = c
    <3>1. Setup!WithApp([apps |-> A, imports |-> I], u, p) = Tabled(A)
      BY <2>1 DEF Setup!WithApp
    <3> QED
      BY <3>1 DEF Bound
  <2>2. CASE ~ (p.existing # None \/ \E x \in A : x.app = c)
    <3> DEFINE C == A \union {[app |-> c, workspace |-> u]}
    <3>1. Setup!WithApp([apps |-> A, imports |-> I], u, p) = Tabled(C)
      BY <2>2 DEF Setup!WithApp
    <3>2. A \subseteq C /\ \A x, y \in C : x.app = y.app => x = y
      BY <2>2 DEF Bound
    <3> QED
      BY <3>1, <3>2
  <2> QED
    BY <2>1, <2>2
<1> DEFINE v == Tabled(B)
<1>2. [apps |-> A, imports |-> I] # None
  BY DEF Setup!Imported
<1>3. /\ Setup!InScope(v, u, p) /\ Setup!SamePayload(v, u, p) /\ Setup!Unbound(v, u, p)
      /\ t = IF Setup!Same(v, u, p) # {} THEN v
             ELSE [v EXCEPT !.imports = v.imports \union
                     {[workspace |-> u, catalog |-> p.catalog, app |-> app,
                       payload |-> p.payload]}]
  BY <1>1, <1>2 DEF Setup!Imported
<1>4. \A x \in I : [app |-> x.app, workspace |-> x.workspace] \in B
  BY <1>1 DEF Bound
<1>5. CASE Setup!Same(v, u, p) # {}
  <2>1. t = [apps |-> B, imports |-> I]
    BY <1>3, <1>5
  <2>2. Row(I, u, p)
    BY <1>3, <1>5 DEF Setup!Same, Setup!SamePayload, Row
  <2>3. Bound(B, I)
    BY <1>1, <1>4 DEF Bound
  <2> QED
    BY <1>1, <2>1, <2>2, <2>3
<1>6. CASE Setup!Same(v, u, p) = {}
  <2> DEFINE row == [workspace |-> u, catalog |-> p.catalog, app |-> app,
                     payload |-> p.payload]
  <2>1. t = [apps |-> B, imports |-> I \union {row}]
    BY <1>3, <1>6
  <2>2. Row(I \union {row}, u, p)
    <3>1. row.workspace = u /\ row.catalog = p.catalog /\ row.payload = p.payload
      OBVIOUS
    <3> HIDE DEF row
    <3> QED
      BY <3>1 DEF Row
  <2>3. Bound(B, I \union {row})
    <3>1. [app |-> row.app, workspace |-> row.workspace] \in B
      BY <1>3 DEF Setup!InScope
    <3>2. \A x \in I : x.workspace = u => x.catalog # p.catalog
      BY <1>6 DEF Setup!Same
    <3>3. \A x \in I : x.workspace = u => x.app # app
      BY <1>3, <3>2 DEF Setup!Unbound
    <3>4. \A x, y \in I \union {row} : x.workspace = y.workspace =>
            (x.catalog = y.catalog <=> x.app = y.app)
      BY <3>2, <3>3 DEF Bound
    <3> QED
      BY <1>1, <1>4, <3>1, <3>4 DEF Bound
  <2> QED
    BY <1>1, <2>1, <2>2, <2>3
<1> QED
  BY <1>5, <1>6

\* A recursive definition over the first n naturals has a function.
LEMMA AfterIs ==
  ASSUME NEW u, NEW request, Len(request) \in Nat
  PROVE  \A k \in 0..Len(request) :
           Setup!After(u, request)[k] =
             IF k = 0 THEN Setup!Tables
             ELSE Setup!Imported(Setup!After(u, request)[k - 1], u, request[k])
<1> DEFINE n == Len(request)
<1> DEFINE Goes(g, k) ==
      IF k = 0 THEN Setup!Tables ELSE Setup!Imported(g[k - 1], u, request[k])
<1> DEFINE Upto(m) == \E g : g = [k \in 0..m |-> Goes(g, k)]
<1>1. \A m \in 0..n : Upto(m)
  <2> DEFINE Bad == {m \in 0..n : ~ Upto(m)}
  <2> SUFFICES ASSUME Bad # {}
               PROVE  FALSE
    OBVIOUS
  <2>1. PICK m \in Bad : \A j \in Bad : m <= j
    <3>1. Bad \in SUBSET Nat
      OBVIOUS
    <3> HIDE DEF Bad
    <3> QED
      BY <3>1, LeastOf
  <2>2. CASE m = 0
    <3> DEFINE g == [k \in 0..0 |-> Setup!Tables]
    <3>1. g = [k \in 0..0 |-> Goes(g, k)]
      OBVIOUS
    <3> QED
      BY <2>1, <2>2, <3>1
  <2>3. CASE m # 0
    <3>1. m - 1 \in 0..n /\ m \in 1..n
      BY <2>1, <2>3
    <3>2. Upto(m - 1)
      <4>1. m - 1 \notin Bad
        <5> HIDE DEF Bad
        <5> QED
          BY <2>1, <3>1
      <4> HIDE DEF Upto
      <4> QED
        BY <3>1, <4>1
    <3>3. PICK f : f = [k \in 0..(m - 1) |-> Goes(f, k)]
      BY <3>2
    <3> DEFINE g == [k \in 0..m |-> IF k < m THEN f[k] ELSE Goes(f, m)]
    <3>4. ASSUME NEW k \in 0..m
          PROVE  g[k] = Goes(g, k)
      <4>1. CASE k = 0
        <5>1. 0 \in 0..(m - 1)
          BY <3>1
        <5>2. f[0] = Goes(f, 0)
          BY <3>3, <5>1
        <5> QED
          BY <3>1, <4>1, <5>2
      <4>2. CASE k # 0
        <5>1. k - 1 \in 0..m /\ k - 1 < m
          BY <3>1, <4>2
        <5>2. g[k - 1] = f[k - 1]
          BY <5>1
        <5>3. Goes(g, k) = Goes(f, k)
          BY <5>2
        <5>4. CASE k < m
          <6>1. k \in 0..(m - 1)
            BY <3>1, <5>4
          <6>2. f[k] = Goes(f, k)
            BY <3>3, <6>1
          <6> QED
            BY <5>3, <5>4, <6>2
        <5>5. CASE k = m
          BY <5>3, <5>5, <3>1
        <5> QED
          BY <3>1, <5>4, <5>5
      <4> QED
        BY <4>1, <4>2
    <3>5. g = [k \in 0..m |-> Goes(g, k)]
      BY <3>4
    <3> QED
      BY <2>1, <3>5
  <2> QED
    BY <2>2, <2>3
<1>2. PICK g : g = [k \in 0..n |-> Goes(g, k)]
  BY <1>1
<1>3. Setup!After(u, request) = CHOOSE h : h = [k \in 0..n |-> Goes(h, k)]
  BY DEF Setup!After
<1>4. Setup!After(u, request) = [k \in 0..n |-> Goes(Setup!After(u, request), k)]
  BY <1>2, <1>3
<1> QED
  BY <1>4

\* Each project of a request that is not refused has its row in the end.
LEMMA AllImported ==
  ASSUME Setup!ImportsBound, NEW u, NEW request, Len(request) \in Nat,
         NEW t, t = Setup!After(u, request)[Len(request)], t # None
  PROVE  \E B, J : /\ t = [apps |-> B, imports |-> J] /\ Bound(B, J)
                   /\ apps \subseteq B /\ imports \subseteq J
                   /\ \A i \in 1..Len(request) : Row(J, u, request[i])
<1> DEFINE n == Len(request)
<1> DEFINE f == Setup!After(u, request)
<1> DEFINE Imports(k) ==
      \E B, J : /\ f[k] = [apps |-> B, imports |-> J] /\ Bound(B, J)
                /\ apps \subseteq B /\ imports \subseteq J
                /\ \A i \in 1..k : Row(J, u, request[i])
<1> DEFINE Fine(k) == f[k] # None => Imports(k)
<1>1. Fine(0)
  <2>1. f[0] = [apps |-> apps, imports |-> imports]
    BY AfterIs DEF Setup!Tables
  <2>2. Bound(apps, imports)
    BY DEF Setup!ImportsBound, Bound
  <2> HIDE DEF f
  <2> QED
    BY <2>1, <2>2
<1>2. ASSUME NEW k \in 1..n, Fine(k - 1)
      PROVE  Fine(k)
  <2> SUFFICES ASSUME f[k] # None
               PROVE  Imports(k)
    OBVIOUS
  <2>1. f[k] = Setup!Imported(f[k - 1], u, request[k])
    BY AfterIs
  <2>2. f[k - 1] # None
    BY <2>1 DEF Setup!Imported
  <2> HIDE DEF f
  <2>3. PICK A, I : /\ f[k - 1] = [apps |-> A, imports |-> I] /\ Bound(A, I)
                    /\ apps \subseteq A /\ imports \subseteq I
                    /\ \A i \in 1..(k - 1) : Row(I, u, request[i])
    BY <1>2, <2>2
  <2>4. PICK B, J : /\ f[k] = [apps |-> B, imports |-> J] /\ Bound(B, J)
                    /\ A \subseteq B /\ I \subseteq J /\ Row(J, u, request[k])
    BY <2>1, <2>3, OneImported
  <2>5. \A i \in 1..k : Row(J, u, request[i])
    <3> SUFFICES ASSUME NEW i \in 1..k
                 PROVE  Row(J, u, request[i])
      OBVIOUS
    <3>1. CASE i = k
      BY <2>4, <3>1
    <3>2. CASE i # k
      <4>1. i \in 1..(k - 1)
        BY <3>2
      <4> QED
        BY <2>3, <2>4, <4>1 DEF Row
    <3> QED
      BY <3>1, <3>2
  <2> QED
    BY <2>3, <2>4, <2>5
<1> HIDE DEF Fine
<1>3. \A k \in 0..n : Fine(k)
  <2> DEFINE Bad == {k \in 0..n : ~ Fine(k)}
  <2> SUFFICES ASSUME Bad # {}
               PROVE  FALSE
    OBVIOUS
  <2>1. PICK k \in Bad : \A j \in Bad : k <= j
    <3>1. Bad \in SUBSET Nat
      OBVIOUS
    <3> HIDE DEF Bad
    <3> QED
      BY <3>1, LeastOf
  <2>2. k # 0 /\ k \in 1..n /\ k - 1 \in 0..n
    BY <1>1, <2>1
  <2>3. k - 1 \notin Bad
    <3> HIDE DEF Bad
    <3> QED
      BY <2>1, <2>2
  <2>4. Fine(k - 1)
    BY <2>2, <2>3
  <2> QED
    BY <1>2, <2>1, <2>2, <2>4
<1>4. Fine(n)
  BY <1>3
<1> QED
  BY <1>4 DEF Fine

SetupInv == SignupInv /\ Setup!ImportsBound /\ Setup!ImportedAsAsked

\* An import either changes nothing or leaves a row for all it was asked for.
LEMMA ImportProjects ==
  ASSUME SetupInv, NEW u \in Owner, NEW request \in Import,
         Setup!importCatalogProjects(u, request)
  PROVE  Setup!ImportsBound' /\ Setup!ImportedAsAsked'
<1>1. Len(request) \in Nat /\ DOMAIN request = 1..Len(request)
  BY StoreScales DEF Setup!SetupScale
<1> DEFINE t == Setup!After(u, request)[Len(request)]
<1>2. CASE t = None
  <2>1. UNCHANGED <<apps, imports, confirmed>>
    BY <1>2 DEF Setup!importCatalogProjects
  <2> QED
    BY <2>1 DEF SetupInv, Setup!ImportsBound, Setup!ImportedAsAsked
<1>3. CASE t # None
  <2>1. PICK B, J : /\ t = [apps |-> B, imports |-> J] /\ Bound(B, J)
                    /\ apps \subseteq B /\ imports \subseteq J
                    /\ \A i \in 1..Len(request) : Row(J, u, request[i])
    BY <1>1, <1>3, AllImported DEF SetupInv
  <2>2. /\ apps' = t.apps /\ imports' = t.imports
        /\ confirmed' = confirmed \union
             {[workspace |-> u, catalog |-> p.catalog, payload |-> p.payload] :
                p \in Setup!Range(request)}
    BY <1>3 DEF Setup!importCatalogProjects
  <2> HIDE DEF t
  <2>3. apps' = B /\ imports' = J
    BY <2>1, <2>2
  <2>4. Setup!ImportsBound'
    BY <2>1, <2>3 DEF Setup!ImportsBound, Bound
  <2>5. ASSUME NEW q \in confirmed'
        PROVE  \E x \in J :
                 q = [workspace |-> x.workspace, catalog |-> x.catalog, payload |-> x.payload]
    <3>1. CASE q \in confirmed
      BY <2>1, <3>1 DEF SetupInv, Setup!ImportedAsAsked
    <3>2. CASE q \notin confirmed
      <4>1. PICK i \in 1..Len(request) :
              q = [workspace |-> u, catalog |-> request[i].catalog,
                   payload |-> request[i].payload]
        BY <1>1, <2>2, <2>5, <3>2 DEF Setup!Range
      <4>2. PICK x \in J : /\ x.workspace = u /\ x.catalog = request[i].catalog
                           /\ x.payload = request[i].payload
        BY <2>1 DEF Row
      <4> QED
        BY <4>1, <4>2
    <3> QED
      BY <3>1, <3>2
  <2>6. Setup!ImportedAsAsked'
    BY <2>3, <2>5 DEF Setup!ImportedAsAsked
  <2> QED
    BY <2>4, <2>6
<1> QED
  BY <1>2, <1>3

LEMMA SetupStep ==
  ASSUME SetupInv, Setup!Next
  PROVE  SetupInv'
<1>1. CASE /\ \E u \in Owner, r \in First :
                \/ Setup!readWorkspace(u, r) \/ Setup!insertWorkspace(u, r)
                \/ Setup!reportSignup(u, r) \/ Setup!Dies(u, r)
           /\ UNCHANGED <<apps, archived, imports, confirmed, asked>>
  <2>1. SignupInv'
    BY <1>1, ReadWorkspace, InsertWorkspace, ReportSignup, RequestDies DEF SetupInv
  <2> QED
    BY <1>1, <2>1 DEF SetupInv, Setup!ImportsBound, Setup!ImportedAsAsked
<1>2. CASE /\ \/ \E u \in Owner, request \in Import : Setup!importCatalogProjects(u, request)
              \/ \E a \in {x.app : x \in apps} : Setup!Archive(a)
           /\ UNCHANGED <<first, workspace, signups>>
  <2>1. SignupInv'
    BY <1>2 DEF SetupInv, SignupInv, FirstTypes, SignupFor
  <2>2. CASE \E u \in Owner, request \in Import : Setup!importCatalogProjects(u, request)
    BY <2>1, <2>2, ImportProjects DEF SetupInv
  <2>3. CASE UNCHANGED <<apps, imports, confirmed>>
    BY <2>1, <2>3 DEF SetupInv, Setup!ImportsBound, Setup!ImportedAsAsked
  <2> QED
    BY <1>2, <2>2, <2>3 DEF Setup!Archive
<1> QED
  BY <1>1, <1>2 DEF Setup!Next

LEMMA SetupBegins ==
  ASSUME Setup!Init
  PROVE  SetupInv
<1>1. SignupInv
  BY DEF Setup!Init, SignupInv, FirstTypes, SignupFor, Places
<1>2. Setup!ImportsBound
  BY DEF Setup!Init, Setup!ImportsBound
<1>3. Setup!ImportedAsAsked
  BY DEF Setup!Init, Setup!ImportedAsAsked
<1> QED
  BY <1>1, <1>2, <1>3 DEF SetupInv

\* Whatever the guests and invitations, the seats, the first sessions and the
\* catalogs, nobody is a member who was not let in, and an import is complete.
THEOREM AdmittedAlways == StoresSpec => []Admitted
<1> DEFINE storesVars ==
      <<part, vars, auditVars, presenceVars, accessVars, setupVars, paymentVars,
        endpointVars, logVars, source>>
<1> DEFINE Inv ==
      /\ part = "access" => AccessInv
      /\ part # "access" => NobodyIn
      /\ SetupInv
<1>1. StoresInit => Inv
  <2> SUFFICES ASSUME StoresInit
               PROVE  Inv
    OBVIOUS
  <2>1. Access!Init /\ Setup!Init /\ now \in Nat
    BY DEF StoresInit, Access!Init
  <2> QED
    BY <2>1, AccessBegins, SetupBegins
<1>2. Inv /\ [StoresNext]_storesVars => Inv'
  <2> SUFFICES ASSUME Inv, [StoresNext]_storesVars
               PROVE  Inv'
    OBVIOUS
  <2>1. part' = part
    BY DEF StoresNext
  <2>2. SetupInv'
    <3>1. CASE UNCHANGED setupVars
      BY <3>1 DEF setupVars, SetupInv, SignupInv, FirstTypes, SignupFor,
                  Setup!ImportsBound, Setup!ImportedAsAsked
    <3>2. CASE part = "setup" /\ StoresNext
      BY <3>2, SetupStep DEF StoresNext
    <3> QED
      BY <3>1, <3>2 DEF StoresNext, Still
  <2>3. CASE part = "access"
    <3>1. CASE StoresNext
      BY <2>1, <2>2, <2>3, <3>1, AccessStep DEF StoresNext
    <3>2. CASE UNCHANGED storesVars
      <4>1. UNCHANGED <<now, members, invites, granted, spent>>
        BY <3>2 DEF vars, accessVars
      <4>2. AccessInv'
        BY <2>3, <4>1
          DEF AccessInv, AccessTypes, AccessLimits, OpenNow, Joined, Access!Pending,
              SpentAccepted, NothingGranted, Access!Admitted, Access!RolesGranted
      <4> QED
        BY <2>1, <2>2, <2>3, <4>2
    <3> QED
      BY <3>1, <3>2
  <2>4. CASE part # "access"
    <3>1. UNCHANGED accessVars
      BY <2>4 DEF StoresNext, Still
    <3> QED
      BY <2>1, <2>2, <2>4, <3>1 DEF NobodyIn, accessVars
  <2> QED
    BY <2>3, <2>4
<1>3. Inv => Admitted
  BY AccessEnough DEF SetupInv, SignupInv, FirstTypes, SignupFor, Setup!OneSignup, Admitted
<1> QED
  BY <1>1, <1>2, <1>3, PTL DEF StoresSpec

-----------------------------------------------------------------------------
(* Sums over finite sets.                                                  *)

\* Of some subsets of a finite set one has none of the others in it.
LEMMA SmallestSubset ==
  ASSUME NEW U, IsFiniteSet(U), NEW C \in SUBSET (SUBSET U), C # {}
  PROVE  \E F \in C : \A G \in C : G \subseteq F => G = F
<1> DEFINE Size == {Cardinality(F) : F \in C}
<1>1. \A F \in C : IsFiniteSet(F) /\ Cardinality(F) \in Nat
  BY FS_Subset, FS_CardinalityType
<1>2. Size \in SUBSET Nat /\ Size # {}
  BY <1>1
<1>3. PICK k \in Size : \A j \in Size : k <= j
  <2> HIDE DEF Size
  <2> QED
    BY <1>2, LeastOf
<1>4. PICK F \in C : Cardinality(F) = k
  BY <1>3
<1>5. ASSUME NEW G \in C, G \subseteq F
      PROVE  G = F
  <2>1. IsFiniteSet(F) /\ Cardinality(G) <= Cardinality(F) /\ (Cardinality(F) = Cardinality(G) => F = G)
    BY <1>1, <1>5, FS_Subset
  <2>2. Cardinality(F) <= Cardinality(G)
    BY <1>3, <1>4
  <2>3. Cardinality(F) \in Nat /\ Cardinality(G) \in Nat
    BY <1>1
  <2> QED
    BY <2>1, <2>2, <2>3
<1> QED
  BY <1>5

\* The element that a sum takes out of a set first.
Some(s) == CHOOSE x \in s : TRUE

LEMMA SomeIn ==
  ASSUME NEW s, s # {}
  PROVE  Some(s) \in s
  BY DEF Some

\* A sum of amounts is that of the element taken out first and of the others.
AmountStep(F) ==
  Ledgers!Amount(F) =
    IF F = {} THEN 0 ELSE Some(F).amount + Ledgers!Amount(F \ {Some(F)})

LEMMA AmountUnfolds ==
  ASSUME NEW U, IsFiniteSet(U)
  PROVE  \A F \in SUBSET U : AmountStep(F)
<1> DEFINE Bad == {F \in SUBSET U : ~ AmountStep(F)}
<1> SUFFICES ASSUME Bad # {}
             PROVE  FALSE
  OBVIOUS
<1>1. PICK F \in Bad : \A G \in Bad : G \subseteq F => G = F
  <2>1. Bad \in SUBSET (SUBSET U)
    OBVIOUS
  <2> HIDE DEF Bad
  <2> QED
    BY <2>1, SmallestSubset
<1>2. F \in SUBSET U /\ \A s \in SUBSET F : s # F => AmountStep(s)
  <2>1. \A s \in SUBSET F : s \in SUBSET U
    OBVIOUS
  <2>2. \A s \in SUBSET F : s # F => s \notin Bad
    <3> HIDE DEF Bad
    <3> QED
      BY <1>1
  <2> QED
    BY <2>1, <2>2
<1> DEFINE Step(it, s) == IF s = {} THEN 0 ELSE Some(s).amount + it[s \ {Some(s)}]
<1> DEFINE it == CHOOSE it : it = [s \in SUBSET F |-> Step(it, s)]
<1>3. Ledgers!Amount(F) = it[F]
  BY DEF Ledgers!Amount, Ledgers!MapThenSumSet, Ledgers!MapThenFoldSet, Some
<1>4. \E g : g = [s \in SUBSET F |-> Step(g, s)]
  <2> DEFINE g == [s \in SUBSET F |->
                     IF s = F /\ F # {} THEN Some(F).amount + Ledgers!Amount(F \ {Some(F)})
                     ELSE IF s = {} THEN 0 ELSE Ledgers!Amount(s)]
  <2>1. ASSUME NEW s \in SUBSET F
        PROVE  g[s] = Step(g, s)
    <3>1. CASE s = {}
      BY <3>1
    <3>2. CASE s # {}
      <4> DEFINE u == s \ {Some(s)}
      <4>1. Some(s) \in s
        BY <3>2, SomeIn
      <4>2. u \in SUBSET F /\ u # F
        BY <4>1
      <4>3. g[u] = Ledgers!Amount(u)
        <5>1. CASE u = {}
          <6>1. AmountStep(u)
            BY <1>2, <4>2
          <6> QED
            BY <5>1, <6>1, <4>2 DEF AmountStep
        <5>2. CASE u # {}
          BY <5>2, <4>2
        <5> QED
          BY <5>1, <5>2
      <4>4. CASE s = F
        BY <3>2, <4>3, <4>4
      <4>5. CASE s # F
        <5>1. AmountStep(s)
          BY <1>2, <4>5
        <5> QED
          BY <3>2, <4>3, <4>5, <5>1 DEF AmountStep
      <4> QED
        BY <4>4, <4>5
    <3> QED
      BY <3>1, <3>2
  <2>2. g = [s \in SUBSET F |-> Step(g, s)]
    BY <2>1
  <2> QED
    BY <2>2
<1>5. it = [s \in SUBSET F |-> Step(it, s)]
  BY <1>4
<1> HIDE DEF it
<1>6. \A s \in SUBSET F : it[s] = Step(it, s)
  BY <1>5
<1>7. \A s \in SUBSET F : s # F => it[s] = Ledgers!Amount(s)
  <2> DEFINE Wrong == {s \in SUBSET F : s # F /\ it[s] # Ledgers!Amount(s)}
  <2> SUFFICES ASSUME Wrong # {}
               PROVE  FALSE
    OBVIOUS
  <2>1. PICK s \in Wrong : \A t \in Wrong : t \subseteq s => t = s
    <3>1. Wrong \in SUBSET (SUBSET F) /\ IsFiniteSet(F)
      BY <1>2, FS_Subset
    <3> HIDE DEF Wrong
    <3> QED
      BY <3>1, SmallestSubset
  <2>2. s \in SUBSET F /\ s # F /\ it[s] # Ledgers!Amount(s)
    OBVIOUS
  <2>3. AmountStep(s) /\ it[s] = Step(it, s)
    BY <1>2, <1>6, <2>2
  <2>4. CASE s = {}
    BY <2>2, <2>3, <2>4 DEF AmountStep
  <2>5. CASE s # {}
    <3> DEFINE u == s \ {Some(s)}
    <3>1. Some(s) \in s
      BY <2>5, SomeIn
    <3>2. u \in SUBSET F /\ u # F /\ u \subseteq s /\ u # s
      BY <2>2, <3>1
    <3>3. u \notin Wrong
      <4> HIDE DEF Wrong
      <4> QED
        BY <2>1, <3>2
    <3>4. it[u] = Ledgers!Amount(u)
      BY <3>2, <3>3
    <3> QED
      BY <2>2, <2>3, <2>5, <3>4 DEF AmountStep
  <2> QED
    BY <2>4, <2>5
<1>8. AmountStep(F)
  <2>1. CASE F = {}
    BY <1>3, <1>6, <2>1 DEF AmountStep
  <2>2. CASE F # {}
    <3>1. Some(F) \in F
      BY <2>2, SomeIn
    <3>2. F \ {Some(F)} \in SUBSET F /\ F \ {Some(F)} # F
      BY <3>1
    <3>3. it[F \ {Some(F)}] = Ledgers!Amount(F \ {Some(F)})
      BY <1>7, <3>2
    <3> QED
      BY <1>3, <1>6, <2>2, <3>3 DEF AmountStep
  <2> QED
    BY <2>1, <2>2
<1> QED
  BY <1>1, <1>8

\* A sum of natural numbers is one, and it does not matter which element is
\* taken out first.
AmountSplits(F) ==
  /\ Ledgers!Amount(F) \in Nat
  /\ \A y \in F : Ledgers!Amount(F) = y.amount + Ledgers!Amount(F \ {y})

\* The sum over a set is the sum over the rest and what one element adds.
LEMMA AmountsSplit ==
  ASSUME NEW U, IsFiniteSet(U), \A x \in U : x.amount \in Nat
  PROVE  \A F \in SUBSET U : AmountSplits(F)
<1> DEFINE Bad == {F \in SUBSET U : ~ AmountSplits(F)}
<1> SUFFICES ASSUME Bad # {}
             PROVE  FALSE
  OBVIOUS
<1>1. PICK F \in Bad : \A G \in Bad : G \subseteq F => G = F
  <2>1. Bad \in SUBSET (SUBSET U)
    OBVIOUS
  <2> HIDE DEF Bad
  <2> QED
    BY <2>1, SmallestSubset
<1>2. F \in SUBSET U /\ \A s \in SUBSET F : s # F => AmountSplits(s)
  <2>1. \A s \in SUBSET F : s \in SUBSET U
    OBVIOUS
  <2>2. \A s \in SUBSET F : s # F => s \notin Bad
    <3> HIDE DEF Bad
    <3> QED
      BY <1>1
  <2> QED
    BY <2>1, <2>2
<1>3. AmountStep(F)
  BY <1>2, AmountUnfolds
<1>4. CASE F = {}
  BY <1>1, <1>3, <1>4 DEF AmountStep, AmountSplits
<1>5. CASE F # {}
  <2> DEFINE A(s) == Ledgers!Amount(s)
  <2>x. PICK x : x = Some(F)
    OBVIOUS
  <2>1. x \in F /\ x.amount \in Nat
    BY <1>2, <1>5, <2>x, SomeIn
  <2>2. F \ {x} \in SUBSET F /\ F \ {x} # F
    BY <2>1
  <2>3. AmountSplits(F \ {x})
    BY <1>2, <2>2
  <2>4. A(F) = x.amount + A(F \ {x}) /\ A(F \ {x}) \in Nat
    BY <1>3, <1>5, <2>x, <2>3 DEF AmountStep, AmountSplits
  <2>5. A(F) \in Nat
    BY <2>1, <2>4
  <2>6. ASSUME NEW y \in F
        PROVE  A(F) = y.amount + A(F \ {y})
    <3>1. CASE y = x
      BY <2>4, <3>1
    <3>2. CASE y # x
      <4>1. F \ {y} \in SUBSET F /\ F \ {y} # F /\ y \in F \ {x} /\ x \in F \ {y}
        BY <2>1, <3>2
      <4>2. AmountSplits(F \ {y})
        BY <1>2, <4>1
      <4>3. A(F \ {x}) = y.amount + A((F \ {x}) \ {y})
        BY <2>3, <4>1 DEF AmountSplits
      <4>4. A(F \ {y}) = x.amount + A((F \ {y}) \ {x}) /\ A(F \ {y}) \in Nat
        BY <4>1, <4>2 DEF AmountSplits
      <4>5. (F \ {x}) \ {y} = (F \ {y}) \ {x}
        OBVIOUS
      <4>r. PICK r : r = A((F \ {y}) \ {x})
        OBVIOUS
      <4>6. r \in Nat
        <5>1. (F \ {y}) \ {x} \in SUBSET F /\ (F \ {y}) \ {x} # F
          BY <2>1
        <5>2. AmountSplits((F \ {y}) \ {x})
          BY <1>2, <5>1
        <5> QED
          BY <4>r, <5>2 DEF AmountSplits
      <4>7. A(F \ {x}) = y.amount + r /\ A(F \ {y}) = x.amount + r
        BY <4>3, <4>4, <4>5, <4>r
      <4>8. y.amount \in Nat
        BY <1>2
      <4> HIDE DEF A
      <4> QED
        BY <2>1, <2>4, <4>6, <4>7, <4>8
    <3> QED
      BY <3>1, <3>2
  <2> QED
    BY <1>1, <2>5, <2>6 DEF AmountSplits
<1> QED
  BY <1>4, <1>5

-----------------------------------------------------------------------------
(* The payment ledger.                                                     *)

FactOK(f) ==
  /\ f.kind \in {"payment", "refund"} /\ f.amount \in Nat
  /\ f.kind = "payment" => f.id = f.txn

\* What both ledgers hold is the same, finite, and covered.
LedgerInv ==
  /\ facts \subseteq {r.fact : r \in LedgerRequest}
  /\ IsFiniteSet(facts)
  /\ \A d \in deliveries : d = [id |-> d.id, fact |-> d.fact]
  /\ Ledgers!Covered
  /\ agreed = TRUE /\ localFacts = facts /\ localDeliveries = deliveries

LEMMA FactsOK ==
  /\ \A r \in LedgerRequest : FactOK(r.fact)
  /\ LedgerInv => \A f \in facts : FactOK(f)
<1>1. \A r \in LedgerRequest : FactOK(r.fact)
  BY StoreScales DEF Ledgers!LedgerScale, FactOK
<1> QED
  BY <1>1 DEF LedgerInv

\* A fact more adds its amount.
LEMMA AmountAdded ==
  ASSUME NEW F, IsFiniteSet(F), \A g \in F : g.amount \in Nat,
         NEW f, f.amount \in Nat, f \notin F
  PROVE  /\ Ledgers!Amount(F) \in Nat
         /\ Ledgers!Amount(F \union {f}) = f.amount + Ledgers!Amount(F)
<1>1. IsFiniteSet(F \union {f})
  BY FS_AddElement
<1>2. \A S \in SUBSET (F \union {f}) : AmountSplits(S)
  BY <1>1, AmountsSplit
<1>3. AmountSplits(F) /\ AmountSplits(F \union {f})
  BY <1>2
<1>4. (F \union {f}) \ {f} = F
  OBVIOUS
<1> QED
  BY <1>3, <1>4 DEF AmountSplits

\* The refunds of a payment when a fact is added.
LEMMA RefundsAdded ==
  ASSUME NEW F, NEW f, NEW p
  PROVE  Ledgers!Refunds(F \union {f}, p) =
           Ledgers!Refunds(F, p) \union
             (IF f.kind = "refund" /\ f.txn = p.txn THEN {f} ELSE {})
  BY DEF Ledgers!Refunds, Ledgers!Of

LEMMA RefundsIn ==
  ASSUME LedgerInv, NEW p
  PROVE  /\ Ledgers!Refunds(facts, p) \subseteq facts
         /\ IsFiniteSet(Ledgers!Refunds(facts, p))
         /\ \A g \in Ledgers!Refunds(facts, p) : g.amount \in Nat
         /\ Ledgers!Amount(Ledgers!Refunds(facts, p)) \in Nat
<1>1. Ledgers!Refunds(facts, p) \subseteq facts
  BY DEF Ledgers!Refunds, Ledgers!Of
<1>2. IsFiniteSet(Ledgers!Refunds(facts, p))
  BY <1>1, FS_Subset DEF LedgerInv
<1>3. \A g \in facts : g.amount \in Nat
  BY FactsOK DEF FactOK
<1>4. AmountSplits(Ledgers!Refunds(facts, p))
  <2>1. \A F \in SUBSET facts : AmountSplits(F)
    BY <1>3, AmountsSplit DEF LedgerInv
  <2> QED
    BY <1>1, <2>1
<1> QED
  BY <1>1, <1>2, <1>3, <1>4 DEF AmountSplits

\* An answer is a conflict for both or for neither.
LEMMA ConflictsAgree ==
  ASSUME LedgerInv, NEW r \in LedgerRequest
  PROVE  Ledgers!LocalConflict(r) <=> Ledgers!Conflict(r)
  BY DEF LedgerInv, Ledgers!LocalConflict, Ledgers!Conflict

\* A fact that is there and does not conflict is accepted by the triggers.
LEMMA KnownAccepted ==
  ASSUME LedgerInv, NEW f \in facts
  PROVE  ~ Ledgers!RefundGuard(f) /\ ~ Ledgers!OriginalGuard(f)
<1>1. ~ Ledgers!RefundGuard(f)
  BY DEF Ledgers!RefundGuard, Ledgers!SameId
<1>2. ~ Ledgers!OriginalGuard(f)
  <2> SUFFICES ASSUME f.kind = "payment"
               PROVE  ~ Ledgers!OriginalGuard(f)
    BY DEF Ledgers!OriginalGuard
  <2>1. f \in Ledgers!Of(facts, "payment")
    BY DEF Ledgers!Of
  <2>2. /\ Ledgers!Amount(Ledgers!Refunds(facts, f)) <= f.amount
        /\ \A g \in Ledgers!Refunds(facts, f) : g.currency = f.currency
    BY <2>1 DEF LedgerInv, Ledgers!Covered
  <2>3. Ledgers!Amount(Ledgers!Refunds(facts, f)) \in Nat /\ f.amount \in Nat
    BY RefundsIn, FactsOK DEF FactOK
  <2> QED
    BY <2>2, <2>3 DEF Ledgers!OriginalGuard
<1> QED
  BY <1>1, <1>2

\* The two ways to refuse a new fact are the same.
LEMMA NewRefunds ==
  ASSUME LedgerInv, NEW f, FactOK(f), f \notin facts, Ledgers!SameId(facts, f) = {},
         f.kind = "refund"
  PROVE  Ledgers!RefundsExceed(f) <=> Ledgers!RefundGuard(f) \/ Ledgers!OriginalGuard(f)
<1>1. ~ Ledgers!OriginalGuard(f)
  BY DEF Ledgers!OriginalGuard
<1> DEFINE R == Ledgers!Refunds(facts, f)
<1>2. Ledgers!Refunds(localFacts, f) \union Ledgers!Of({f}, "refund") = R \union {f}
  BY DEF LedgerInv, Ledgers!Of
<1>3. Ledgers!Amount(R) \in Nat /\ Ledgers!Amount(R \union {f}) = f.amount + Ledgers!Amount(R)
  <2>1. f \notin R /\ f.amount \in Nat
    BY DEF FactOK, Ledgers!Refunds, Ledgers!Of
  <2> QED
    BY <2>1, RefundsIn, AmountAdded
<1>4. \A p \in Ledgers!Original(facts, f) :
        p.amount \in Nat /\ \A g \in R : g.currency = p.currency
  <2> SUFFICES ASSUME NEW p \in Ledgers!Original(facts, f)
               PROVE  p.amount \in Nat /\ \A g \in R : g.currency = p.currency
    OBVIOUS
  <2>1. p \in facts /\ p.kind = "payment" /\ p.id = f.txn /\ p \in Ledgers!Of(facts, "payment")
    BY DEF Ledgers!Original, Ledgers!Of
  <2>2. p.amount \in Nat /\ p.txn = f.txn
    BY <2>1, FactsOK DEF FactOK
  <2>3. R = Ledgers!Refunds(facts, p)
    BY <2>2 DEF Ledgers!Refunds
  <2> QED
    BY <2>1, <2>2, <2>3 DEF LedgerInv, Ledgers!Covered
<1>5. Ledgers!RefundsExceed(f) <=>
        \E p \in Ledgers!Original(facts, f) :
          \/ \E g \in R \union {f} : g.currency # p.currency
          \/ Ledgers!Amount(R \union {f}) > p.amount
  BY <1>2 DEF Ledgers!RefundsExceed, LedgerInv
<1>6. Ledgers!RefundGuard(f) <=>
        \E p \in Ledgers!Original(facts, f) :
          p.currency # f.currency \/ p.amount < f.amount + Ledgers!Amount(R)
  BY DEF Ledgers!RefundGuard
<1>7. \A p \in Ledgers!Original(facts, f) :
        ((\E g \in R \union {f} : g.currency # p.currency) \/ Ledgers!Amount(R \union {f}) > p.amount)
        <=> (p.currency # f.currency \/ p.amount < f.amount + Ledgers!Amount(R))
  <2> SUFFICES ASSUME NEW p \in Ledgers!Original(facts, f)
               PROVE  ((\E g \in R \union {f} : g.currency # p.currency)
                         \/ Ledgers!Amount(R \union {f}) > p.amount)
                      <=> (p.currency # f.currency \/ p.amount < f.amount + Ledgers!Amount(R))
    OBVIOUS
  <2>1. (\E g \in R \union {f} : g.currency # p.currency) <=> f.currency # p.currency
    BY <1>4
  <2>2. Ledgers!Amount(R \union {f}) > p.amount <=> p.amount < f.amount + Ledgers!Amount(R)
    <3>1. PICK n : n = Ledgers!Amount(R)
      OBVIOUS
    <3>2. n \in Nat /\ Ledgers!Amount(R \union {f}) = f.amount + n /\ p.amount \in Nat
      BY <1>3, <1>4, <3>1
    <3>3. f.amount \in Nat
      BY DEF FactOK
    <3> HIDE DEF R
    <3> QED
      BY <3>1, <3>2, <3>3
  <2> QED
    BY <2>1, <2>2
<1> HIDE DEF R
<1> QED
  BY <1>1, <1>5, <1>6, <1>7

\* A payment that comes after its refunds is refused when either guard refuses it.
LEMMA NewOriginal ==
  ASSUME LedgerInv, NEW f, FactOK(f), f.kind = "payment"
  PROVE  Ledgers!RefundsExceed(f) <=> Ledgers!RefundGuard(f) \/ Ledgers!OriginalGuard(f)
<1>1. ~ Ledgers!RefundGuard(f)
  BY DEF Ledgers!RefundGuard
<1> DEFINE R == Ledgers!Refunds(facts, f)
<1>2. Ledgers!Refunds(localFacts, f) \union Ledgers!Of({f}, "refund") = R
  BY DEF LedgerInv, Ledgers!Of
<1>3. PICK n : n = Ledgers!Amount(R)
  OBVIOUS
<1>4. n \in Nat /\ f.amount \in Nat
  BY <1>3, RefundsIn DEF FactOK
<1>5. Ledgers!RefundsExceed(f) <=>
        (\E g \in R : g.currency # f.currency) \/ n > f.amount
  BY <1>2, <1>3 DEF Ledgers!RefundsExceed
<1>6. Ledgers!OriginalGuard(f) <=>
        (\E g \in R : g.currency # f.currency) \/ f.amount < n
  BY <1>3 DEF Ledgers!OriginalGuard
<1> QED
  BY <1>1, <1>4, <1>5, <1>6

\* A fact that both accept leaves every payment covered.
LEMMA CoveredKept ==
  ASSUME LedgerInv, NEW f, FactOK(f), f \notin facts, Ledgers!SameId(facts, f) = {},
         ~ Ledgers!RefundGuard(f), ~ Ledgers!OriginalGuard(f),
         NEW F, F = facts \union {f}, NEW p \in Ledgers!Of(F, "payment")
  PROVE  /\ Ledgers!Amount(Ledgers!Refunds(F, p)) <= p.amount
         /\ \A g \in Ledgers!Refunds(F, p) : g.currency = p.currency
<1> DEFINE R == Ledgers!Refunds(facts, p)
<1>1. p \in F /\ p.kind = "payment" /\ (p \in facts => p \in Ledgers!Of(facts, "payment"))
  BY DEF Ledgers!Of
<1>2. p.amount \in Nat /\ p.id = p.txn
  BY <1>1, FactsOK DEF FactOK
<1>3. Ledgers!Refunds(F, p) = R \union (IF f.kind = "refund" /\ f.txn = p.txn THEN {f} ELSE {})
  BY RefundsAdded
<1>4. CASE f.kind = "refund" /\ f.txn = p.txn
  <2>1. p \in facts /\ p \in Ledgers!Original(facts, f)
    BY <1>1, <1>2, <1>4 DEF Ledgers!Original, Ledgers!Of
  <2>2. R = Ledgers!Refunds(facts, f)
    BY <1>4 DEF Ledgers!Refunds
  <2>3. p.currency = f.currency /\ ~ (p.amount < f.amount + Ledgers!Amount(R))
    BY <1>4, <2>1, <2>2 DEF Ledgers!RefundGuard
  <2>4. \A g \in R : g.currency = p.currency
    BY <1>1, <2>1 DEF LedgerInv, Ledgers!Covered
  <2>5. Ledgers!Amount(R) \in Nat /\ Ledgers!Amount(R \union {f}) = f.amount + Ledgers!Amount(R)
    <3>1. f \notin R /\ f.amount \in Nat
      BY DEF FactOK, Ledgers!Refunds, Ledgers!Of
    <3> QED
      BY <3>1, RefundsIn, AmountAdded
  <2>6. PICK n : n = Ledgers!Amount(R)
    OBVIOUS
  <2>7. n \in Nat /\ f.amount \in Nat /\ ~ (p.amount < f.amount + n)
    BY <2>3, <2>5, <2>6 DEF FactOK
  <2>8. f.amount + n <= p.amount
    BY <1>2, <2>7
  <2>9. Ledgers!Refunds(F, p) = R \union {f}
    BY <1>3, <1>4
  <2> HIDE DEF R
  <2> QED
    BY <2>3, <2>4, <2>5, <2>6, <2>8, <2>9
<1>5. CASE ~ (f.kind = "refund" /\ f.txn = p.txn)
  <2>1. Ledgers!Refunds(F, p) = R
    BY <1>3, <1>5
  <2>2. CASE p \in facts
    BY <1>1, <2>1, <2>2 DEF LedgerInv, Ledgers!Covered
  <2>3. CASE p = f
    <3>1. ~ (p.amount < Ledgers!Amount(R)) /\ \A g \in R : g.currency = p.currency
      BY <1>1, <2>3 DEF Ledgers!OriginalGuard
    <3>2. PICK n : n = Ledgers!Amount(R)
      OBVIOUS
    <3>3. n \in Nat /\ ~ (p.amount < n)
      BY <3>1, <3>2, RefundsIn
    <3>4. n <= p.amount
      BY <1>2, <3>3
    <3> HIDE DEF R
    <3> QED
      BY <2>1, <3>1, <3>2, <3>4
  <2> QED
    BY <1>1, <2>2, <2>3
<1> QED
  BY <1>4, <1>5

\* A delivery that does not conflict is one more, or was there.
LEMMA DeliveryKept ==
  ASSUME LedgerInv, NEW r \in LedgerRequest, ~ Ledgers!Conflict(r),
         deliveries' = deliveries \union {[id |-> r.delivery, fact |-> r.fact]},
         facts' = facts \union {r.fact}
  PROVE  /\ \A d \in deliveries' : d = [id |-> d.id, fact |-> d.fact]
         /\ \A d, e \in deliveries' : d.id = e.id => d = e
         /\ facts' = {d.fact : d \in deliveries'}
<1> DEFINE n == [id |-> r.delivery, fact |-> r.fact]
<1>1. n.id = r.delivery /\ n.fact = r.fact /\ n = [id |-> n.id, fact |-> n.fact]
  OBVIOUS
<1>2. \A d \in deliveries : d.id = n.id => d = n
  <2> SUFFICES ASSUME NEW d \in deliveries, d.id = n.id
               PROVE  d = n
    OBVIOUS
  <2>1. d.fact = r.fact
    BY <1>1 DEF Ledgers!Conflict
  <2>2. d = [id |-> d.id, fact |-> d.fact]
    BY DEF LedgerInv
  <2> QED
    BY <1>1, <2>1, <2>2
<1>3. deliveries' = deliveries \union {n}
  OBVIOUS
<1> HIDE DEF n
<1>4. \A d \in deliveries' : d = [id |-> d.id, fact |-> d.fact]
  BY <1>1, <1>3 DEF LedgerInv
<1>5. \A d, e \in deliveries' : d.id = e.id => d = e
  BY <1>2, <1>3 DEF LedgerInv, Ledgers!Covered
<1>6. facts' = {d.fact : d \in deliveries'}
  <2>1. facts = {d.fact : d \in deliveries}
    BY DEF LedgerInv, Ledgers!Covered
  <2> QED
    BY <1>1, <1>3, <2>1
<1> QED
  BY <1>4, <1>5, <1>6

\* A recorded fact keeps what both ledgers owe each other.
LEMMA RecordStep ==
  ASSUME LedgerInv, NEW r \in LedgerRequest, Ledgers!record(r)
  PROVE  LedgerInv'
<1> DEFINE f == r.fact
<1> DEFINE n == [id |-> r.delivery, fact |-> r.fact]
<1>f. FactOK(f)
  BY FactsOK
<1>1. Ledgers!LocalConflict(r) <=> Ledgers!Conflict(r)
  BY ConflictsAgree
<1>2. CASE Ledgers!Conflict(r)
  <2>1. Ledgers!D1Answer(r) = "conflict" /\ Ledgers!LocalAnswer(r) = "conflict"
    BY <1>1, <1>2 DEF Ledgers!D1Answer, Ledgers!LocalAnswer, Ledgers!Refused
  <2>2. UNCHANGED <<facts, deliveries, localFacts, localDeliveries>> /\ agreed' = TRUE
    BY <2>1 DEF Ledgers!record, Ledgers!Written, LedgerInv
  <2> QED
    BY <2>2 DEF LedgerInv, Ledgers!Covered
<1>3. CASE ~ Ledgers!Conflict(r)
  <2>1. ~ Ledgers!LocalFull(r)
    BY <1>1, <1>3 DEF Ledgers!record, Ledgers!LocalAnswer
  <2>2. ASSUME /\ facts' = facts \union {f} /\ localFacts' = localFacts \union {f}
               /\ deliveries' = deliveries \union {n}
               /\ localDeliveries' = localDeliveries \union {n}
               /\ agreed' = TRUE,
               f \notin facts =>
                 ~ Ledgers!RefundGuard(f) /\ ~ Ledgers!OriginalGuard(f)
        PROVE  LedgerInv'
    <3>1. /\ \A d \in deliveries' : d = [id |-> d.id, fact |-> d.fact]
          /\ \A d, e \in deliveries' : d.id = e.id => d = e
          /\ facts' = {d.fact : d \in deliveries'}
      BY <1>3, <2>2, DeliveryKept
    <3>2. facts' \subseteq {q.fact : q \in LedgerRequest} /\ IsFiniteSet(facts')
      BY <2>2, FS_AddElement DEF LedgerInv
    <3>3. \A g \in facts : g.kind = f.kind /\ g.id = f.id => g = f
      BY <1>3 DEF Ledgers!Conflict, Ledgers!SameId
    <3>4. \A g, h \in facts' : g.kind = h.kind /\ g.id = h.id => g = h
      <4> HIDE DEF f
      <4> QED
        BY <2>2, <3>3 DEF LedgerInv, Ledgers!Covered
    <3>5. ASSUME NEW p \in Ledgers!Of(facts', "payment")
          PROVE  /\ Ledgers!Amount(Ledgers!Refunds(facts', p)) <= p.amount
                 /\ \A g \in Ledgers!Refunds(facts', p) : g.currency = p.currency
      <4>1. CASE f \in facts
        <5>1. facts' = facts
          BY <2>2, <4>1
        <5> QED
          BY <3>5, <5>1 DEF LedgerInv, Ledgers!Covered
      <4>2. CASE f \notin facts
        <5>1. Ledgers!SameId(facts, f) = {}
          BY <3>3, <4>2 DEF Ledgers!SameId
        <5> QED
          BY <1>f, <2>2, <3>5, <4>2, <5>1, CoveredKept
      <4> QED
        BY <4>1, <4>2
    <3>6. Ledgers!Covered'
      BY <3>1, <3>4, <3>5 DEF Ledgers!Covered
    <3> QED
      BY <2>2, <3>1, <3>2, <3>6 DEF LedgerInv
  <2>3. CASE f \in facts
    <3>1. ~ Ledgers!Refused(r)
      BY <1>3, <2>3, KnownAccepted DEF Ledgers!Refused
    <3>2. Ledgers!D1Answer(r) = "known"
      BY <2>3, <3>1 DEF Ledgers!D1Answer
    <3>3. Ledgers!LocalAnswer(r) = "known"
      BY <1>1, <1>3, <2>1, <2>3 DEF Ledgers!LocalAnswer, LedgerInv
    <3>4. /\ facts' = facts \union {f} /\ localFacts' = localFacts \union {f}
          /\ deliveries' = deliveries \union {n}
          /\ localDeliveries' = localDeliveries \union {n}
          /\ agreed' = TRUE
      BY <3>2, <3>3 DEF Ledgers!record, Ledgers!Written, LedgerInv
    <3> QED
      BY <2>2, <2>3, <3>4
  <2>4. CASE f \notin facts
    <3>1. Ledgers!SameId(facts, f) = {}
      BY <1>3, <2>4 DEF Ledgers!Conflict, Ledgers!SameId
    <3>2. Ledgers!RefundsExceed(f) <=> Ledgers!RefundGuard(f) \/ Ledgers!OriginalGuard(f)
      BY <1>f, <2>4, <3>1, NewRefunds, NewOriginal DEF FactOK
    <3>3. CASE Ledgers!RefundsExceed(f)
      <4>1. Ledgers!D1Answer(r) = "conflict"
        BY <3>2, <3>3 DEF Ledgers!D1Answer, Ledgers!Refused
      <4>2. Ledgers!LocalAnswer(r) = "conflict"
        BY <1>1, <1>3, <2>1, <2>4, <3>3 DEF Ledgers!LocalAnswer, LedgerInv
      <4>3. UNCHANGED <<facts, deliveries, localFacts, localDeliveries>> /\ agreed' = TRUE
        BY <4>1, <4>2 DEF Ledgers!record, Ledgers!Written, LedgerInv
      <4> QED
        BY <4>3 DEF LedgerInv, Ledgers!Covered
    <3>4. CASE ~ Ledgers!RefundsExceed(f)
      <4>1. Ledgers!D1Answer(r) = "recorded"
        BY <1>3, <2>4, <3>2, <3>4 DEF Ledgers!D1Answer, Ledgers!Refused
      <4>2. Ledgers!LocalAnswer(r) = "recorded"
        BY <1>1, <1>3, <2>1, <2>4, <3>4 DEF Ledgers!LocalAnswer, LedgerInv
      <4>3. /\ facts' = facts \union {f} /\ localFacts' = localFacts \union {f}
            /\ deliveries' = deliveries \union {n}
            /\ localDeliveries' = localDeliveries \union {n}
            /\ agreed' = TRUE
        BY <4>1, <4>2 DEF Ledgers!record, Ledgers!Written, LedgerInv
      <4> QED
        BY <2>2, <3>2, <3>4, <4>3
    <3> QED
      BY <3>3, <3>4
  <2> QED
    BY <2>3, <2>4
<1> QED
  BY <1>2, <1>3

\* Empty ledgers agree.
LEMMA LedgerBegins ==
  ASSUME Ledgers!Init
  PROVE  LedgerInv
<1>1. facts = {} /\ deliveries = {} /\ localFacts = {} /\ localDeliveries = {} /\ agreed = TRUE
  BY DEF Ledgers!Init
<1>2. Ledgers!Covered
  BY <1>1 DEF Ledgers!Covered, Ledgers!Of
<1>3. IsFiniteSet(facts)
  BY <1>1, FS_EmptySet
<1> QED
  BY <1>1, <1>2, <1>3 DEF LedgerInv
-----------------------------------------------------------------------------
(* The sums of the local report.                                           *)

\* The total of a set of facts is that of one of them added to the others'.
TotalStep(S) ==
  /\ S = {} => Ledgers!Total(S) = Ledgers!Empty
  /\ \A x \in S : Ledgers!Total(S) = Ledgers!AddFact(x, Ledgers!Total(S \ {x}))

\* A total over facts is the total of the others and what one fact adds to it.
LEMMA TotalsStep ==
  ASSUME LedgerInv
  PROVE  \A S \in SUBSET facts : TotalStep(S)
<1> SUFFICES ASSUME NEW S \in SUBSET facts
             PROVE  TotalStep(S)
  OBVIOUS
<1> DEFINE Paid(F) == Ledgers!Of(F, "payment")
<1> DEFINE Back(F) == {f \in Ledgers!Of(F, "refund") : Ledgers!HasOriginal(f)}
<1> DEFINE Wait(F) == Ledgers!Of(F, "refund") \ Back(F)
<1> DEFINE A(F) == Ledgers!Amount(F)
<1>1. \A F \in SUBSET facts : AmountSplits(F)
  <2>1. \A f \in facts : f.amount \in Nat
    BY FactsOK DEF FactOK
  <2> QED
    BY <2>1, AmountsSplit DEF LedgerInv
<1>2. \A F \in SUBSET facts : A(F) \in Nat /\ \A y \in F : A(F) = y.amount + A(F \ {y})
  BY <1>1 DEF AmountSplits
<1>3. \A F \in SUBSET facts :
        Paid(F) \in SUBSET facts /\ Back(F) \in SUBSET facts /\ Wait(F) \in SUBSET facts
  BY DEF Ledgers!Of
<1>4. \A F : Ledgers!Total(F) =
        [gross |-> A(Paid(F)), refunds |-> A(Back(F)), pending |-> A(Wait(F)),
         net |-> A(Paid(F)) - A(Back(F))]
  BY DEF Ledgers!Total
<1>5. ASSUME S = {}
      PROVE  Ledgers!Total(S) = Ledgers!Empty
  <2>1. Paid(S) = {} /\ Back(S) = {} /\ Wait(S) = {}
    BY <1>5 DEF Ledgers!Of
  <2>2. A({}) = 0
    <3>1. {} \in SUBSET {} /\ IsFiniteSet({})
      BY FS_EmptySet
    <3>2. AmountStep({})
      BY <3>1, AmountUnfolds
    <3> QED
      BY <3>2 DEF AmountStep
  <2> HIDE DEF A, Paid, Back, Wait
  <2> QED
    BY <1>4, <2>1, <2>2 DEF Ledgers!Empty
<1>6. ASSUME NEW x \in S
      PROVE  Ledgers!Total(S) = Ledgers!AddFact(x, Ledgers!Total(S \ {x}))
  <2> DEFINE T == S \ {x}
  <2>1. x \in facts /\ x.kind \in {"payment", "refund"} /\ x.amount \in Nat
    BY FactsOK DEF FactOK
  <2>2. /\ A(Paid(T)) \in Nat /\ A(Back(T)) \in Nat /\ A(Wait(T)) \in Nat
        /\ A(Paid(S)) \in Nat /\ A(Back(S)) \in Nat /\ A(Wait(S)) \in Nat
    <3>1. S \in SUBSET facts /\ T \in SUBSET facts
      OBVIOUS
    <3> HIDE DEF A, Paid, Back, Wait, T
    <3> QED
      BY <1>2, <1>3, <3>1
  <2>3. Ledgers!Total(T) =
        [gross |-> A(Paid(T)), refunds |-> A(Back(T)), pending |-> A(Wait(T)),
         net |-> A(Paid(T)) - A(Back(T))]
    BY <1>4
  <2>l. Ledgers!Original(localFacts, x) = Ledgers!Original(facts, x)
    BY DEF LedgerInv
  <2>4. CASE x.kind = "payment"
    <3>1. Paid(S) \ {x} = Paid(T) /\ x \in Paid(S) /\ Back(S) = Back(T) /\ Wait(S) = Wait(T)
      BY <2>4 DEF Ledgers!Of
    <3>2. A(Paid(S)) = x.amount + A(Paid(T))
      BY <1>2, <1>3, <3>1
    <3>3. Ledgers!AddFact(x, Ledgers!Total(T)) =
            [Ledgers!Total(T) EXCEPT !.gross = Ledgers!Total(T).gross + x.amount,
                                     !.net = Ledgers!Total(T).net + x.amount]
      BY <2>4 DEF Ledgers!AddFact
    <3>4. PICK m : m = A(Paid(T))
      OBVIOUS
    <3>5. PICK b : b = A(Back(T))
      OBVIOUS
    <3>6. x.amount + m = m + x.amount /\ (x.amount + m) - b = (m - b) + x.amount
      BY <2>1, <2>2, <3>4, <3>5
    <3>7. Ledgers!Total(S) = [gross |-> x.amount + m, refunds |-> b, pending |-> A(Wait(T)),
                              net |-> (x.amount + m) - b]
      BY <1>4, <3>1, <3>2, <3>4, <3>5
    <3>8. Ledgers!Total(T) = [gross |-> m, refunds |-> b, pending |-> A(Wait(T)),
                              net |-> m - b]
      BY <2>3, <3>4, <3>5
    <3> HIDE DEF A, Paid, Back, Wait, T
    <3>9. Ledgers!AddFact(x, Ledgers!Total(T)) =
            [gross |-> m + x.amount, refunds |-> b, pending |-> A(Wait(T)),
             net |-> (m - b) + x.amount]
      <4>1. Ledgers!Total(T).gross = m /\ Ledgers!Total(T).net = m - b
        BY <3>8
      <4>t. PICK t : t = Ledgers!Total(T)
        OBVIOUS
      <4>u. PICK u : u = m + x.amount
        OBVIOUS
      <4>v. PICK v : v = (m - b) + x.amount
        OBVIOUS
      <4>q. PICK q : q = A(Wait(T))
        OBVIOUS
      <4>2. PICK d : d = m - b
        OBVIOUS
      <4>3. t = [gross |-> m, refunds |-> b, pending |-> q, net |-> d]
        BY <3>8, <4>2, <4>q, <4>t
      <4>4. [t EXCEPT !.gross = u, !.net = v] =
              [gross |-> u, refunds |-> b, pending |-> q, net |-> v]
        <5>1. [t EXCEPT !.gross = u] = [gross |-> u, refunds |-> b, pending |-> q, net |-> d]
          BY <4>3
        <5>2. [[gross |-> u, refunds |-> b, pending |-> q, net |-> d] EXCEPT !.net = v] =
                [gross |-> u, refunds |-> b, pending |-> q, net |-> v]
          OBVIOUS
        <5>3. [t EXCEPT !.gross = u, !.net = v] = [[t EXCEPT !.gross = u] EXCEPT !.net = v]
          OBVIOUS
        <5> QED
          BY <5>1, <5>2, <5>3
      <4>5. Ledgers!AddFact(x, Ledgers!Total(T)) = [t EXCEPT !.gross = u, !.net = v]
        BY <3>3, <4>1, <4>t, <4>u, <4>v
      <4> QED
        BY <4>4, <4>5, <4>u, <4>v, <4>q
    <3>10. Ledgers!Total(S) = Ledgers!AddFact(x, Ledgers!Total(T))
      BY <3>6, <3>7, <3>9
    <3> QED
      BY <3>10 DEF T
  <2>5. CASE x.kind = "refund" /\ Ledgers!HasOriginal(x)
    <3>1. Back(S) \ {x} = Back(T) /\ x \in Back(S) /\ Paid(S) = Paid(T) /\ Wait(S) = Wait(T)
      BY <2>5 DEF Ledgers!Of
    <3>2. A(Back(S)) = x.amount + A(Back(T))
      BY <1>2, <1>3, <3>1
    <3>3. Ledgers!AddFact(x, Ledgers!Total(T)) =
            [Ledgers!Total(T) EXCEPT !.refunds = Ledgers!Total(T).refunds + x.amount,
                                     !.net = Ledgers!Total(T).net - x.amount]
      BY <2>5, <2>l DEF Ledgers!AddFact, Ledgers!HasOriginal
    <3>4. PICK m : m = A(Paid(T))
      OBVIOUS
    <3>5. PICK b : b = A(Back(T))
      OBVIOUS
    <3>6. x.amount + b = b + x.amount /\ m - (x.amount + b) = (m - b) - x.amount
      BY <2>1, <2>2, <3>4, <3>5
    <3>7. Ledgers!Total(S) = [gross |-> m, refunds |-> x.amount + b, pending |-> A(Wait(T)),
                              net |-> m - (x.amount + b)]
      BY <1>4, <3>1, <3>2, <3>4, <3>5
    <3>8. Ledgers!Total(T) = [gross |-> m, refunds |-> b, pending |-> A(Wait(T)),
                              net |-> m - b]
      BY <2>3, <3>4, <3>5
    <3> HIDE DEF A, Paid, Back, Wait, T
    <3>9. Ledgers!AddFact(x, Ledgers!Total(T)) =
            [gross |-> m, refunds |-> b + x.amount, pending |-> A(Wait(T)),
             net |-> (m - b) - x.amount]
      <4>1. Ledgers!Total(T).refunds = b /\ Ledgers!Total(T).net = m - b
        BY <3>8
      <4>t. PICK t : t = Ledgers!Total(T)
        OBVIOUS
      <4>u. PICK u : u = b + x.amount
        OBVIOUS
      <4>v. PICK v : v = (m - b) - x.amount
        OBVIOUS
      <4>q. PICK q : q = A(Wait(T))
        OBVIOUS
      <4>2. PICK d : d = m - b
        OBVIOUS
      <4>3. t = [gross |-> m, refunds |-> b, pending |-> q, net |-> d]
        BY <3>8, <4>2, <4>q, <4>t
      <4>4. [t EXCEPT !.refunds = u, !.net = v] =
              [gross |-> m, refunds |-> u, pending |-> q, net |-> v]
        <5>1. [t EXCEPT !.refunds = u] = [gross |-> m, refunds |-> u, pending |-> q, net |-> d]
          BY <4>3
        <5>2. [[gross |-> m, refunds |-> u, pending |-> q, net |-> d] EXCEPT !.net = v] =
                [gross |-> m, refunds |-> u, pending |-> q, net |-> v]
          OBVIOUS
        <5>3. [t EXCEPT !.refunds = u, !.net = v] = [[t EXCEPT !.refunds = u] EXCEPT !.net = v]
          OBVIOUS
        <5> QED
          BY <5>1, <5>2, <5>3
      <4>5. Ledgers!AddFact(x, Ledgers!Total(T)) = [t EXCEPT !.refunds = u, !.net = v]
        BY <3>3, <4>1, <4>t, <4>u, <4>v
      <4> QED
        BY <4>4, <4>5, <4>u, <4>v, <4>q
    <3>10. Ledgers!Total(S) = Ledgers!AddFact(x, Ledgers!Total(T))
      BY <3>6, <3>7, <3>9
    <3> QED
      BY <3>10 DEF T
  <2>6. CASE x.kind = "refund" /\ ~ Ledgers!HasOriginal(x)
    <3>1. Wait(S) \ {x} = Wait(T) /\ x \in Wait(S) /\ Paid(S) = Paid(T) /\ Back(S) = Back(T)
      BY <2>6 DEF Ledgers!Of
    <3>2. A(Wait(S)) = x.amount + A(Wait(T))
      BY <1>2, <1>3, <3>1
    <3>3. Ledgers!AddFact(x, Ledgers!Total(T)) =
            [Ledgers!Total(T) EXCEPT !.pending = @ + x.amount]
      BY <2>6, <2>l DEF Ledgers!AddFact, Ledgers!HasOriginal
    <3>4. PICK q : q = A(Wait(T))
      OBVIOUS
    <3>6. x.amount + q = q + x.amount
      BY <2>1, <2>2, <3>4
    <3>7. Ledgers!Total(S) = [gross |-> A(Paid(T)), refunds |-> A(Back(T)),
                              pending |-> x.amount + q, net |-> A(Paid(T)) - A(Back(T))]
      BY <1>4, <3>1, <3>2, <3>4
    <3>8. Ledgers!Total(T) = [gross |-> A(Paid(T)), refunds |-> A(Back(T)), pending |-> q,
                              net |-> A(Paid(T)) - A(Back(T))]
      BY <2>3, <3>4
    <3> HIDE DEF A, Paid, Back, Wait, T
    <3>9. Ledgers!AddFact(x, Ledgers!Total(T)) =
            [gross |-> A(Paid(T)), refunds |-> A(Back(T)), pending |-> q + x.amount,
             net |-> A(Paid(T)) - A(Back(T))]
      BY <3>3, <3>8
    <3>10. Ledgers!Total(S) = Ledgers!AddFact(x, Ledgers!Total(T))
      BY <3>6, <3>7, <3>9
    <3> QED
      BY <3>10 DEF T
  <2> QED
    BY <2>1, <2>4, <2>5, <2>6
<1> QED
  BY <1>5, <1>6 DEF TotalStep

\* To add up the facts one by one gives their total.
LEMMA FoldsToTotal ==
  ASSUME LedgerInv, NEW F \in SUBSET facts
  PROVE  Ledgers!FoldSet(Ledgers!AddFact, Ledgers!Empty, F) = Ledgers!Total(F)
<1> DEFINE Step(it, s) ==
      IF s = {} THEN Ledgers!Empty ELSE Ledgers!AddFact(Some(s), it[s \ {Some(s)}])
<1> DEFINE it == CHOOSE it : it = [s \in SUBSET F |-> Step(it, s)]
<1>1. Ledgers!FoldSet(Ledgers!AddFact, Ledgers!Empty, F) = it[F]
  BY DEF Ledgers!FoldSet, Ledgers!MapThenFoldSet, Some
<1>2. \A s \in SUBSET F : TotalStep(s)
  BY TotalsStep
<1>3. \E g : g = [s \in SUBSET F |-> Step(g, s)]
  <2> DEFINE g == [s \in SUBSET F |-> Ledgers!Total(s)]
  <2>1. ASSUME NEW s \in SUBSET F
        PROVE  g[s] = Step(g, s)
    <3>1. CASE s = {}
      BY <1>2, <3>1 DEF TotalStep
    <3>2. CASE s # {}
      <4>1. Some(s) \in s
        BY <3>2, SomeIn
      <4>2. Ledgers!Total(s) = Ledgers!AddFact(Some(s), Ledgers!Total(s \ {Some(s)}))
        BY <1>2, <4>1 DEF TotalStep
      <4>3. g[s \ {Some(s)}] = Ledgers!Total(s \ {Some(s)})
        BY <4>1
      <4> QED
        BY <3>2, <4>2, <4>3
    <3> QED
      BY <3>1, <3>2
  <2>2. g = [s \in SUBSET F |-> Step(g, s)]
    BY <2>1
  <2> QED
    BY <2>2
<1>4. it = [s \in SUBSET F |-> Step(it, s)]
  BY <1>3
<1> HIDE DEF it
<1>5. \A s \in SUBSET F : it[s] = Step(it, s)
  BY <1>4
<1>6. \A s \in SUBSET F : it[s] = Ledgers!Total(s)
  <2> DEFINE Wrong == {s \in SUBSET F : it[s] # Ledgers!Total(s)}
  <2> SUFFICES ASSUME Wrong # {}
               PROVE  FALSE
    OBVIOUS
  <2>1. PICK s \in Wrong : \A t \in Wrong : t \subseteq s => t = s
    <3>1. Wrong \in SUBSET (SUBSET F) /\ IsFiniteSet(F)
      BY FS_Subset DEF LedgerInv
    <3> HIDE DEF Wrong
    <3> QED
      BY <3>1, SmallestSubset
  <2>2. s \in SUBSET F /\ it[s] # Ledgers!Total(s)
    OBVIOUS
  <2>3. TotalStep(s) /\ it[s] = Step(it, s)
    BY <1>2, <1>5, <2>2
  <2>4. CASE s = {}
    BY <2>2, <2>3, <2>4 DEF TotalStep
  <2>5. CASE s # {}
    <3> DEFINE u == s \ {Some(s)}
    <3>1. Some(s) \in s
      BY <2>5, SomeIn
    <3>2. u \in SUBSET F /\ u \subseteq s /\ u # s
      BY <2>2, <3>1
    <3>3. u \notin Wrong
      <4> HIDE DEF Wrong
      <4> QED
        BY <2>1, <3>2
    <3>4. it[u] = Ledgers!Total(u)
      BY <3>2, <3>3
    <3> QED
      BY <2>2, <2>3, <2>5, <3>1, <3>4 DEF TotalStep
  <2> QED
    BY <2>4, <2>5
<1> QED
  BY <1>1, <1>6

\* What is kept says that no payment is refunded beyond its amount and that the
\* local ledger answers and reports what the database does.
LEMMA LedgerEnough ==
  ASSUME LedgerInv
  PROVE  Ledgers!Covered /\ Ledgers!Alike
<1>1. ASSUME NEW p \in Periods
      PROVE  Ledgers!Report(p) = Ledgers!LocalReport(p)
  <2> DEFINE Group(g) ==
        {f \in Ledgers!InPeriod(facts, p) : <<f.currency, Ledgers!Source(facts, f)>> = g}
  <2>1. Ledgers!Report(p) =
          [g \in Ledgers!Groups(facts, p) |-> Ledgers!Total(Group(g))]
    BY DEF Ledgers!Report
  <2>2. Ledgers!LocalReport(p) =
          [g \in Ledgers!Groups(facts, p) |->
             Ledgers!FoldSet(Ledgers!AddFact, Ledgers!Empty, Group(g))]
    BY DEF Ledgers!LocalReport, LedgerInv
  <2>3. \A g : Group(g) \in SUBSET facts
    BY DEF Ledgers!InPeriod
  <2> HIDE DEF Group
  <2>4. \A g : Ledgers!FoldSet(Ledgers!AddFact, Ledgers!Empty, Group(g)) = Ledgers!Total(Group(g))
    BY <2>3, FoldsToTotal
  <2> QED
    BY <2>1, <2>2, <2>4
<1> QED
  BY <1>1 DEF LedgerInv, Ledgers!Alike

\* The loop of factsInWindow has a function: it starts empty and takes a turn per fact.
LEMMA ObservedIs ==
  ASSUME Len(source) \in Nat
  PROVE  \A k \in 0..Len(source) :
           Report!Observed[k] =
             IF k = 0 THEN [facts |-> {}, conflicts |-> {}]
             ELSE Report!Observe(Report!Observed[k - 1], source[k])
<1> DEFINE n == Len(source)
<1> DEFINE Goes(g, k) ==
      IF k = 0 THEN [facts |-> {}, conflicts |-> {}] ELSE Report!Observe(g[k - 1], source[k])
<1> DEFINE Upto(m) == \E g : g = [k \in 0..m |-> Goes(g, k)]
<1>1. \A m \in 0..n : Upto(m)
  <2> DEFINE Bad == {m \in 0..n : ~ Upto(m)}
  <2> SUFFICES ASSUME Bad # {}
               PROVE  FALSE
    OBVIOUS
  <2>1. PICK m \in Bad : \A j \in Bad : m <= j
    <3>1. Bad \in SUBSET Nat
      OBVIOUS
    <3> HIDE DEF Bad
    <3> QED
      BY <3>1, LeastOf
  <2>2. CASE m = 0
    <3> DEFINE g == [k \in 0..0 |-> [facts |-> {}, conflicts |-> {}]]
    <3>1. g = [k \in 0..0 |-> Goes(g, k)]
      OBVIOUS
    <3> QED
      BY <2>1, <2>2, <3>1
  <2>3. CASE m # 0
    <3>1. m - 1 \in 0..n /\ m \in 1..n
      BY <2>1, <2>3
    <3>2. Upto(m - 1)
      <4>1. m - 1 \notin Bad
        <5> HIDE DEF Bad
        <5> QED
          BY <2>1, <3>1
      <4> HIDE DEF Upto
      <4> QED
        BY <3>1, <4>1
    <3>3. PICK f : f = [k \in 0..(m - 1) |-> Goes(f, k)]
      BY <3>2
    <3> DEFINE g == [k \in 0..m |-> IF k < m THEN f[k] ELSE Goes(f, m)]
    <3>4. ASSUME NEW k \in 0..m
          PROVE  g[k] = Goes(g, k)
      <4>1. CASE k = 0
        <5>1. 0 \in 0..(m - 1)
          BY <3>1
        <5>2. f[0] = Goes(f, 0)
          BY <3>3, <5>1
        <5> QED
          BY <3>1, <4>1, <5>2
      <4>2. CASE k # 0
        <5>1. k - 1 \in 0..m /\ k - 1 < m
          BY <3>1, <4>2
        <5>2. g[k - 1] = f[k - 1]
          BY <5>1
        <5>3. Goes(g, k) = Goes(f, k)
          BY <5>2
        <5>4. CASE k < m
          <6>1. k \in 0..(m - 1)
            BY <3>1, <5>4
          <6>2. f[k] = Goes(f, k)
            BY <3>3, <6>1
          <6> QED
            BY <5>3, <5>4, <6>2
        <5>5. CASE k = m
          BY <5>3, <5>5, <3>1
        <5> QED
          BY <3>1, <5>4, <5>5
      <4> QED
        BY <4>1, <4>2
    <3>5. g = [k \in 0..m |-> Goes(g, k)]
      BY <3>4
    <3> QED
      BY <2>1, <3>5
  <2> QED
    BY <2>2, <2>3
<1>2. PICK g : g = [k \in 0..n |-> Goes(g, k)]
  <2>1. n \in 0..n
    OBVIOUS
  <2>2. Upto(n)
    <3> HIDE DEF Upto
    <3> QED
      BY <1>1, <2>1
  <2> QED
    BY <2>2
<1>3. Report!Observed = CHOOSE h : h = [k \in 0..n |-> Goes(h, k)]
  BY DEF Report!Observed
<1>4. Report!Observed = [k \in 0..n |-> Goes(Report!Observed, k)]
  BY <1>2, <1>3
<1> QED
  BY <1>4

\* So has the loop of sessionProgress.
LEMMA ProgressedIs ==
  ASSUME NEW events, Len(events) \in Nat
  PROVE  \A k \in 0..Len(events) :
           Report!Progressed(events)[k] =
             IF k = 0 THEN Report!NoProgress
             ELSE Report!Progress(Report!Progressed(events)[k - 1], events[k])
<1> DEFINE n == Len(events)
<1> DEFINE Goes(g, k) ==
      IF k = 0 THEN Report!NoProgress ELSE Report!Progress(g[k - 1], events[k])
<1> DEFINE Upto(m) == \E g : g = [k \in 0..m |-> Goes(g, k)]
<1>1. \A m \in 0..n : Upto(m)
  <2> DEFINE Bad == {m \in 0..n : ~ Upto(m)}
  <2> SUFFICES ASSUME Bad # {}
               PROVE  FALSE
    OBVIOUS
  <2>1. PICK m \in Bad : \A j \in Bad : m <= j
    <3>1. Bad \in SUBSET Nat
      OBVIOUS
    <3> HIDE DEF Bad
    <3> QED
      BY <3>1, LeastOf
  <2>2. CASE m = 0
    <3> DEFINE g == [k \in 0..0 |-> Report!NoProgress]
    <3>1. g = [k \in 0..0 |-> Goes(g, k)]
      OBVIOUS
    <3> QED
      BY <2>1, <2>2, <3>1
  <2>3. CASE m # 0
    <3>1. m - 1 \in 0..n /\ m \in 1..n
      BY <2>1, <2>3
    <3>2. Upto(m - 1)
      <4>1. m - 1 \notin Bad
        <5> HIDE DEF Bad
        <5> QED
          BY <2>1, <3>1
      <4> HIDE DEF Upto
      <4> QED
        BY <3>1, <4>1
    <3>3. PICK f : f = [k \in 0..(m - 1) |-> Goes(f, k)]
      BY <3>2
    <3> DEFINE g == [k \in 0..m |-> IF k < m THEN f[k] ELSE Goes(f, m)]
    <3>4. ASSUME NEW k \in 0..m
          PROVE  g[k] = Goes(g, k)
      <4>1. CASE k = 0
        <5>1. 0 \in 0..(m - 1)
          BY <3>1
        <5>2. f[0] = Goes(f, 0)
          BY <3>3, <5>1
        <5> QED
          BY <3>1, <4>1, <5>2
      <4>2. CASE k # 0
        <5>1. k - 1 \in 0..m /\ k - 1 < m
          BY <3>1, <4>2
        <5>2. g[k - 1] = f[k - 1]
          BY <5>1
        <5>3. Goes(g, k) = Goes(f, k)
          BY <5>2
        <5>4. CASE k < m
          <6>1. k \in 0..(m - 1)
            BY <3>1, <5>4
          <6>2. f[k] = Goes(f, k)
            BY <3>3, <6>1
          <6> QED
            BY <5>3, <5>4, <6>2
        <5>5. CASE k = m
          BY <5>3, <5>5, <3>1
        <5> QED
          BY <3>1, <5>4, <5>5
      <4> QED
        BY <4>1, <4>2
    <3>5. g = [k \in 0..m |-> Goes(g, k)]
      BY <3>4
    <3> QED
      BY <2>1, <3>5
  <2> QED
    BY <2>2, <2>3
<1>2. PICK g : g = [k \in 0..n |-> Goes(g, k)]
  <2>1. n \in 0..n
    OBVIOUS
  <2>2. Upto(n)
    <3> HIDE DEF Upto
    <3> QED
      BY <1>1, <2>1
  <2> QED
    BY <2>2
<1>3. Report!Progressed(events) = CHOOSE h : h = [k \in 0..n |-> Goes(h, k)]
  BY DEF Report!Progressed
<1>4. Report!Progressed(events) = [k \in 0..n |-> Goes(Report!Progressed(events), k)]
  BY <1>2, <1>3
<1> QED
  BY <1>4

-----------------------------------------------------------------------------
(* The facts of a report.                                                  *)

\* The report counts sets as the proofs do.
LEMMA ReportsCount ==
  ASSUME NEW S
  PROVE  /\ Report!Cardinality(S) = Cardinality(S)
         /\ Report!IsFiniteSet(S) <=> IsFiniteSet(S)
  BY DEF Report!Cardinality, Cardinality, Report!IsFiniteSet, IsFiniteSet

\* The numbers of a report, from the assumption on its constants.
LEMMA ReportNumbers ==
  /\ Steps \in Nat /\ Steps >= 1 /\ Within \in Nat /\ RangeFrom \in Nat /\ RangeTo \in Nat
  /\ Limit \in Nat /\ None \notin Nat
  /\ \A f \in Fact : f.key \in Nat /\ f.at \in Nat /\ f.matches \subseteq 1..Steps
                     /\ f.entry \in BOOLEAN
BY StoreScales DEF Report!ConversionScale

InRange(f) == f.at >= RangeFrom /\ f.at < RangeTo

KeysOf(F) == {f.key : f \in F}

\* The identities with two meanings, and the facts of the others.
Twice(F) == {f.key : f \in {g \in F : \E h \in F : h.key = g.key /\ h # g}}
Clean(F) == {f \in F : f.key \notin Twice(F)}

\* What the loop has after the facts of F in any order.
Seen(F) ==
  IF Cardinality(KeysOf(F)) > Limit THEN Report!Exceeded
  ELSE [facts |-> Clean(F), conflicts |-> Twice(F)]

\* As many identities as facts have keys.
LEMMA KeysFinite ==
  ASSUME NEW F, IsFiniteSet(F)
  PROVE  IsFiniteSet(KeysOf(F))
<1> DEFINE k == [f \in F |-> f.key]
<1>1. k \in Surjection(F, KeysOf(F))
  BY DEF Surjection, KeysOf
<1> QED
  BY <1>1, FS_Surjection

\* An identity has one meaning or several: the two kinds together are all of them.
LEMMA CleanAndTwice ==
  ASSUME NEW F, IsFiniteSet(F)
  PROVE  /\ IsFiniteSet(Clean(F)) /\ IsFiniteSet(Twice(F))
         /\ Cardinality(Clean(F)) + Cardinality(Twice(F)) = Cardinality(KeysOf(F))
<1>1. IsFiniteSet(Clean(F)) /\ IsFiniteSet(KeysOf(F))
  BY FS_Subset, KeysFinite DEF Clean
<1>2. Twice(F) \subseteq KeysOf(F) /\ IsFiniteSet(Twice(F))
  <2>1. Twice(F) \subseteq KeysOf(F)
    BY DEF Twice, KeysOf
  <2> QED
    BY <1>1, <2>1, FS_Subset
<1>3. IsFiniteSet(KeysOf(Clean(F))) /\ Cardinality(KeysOf(Clean(F))) = Cardinality(Clean(F))
  <2> DEFINE k == [f \in Clean(F) |-> f.key]
  <2>1. k \in Surjection(Clean(F), KeysOf(Clean(F)))
    BY DEF Surjection, KeysOf
  <2>2. \A f, g \in Clean(F) : f.key = g.key => f = g
    BY DEF Clean, Twice
  <2>3. k \in Injection(Clean(F), KeysOf(Clean(F)))
    <3>1. k \in [Clean(F) -> KeysOf(Clean(F))]
      BY DEF KeysOf
    <3>2. \A f, g \in Clean(F) : k[f] = k[g] => f = g
      BY <2>2
    <3> QED
      BY <3>1, <3>2 DEF Injection, IsInjective
  <2> QED
    BY <1>1, <2>1, <2>3, FS_Surjection
<1>4. KeysOf(F) = KeysOf(Clean(F)) \union Twice(F) /\ KeysOf(Clean(F)) \cap Twice(F) = {}
  BY DEF KeysOf, Clean, Twice
<1>5. Cardinality(KeysOf(F)) =
        Cardinality(KeysOf(Clean(F))) + Cardinality(Twice(F)) - Cardinality({})
  BY <1>2, <1>3, <1>4, FS_Union
<1>6. Cardinality({}) = 0
  BY FS_EmptySet
<1>7. Cardinality(Clean(F)) \in Nat /\ Cardinality(Twice(F)) \in Nat
  BY <1>1, <1>2, FS_CardinalityType
<1> QED
  BY <1>1, <1>2, <1>3, <1>5, <1>6, <1>7

\* One turn of the loop, whatever came before.
LEMMA ObserveStep ==
  ASSUME NEW F, IsFiniteSet(F), NEW f \in Fact
  PROVE  Report!Observe(Seen(F), f) = Seen(IF InRange(f) THEN F \union {f} ELSE F)
<1> DEFINE o == Seen(F)
<1> DEFINE G == F \union {f}
<1>l. Limit \in Nat /\ f.at \in Nat /\ RangeFrom \in Nat /\ RangeTo \in Nat
  BY ReportNumbers
<1>c. /\ IsFiniteSet(KeysOf(F)) /\ Cardinality(KeysOf(F)) \in Nat
      /\ IsFiniteSet(G) /\ IsFiniteSet(KeysOf(G)) /\ Cardinality(KeysOf(G)) \in Nat
  BY KeysFinite, FS_AddElement, FS_CardinalityType
<1>k. KeysOf(G) = KeysOf(F) \union {f.key}
  BY DEF KeysOf
<1>e. [facts |-> Clean(F), conflicts |-> Twice(F)] # Report!Exceeded
  <2>1. "facts" \in DOMAIN [facts |-> Clean(F), conflicts |-> Twice(F)]
    OBVIOUS
  <2>2. "facts" \notin DOMAIN Report!Exceeded
    BY DEF Report!Exceeded
  <2> QED
    BY <2>1, <2>2
<1>1. CASE ~ InRange(f)
  <2>1. f.at < RangeFrom \/ f.at >= RangeTo
    BY <1>l, <1>1 DEF InRange
  <2> QED
    BY <1>1, <2>1 DEF Report!Observe
<1>2. CASE InRange(f) /\ Cardinality(KeysOf(F)) > Limit
  <2>1. o = Report!Exceeded
    BY <1>2 DEF Seen
  <2>2. Cardinality(KeysOf(F)) <= Cardinality(KeysOf(G))
    BY <1>c, <1>k, FS_Subset
  <2>3. Cardinality(KeysOf(G)) > Limit
    BY <1>l, <1>c, <1>2, <2>2
  <2> QED
    BY <1>2, <2>1, <2>3 DEF Seen, Report!Observe
<1>3. CASE InRange(f) /\ ~ Cardinality(KeysOf(F)) > Limit
  <2>1. o = [facts |-> Clean(F), conflicts |-> Twice(F)] /\ o # Report!Exceeded
    BY <1>3, <1>e DEF Seen
  <2>i. f.at >= RangeFrom /\ f.at < RangeTo
    BY <1>3 DEF InRange
  <2>2. CASE f.key \in Twice(F)
    <3>1. Twice(G) = Twice(F) /\ Clean(G) = Clean(F)
      BY <2>2 DEF Twice, Clean
    <3>2. KeysOf(G) = KeysOf(F)
      BY <1>k, <2>2 DEF Twice, KeysOf
    <3>3. Seen(G) = o
      BY <1>3, <2>1, <3>1, <3>2 DEF Seen
    <3>4. Report!Observe(o, f) = o
      BY <2>1, <2>2 DEF Report!Observe
    <3> QED
      BY <1>3, <3>3, <3>4
  <2>3. CASE f.key \notin Twice(F) /\ \E g \in Clean(F) : g.key = f.key /\ g # f
    <3>1. PICK g \in Clean(F) : g.key = f.key /\ g # f
      BY <2>3
    <3>2. Twice(G) = Twice(F) \union {f.key}
      BY <3>1 DEF Twice, Clean
    <3>3. Clean(G) = {h \in Clean(F) : h.key # f.key}
      BY <3>2 DEF Clean
    <3>4. KeysOf(G) = KeysOf(F)
      BY <1>k, <3>1 DEF Clean, KeysOf
    <3>5. Seen(G) = [facts |-> Clean(G), conflicts |-> Twice(G)]
      BY <1>3, <3>4 DEF Seen
    <3>6. ~ (f.at < RangeFrom \/ f.at >= RangeTo)
      BY <1>l, <1>3 DEF InRange
    <3>7. Report!Observe(o, f) = Report!Conflicting(o, f)
      BY <2>1, <2>3, <3>6 DEF Report!Observe
    <3>8. Report!Conflicting(o, f) =
            [facts |-> {h \in Clean(F) : h.key # f.key}, conflicts |-> Twice(F) \union {f.key}]
      BY <2>1 DEF Report!Conflicting
    <3> QED
      BY <1>3, <3>2, <3>3, <3>5, <3>7, <3>8
  <2>4. CASE f.key \notin Twice(F) /\ ~ \E g \in Clean(F) : g.key = f.key /\ g # f
    <3>1. \A g \in F : g.key = f.key => g = f
      BY <2>4 DEF Clean
    <3>2. Twice(G) = Twice(F)
      BY <3>1 DEF Twice
    <3>3. Clean(G) = Clean(F) \union {f}
      BY <2>4, <3>2 DEF Clean
    <3>4. Cardinality(Clean(G)) + Cardinality(Twice(G)) = Cardinality(KeysOf(G))
      BY <1>c, CleanAndTwice
    <3>6. ~ (f.at < RangeFrom \/ f.at >= RangeTo)
      BY <1>l, <1>3 DEF InRange
    <3> DEFINE w == [o EXCEPT !.facts = @ \union {f}]
    <3>7. Report!Observe(o, f) = Report!Bounded(w)
      BY <2>1, <2>4, <3>6 DEF Report!Observe
    <3>8. w = [facts |-> Clean(G), conflicts |-> Twice(G)]
      BY <2>1, <3>2, <3>3
    <3>9. Report!Bounded(w) =
            IF Cardinality(Clean(G)) + Cardinality(Twice(G)) > Limit THEN Report!Exceeded ELSE w
      BY <3>8, ReportsCount DEF Report!Bounded
    <3> QED
      BY <1>3, <3>4, <3>7, <3>8, <3>9 DEF Seen
  <2> QED
    BY <2>2, <2>3, <2>4
<1> QED
  BY <1>1, <1>2, <1>3

\* The facts in range among the first n that were read.
FirstRead(n) == {f \in {source[i] : i \in 1..n} : InRange(f)}

\* After each turn the loop has what the facts read so far say.
LEMMA ObservedSeen ==
  ASSUME source \in Seq(Fact)
  PROVE  \A n \in 0..Len(source) :
           IsFiniteSet(FirstRead(n)) /\ Report!Observed[n] = Seen(FirstRead(n))
<1> DEFINE Fine(n) == IsFiniteSet(FirstRead(n)) /\ Report!Observed[n] = Seen(FirstRead(n))
<1>0. Len(source) \in Nat
  OBVIOUS
<1>1. Fine(0)
  <2>1. FirstRead(0) = {}
    BY DEF FirstRead
  <2>2. Clean({}) = {} /\ Twice({}) = {} /\ KeysOf({}) = {}
    BY DEF Clean, Twice, KeysOf
  <2>3. Seen({}) = [facts |-> {}, conflicts |-> {}]
    <3>1. Cardinality({}) = 0 /\ ~ (0 > Limit)
      BY ReportNumbers, FS_EmptySet
    <3> QED
      BY <2>2, <3>1 DEF Seen
  <2>4. Report!Observed[0] = [facts |-> {}, conflicts |-> {}]
    BY <1>0, ObservedIs
  <2> QED
    BY <2>1, <2>3, <2>4, FS_EmptySet
<1>2. ASSUME NEW n \in 1..Len(source), Fine(n - 1)
      PROVE  Fine(n)
  <2>1. Report!Observed[n] = Report!Observe(Report!Observed[n - 1], source[n])
    BY <1>0, ObservedIs
  <2>2. FirstRead(n) =
          IF InRange(source[n]) THEN FirstRead(n - 1) \union {source[n]} ELSE FirstRead(n - 1)
    <3>1. 1..n = (1..(n - 1)) \union {n}
      OBVIOUS
    <3>2. {source[i] : i \in 1..n} = {source[i] : i \in 1..(n - 1)} \union {source[n]}
      BY <3>1
    <3> QED
      BY <3>2 DEF FirstRead
  <2>3. IsFiniteSet(FirstRead(n))
    <3>1. IsFiniteSet(FirstRead(n - 1) \union {source[n]})
      BY <1>2, FS_AddElement
    <3> QED
      BY <1>2, <2>2, <3>1
  <2>f. source[n] \in Fact
    OBVIOUS
  <2>4. Report!Observe(Seen(FirstRead(n - 1)), source[n]) = Seen(FirstRead(n))
    BY <1>2, <2>2, <2>f, ObserveStep
  <2> QED
    BY <1>2, <2>1, <2>3, <2>4
<1> HIDE DEF Fine
<1>3. \A n \in 0..Len(source) : Fine(n)
  <2> DEFINE Bad == {n \in 0..Len(source) : ~ Fine(n)}
  <2> SUFFICES ASSUME Bad # {}
               PROVE  FALSE
    OBVIOUS
  <2>1. PICK n \in Bad : \A j \in Bad : n <= j
    <3>1. Bad \in SUBSET Nat
      BY <1>0
    <3> HIDE DEF Bad
    <3> QED
      BY <3>1, LeastOf
  <2>2. n # 0
    BY <1>1
  <2>3. n \in 1..Len(source) /\ n - 1 \in 0..Len(source)
    BY <1>0, <2>1, <2>2
  <2>4. n - 1 \notin Bad
    <3> HIDE DEF Bad
    <3> QED
      BY <2>1, <2>3
  <2> QED
    BY <1>2, <2>1, <2>3, <2>4
<1> QED
  BY <1>3 DEF Fine

\* So the facts of the report are those with one meaning.
LEMMA FactsSeen ==
  ASSUME source \in Seq(Fact)
  PROVE  /\ IsFiniteSet(Report!InWindow) /\ Report!InWindow \subseteq Fact
         /\ Report!factsInWindow = Seen(Report!InWindow)
<1>1. FirstRead(Len(source)) = Report!InWindow
  BY DEF FirstRead, InRange, Report!InWindow, Report!Range
<1>2. Report!InWindow \subseteq Fact
  BY DEF Report!InWindow, Report!Range
<1> QED
  BY <1>1, <1>2, ObservedSeen DEF Report!factsInWindow

\* The facts of a report do not depend on the order in which they were read.
LEMMA OrderFreeHolds ==
  ASSUME source \in Seq(Fact)
  PROVE  Report!OrderFree
<1>1. Report!Ambiguous = Twice(Report!InWindow)
  BY DEF Report!Ambiguous, Twice
<1>2. {f \in Report!InWindow : f.key \notin Report!Ambiguous} = Clean(Report!InWindow)
  BY <1>1 DEF Clean
<1> QED
  BY <1>1, <1>2, FactsSeen, ReportsCount DEF Report!OrderFree, Seen, KeysOf

-----------------------------------------------------------------------------
(* The facts of a session by time and identity.                            *)

\* F is finite and its facts have identities of their own.
Distinct(F) ==
  /\ IsFiniteSet(F) /\ F \subseteq Fact
  /\ \A f, g \in F : f.key = g.key => f = g

Place(F, f) == Cardinality({g \in F : Report!Earlier(g, f)})

\* Facts with identities of their own are ordered by time and identity.
LEMMA EarlierOrders ==
  /\ \A f \in Fact : ~ Report!Earlier(f, f)
  /\ \A f, g, h \in Fact : Report!Earlier(f, g) /\ Report!Earlier(g, h) => Report!Earlier(f, h)
  /\ \A f, g \in Fact : Report!Earlier(f, g) \/ Report!Earlier(g, f) \/ f.key = g.key
  /\ \A f, g \in Fact : Report!Earlier(f, g) => f.at <= g.at
  BY ReportNumbers DEF Report!Earlier

\* A fact has fewer before it than a later one.
LEMMA PlacesGrow ==
  ASSUME NEW F, Distinct(F), NEW f \in F, NEW g \in F, Report!Earlier(f, g)
  PROVE  Place(F, f) < Place(F, g)
<1> DEFINE A == {h \in F : Report!Earlier(h, f)}
<1> DEFINE B == {h \in F : Report!Earlier(h, g)}
<1>1. A \subseteq B /\ f \in B /\ f \notin A
  BY EarlierOrders DEF Distinct
<1>2. IsFiniteSet(B) /\ IsFiniteSet(A)
  BY FS_Subset DEF Distinct
<1>3. Cardinality(A) <= Cardinality(B) /\ Cardinality(A) # Cardinality(B)
  <2> HIDE DEF A, B
  <2> QED
    BY <1>1, <1>2, FS_Subset
<1>4. Cardinality(A) \in Nat /\ Cardinality(B) \in Nat
  <2> HIDE DEF A, B
  <2> QED
    BY <1>2, FS_CardinalityType
<1>5. Cardinality(A) < Cardinality(B)
  <2> HIDE DEF A, B
  <2> QED
    BY <1>3, <1>4
<1> QED
  BY <1>5 DEF Place

\* A fact has as many before it as its place says.
LEMMA PlaceIn ==
  ASSUME NEW F, Distinct(F), NEW f \in F
  PROVE  Place(F, f) \in 0..(Cardinality(F) - 1)
<1> DEFINE A == {h \in F : Report!Earlier(h, f)}
<1>1. A \subseteq F /\ f \notin A
  BY EarlierOrders DEF Distinct
<1>2. Cardinality(A) <= Cardinality(F) /\ Cardinality(A) # Cardinality(F) /\ IsFiniteSet(A)
  <2> HIDE DEF A
  <2> QED
    BY <1>1, FS_Subset DEF Distinct
<1>3. Cardinality(A) \in Nat /\ Cardinality(F) \in Nat
  <2> HIDE DEF A
  <2> QED
    BY <1>2, FS_CardinalityType DEF Distinct
<1>4. Cardinality(A) \in 0..(Cardinality(F) - 1)
  <2> HIDE DEF A
  <2> QED
    BY <1>2, <1>3
<1> QED
  BY <1>4 DEF Place

\* Each place is that of one fact.
LEMMA PlacesTaken ==
  ASSUME NEW F, Distinct(F)
  PROVE  \A i \in 1..Cardinality(F) : \E f \in F : Place(F, f) = i - 1
<1> DEFINE n == Cardinality(F)
<1> DEFINE p == [f \in F |-> Place(F, f)]
<1>1. n \in Nat
  BY FS_CardinalityType DEF Distinct
<1>2. p \in [F -> 0..(n - 1)]
  BY PlaceIn
<1>3. \A f, g \in F : p[f] = p[g] => f = g
  <2> SUFFICES ASSUME NEW f \in F, NEW g \in F, f # g
               PROVE  p[f] # p[g]
    OBVIOUS
  <2>1. f.key # g.key
    BY DEF Distinct
  <2>2. Report!Earlier(f, g) \/ Report!Earlier(g, f)
    BY <2>1, EarlierOrders DEF Distinct
  <2>3. Place(F, f) \in Nat /\ Place(F, g) \in Nat
    BY PlaceIn
  <2>4. Place(F, f) < Place(F, g) \/ Place(F, g) < Place(F, f)
    BY <2>2, PlacesGrow
  <2> QED
    BY <2>3, <2>4
<1>4. p \in Injection(F, 0..(n - 1))
  BY <1>2, <1>3 DEF Injection, IsInjective
<1>5. IsFiniteSet(0..(n - 1)) /\ Cardinality(0..(n - 1)) = n
  BY <1>1, FS_Interval
<1>6. p \in Surjection(F, 0..(n - 1))
  <2> HIDE DEF p, n
  <2> QED
    BY <1>4, <1>5, FS_Injection DEF n
<1>7. \A m \in 0..(n - 1) : \E f \in F : p[f] = m
  <2> HIDE DEF p, n
  <2> QED
    BY <1>6 DEF Surjection
<1> QED
  BY <1>1, <1>7

\* A sorted session lists its facts, never an earlier one after a later.
LEMMA SortedIs ==
  ASSUME NEW F, Distinct(F), NEW e, e = Report!Sorted(F)
  PROVE  /\ Len(e) = Cardinality(F) /\ Cardinality(F) \in Nat
         /\ DOMAIN e = 1..Cardinality(F)
         /\ \A i \in 1..Cardinality(F) : e[i] \in F
         /\ \A f \in F : \E i \in 1..Cardinality(F) : e[i] = f
         /\ \A i, j \in 1..Cardinality(F) : i < j => e[i].at <= e[j].at
<1> DEFINE n == Cardinality(F)
<1>1. n \in Nat
  BY FS_CardinalityType DEF Distinct
<1>2. e = [i \in 1..n |-> CHOOSE f \in F : Place(F, f) = i - 1]
  BY DEF Report!Sorted, Place, Report!Cardinality, Cardinality, Report!IsFiniteSet, IsFiniteSet
<1>3. \A i \in 1..n : e[i] \in F /\ Place(F, e[i]) = i - 1
  BY <1>2, PlacesTaken
<1>4. Len(e) = n /\ DOMAIN e = 1..n
  BY <1>1, <1>2
<1>5. ASSUME NEW f \in F
      PROVE  \E i \in 1..n : e[i] = f
  <2>1. Place(F, f) \in 0..(n - 1)
    BY PlaceIn
  <2> DEFINE i == Place(F, f) + 1
  <2>2. i \in 1..n /\ i - 1 = Place(F, f)
    BY <1>1, <2>1
  <2>3. e[i] \in F /\ Place(F, e[i]) = Place(F, f)
    BY <1>3, <2>2
  <2>4. e[i] = f
    <3> SUFFICES ASSUME e[i] # f
                 PROVE  FALSE
      OBVIOUS
    <3> HIDE DEF i
    <3>1. e[i].key # f.key
      BY <2>3 DEF Distinct
    <3>2. Report!Earlier(e[i], f) \/ Report!Earlier(f, e[i])
      BY <2>3, <3>1, EarlierOrders DEF Distinct
    <3>3. Place(F, e[i]) < Place(F, f) \/ Place(F, f) < Place(F, e[i])
      BY <2>3, <3>2, PlacesGrow
    <3> QED
      BY <2>1, <2>3, <3>3
  <2> QED
    BY <2>2, <2>4
<1>6. ASSUME NEW i \in 1..n, NEW j \in 1..n, i < j
      PROVE  e[i].at <= e[j].at
  <2>1. e[i] \in F /\ e[j] \in F /\ Place(F, e[i]) = i - 1 /\ Place(F, e[j]) = j - 1
    BY <1>3
  <2>2. ~ Report!Earlier(e[j], e[i])
    <3> SUFFICES ASSUME Report!Earlier(e[j], e[i])
                 PROVE  FALSE
      OBVIOUS
    <3>1. Place(F, e[j]) < Place(F, e[i])
      BY <2>1, PlacesGrow
    <3> QED
      BY <1>6, <2>1, <3>1
  <2>3. e[i].at \in Nat /\ e[j].at \in Nat
    BY <2>1, ReportNumbers DEF Distinct
  <2>4. ~ (e[j].at < e[i].at)
    BY <2>2 DEF Report!Earlier
  <2> QED
    BY <2>3, <2>4
<1> QED
  BY <1>1, <1>3, <1>4, <1>5, <1>6

-----------------------------------------------------------------------------
(* The ways through a funnel.                                              *)

\* The first k steps can be taken from time s to time t.
Reaches(F, k, s, t) == \E c \in Report!Ways(F, k) : c[1].at = s /\ c[k].at = t

\* The times of a way grow to the last.
LEMMA WayGrows ==
  ASSUME NEW F \in SUBSET Fact, NEW k \in 1..Steps, NEW c \in Report!Ways(F, k)
  PROVE  /\ \A i \in 1..k : c[i] \in F /\ c[i].at \in Nat /\ c[i].at <= c[k].at
         /\ c[1].at <= c[k].at
<1>1. \A i \in 1..k : c[i] \in F /\ c[i].at \in Nat
  BY ReportNumbers DEF Report!Ways
<1>2. \A i \in 1..k - 1 : c[i].at < c[i + 1].at
  BY DEF Report!Ways
<1>k. k \in Nat /\ k >= 1
  BY ReportNumbers
<1> DEFINE Bad == {d \in Nat : d < k /\ ~ c[k - d].at <= c[k].at}
<1>3. Bad = {}
  <2> SUFFICES ASSUME Bad # {}
               PROVE  FALSE
    OBVIOUS
  <2>1. PICK d \in Bad : \A j \in Bad : d <= j
    <3>1. Bad \in SUBSET Nat
      OBVIOUS
    <3> HIDE DEF Bad
    <3> QED
      BY <3>1, LeastOf
  <2>2. d \in Nat /\ d < k /\ ~ c[k - d].at <= c[k].at
    OBVIOUS
  <2>3. d # 0
    <3> SUFFICES ASSUME d = 0
                 PROVE  FALSE
      OBVIOUS
    <3>1. k - d = k /\ k \in 1..k
      BY <1>k
    <3> QED
      BY <1>1, <2>2, <3>1
  <2>4. d - 1 \in Nat /\ d - 1 < k /\ d - 1 < d
    BY <1>k, <2>2, <2>3
  <2>5. d - 1 \notin Bad
    <3> HIDE DEF Bad
    <3> QED
      BY <2>1, <2>2, <2>4
  <2>6. c[k - (d - 1)].at <= c[k].at
    BY <2>4, <2>5
  <2>7. k - d \in 1..k - 1 /\ (k - d) + 1 = k - (d - 1) /\ k - (d - 1) \in 1..k
    BY <1>k, <2>2, <2>3
  <2>8. c[k - d].at < c[k - (d - 1)].at
    BY <1>2, <2>7
  <2>9. c[k - d].at \in Nat /\ c[k - (d - 1)].at \in Nat /\ c[k].at \in Nat
    <3>1. k - d \in 1..k /\ k - (d - 1) \in 1..k /\ k \in 1..k
      BY <1>k, <2>7
    <3> QED
      BY <1>1, <3>1
  <2> QED
    BY <2>2, <2>6, <2>8, <2>9
<1>4. ASSUME NEW i \in 1..k
      PROVE  c[i].at <= c[k].at
  <2>1. k - i \in Nat /\ k - i < k /\ k - (k - i) = i
    BY <1>k
  <2>2. k - i \notin Bad
    BY <1>3
  <2> QED
    BY <2>1, <2>2
<1>5. 1 \in 1..k
  BY <1>k
<1> QED
  BY <1>1, <1>4, <1>5

\* A way ends at one of its facts, no earlier than it starts, in the facts up to then.
LEMMA ReachTimes ==
  ASSUME NEW F \in SUBSET Fact, NEW k \in 1..Steps, NEW s, NEW t, Reaches(F, k, s, t)
  PROVE  /\ s \in Nat /\ t \in Nat /\ s <= t
         /\ \E f \in F : f.at = t
         /\ Reaches({f \in F : f.at <= t}, k, s, t)
<1>1. PICK c \in Report!Ways(F, k) : c[1].at = s /\ c[k].at = t
  BY DEF Reaches
<1>2. 1 \in 1..k /\ k \in 1..k
  BY ReportNumbers
<1>3. /\ \A i \in 1..k : c[i] \in F /\ c[i].at \in Nat /\ c[i].at <= t
      /\ s <= t
  BY <1>1, WayGrows
<1> DEFINE G == {f \in F : f.at <= t}
<1>4. c \in Report!Ways(G, k)
  <2>1. c \in [1..k -> F]
    BY DEF Report!Ways
  <2>2. c \in [1..k -> G]
    BY <1>3, <2>1
  <2> HIDE DEF G
  <2> QED
    BY <2>2 DEF Report!Ways
<1>5. Reaches(G, k, s, t)
  <2> HIDE DEF G
  <2> QED
    BY <1>1, <1>4 DEF Reaches
<1> QED
  BY <1>1, <1>2, <1>3, <1>5

\* More facts lose no way.
LEMMA ReachMore ==
  ASSUME NEW F, NEW G, F \subseteq G, NEW k, NEW s, NEW t, Reaches(F, k, s, t)
  PROVE  Reaches(G, k, s, t)
<1>1. PICK c \in Report!Ways(F, k) : c[1].at = s /\ c[k].at = t
  BY DEF Reaches
<1>2. c \in Report!Ways(G, k)
  <2>1. c \in [1..k -> F]
    BY DEF Report!Ways
  <2>2. c \in [1..k -> G]
    BY <2>1
  <2> QED
    BY <2>2 DEF Report!Ways
<1> QED
  BY <1>1, <1>2 DEF Reaches

\* The first step.
LEMMA ReachFirst ==
  ASSUME NEW F \in SUBSET Fact, NEW s, NEW t
  PROVE  Reaches(F, 1, s, t) <=>
           \E f \in F : 1 \in f.matches /\ f.entry /\ f.at = s /\ f.at = t
<1>1. ASSUME Reaches(F, 1, s, t)
      PROVE  \E f \in F : 1 \in f.matches /\ f.entry /\ f.at = s /\ f.at = t
  <2>1. PICK c \in Report!Ways(F, 1) : c[1].at = s /\ c[1].at = t
    BY <1>1 DEF Reaches
  <2>2. c[1] \in F /\ 1 \in c[1].matches /\ c[1].entry
    <3>1. 1 \in 1..1
      OBVIOUS
    <3> QED
      BY <3>1 DEF Report!Ways
  <2> QED
    BY <2>1, <2>2
<1>2. ASSUME NEW f \in F, 1 \in f.matches, f.entry, f.at = s, f.at = t
      PROVE  Reaches(F, 1, s, t)
  <2> DEFINE c == [i \in 1..1 |-> f]
  <2>1. c \in [1..1 -> F] /\ c[1] = f
    OBVIOUS
  <2>2. \A i \in 1..1 : i = 1
    OBVIOUS
  <2>3. 1..(1 - 1) = {}
    OBVIOUS
  <2>4. c[1].at - c[1].at <= Within
    BY <2>1, ReportNumbers
  <2> HIDE DEF c
  <2>5. c \in Report!Ways(F, 1)
    BY <1>2, <2>1, <2>2, <2>3, <2>4 DEF Report!Ways
  <2> QED
    BY <1>2, <2>1, <2>5 DEF Reaches
<1> QED
  BY <1>1, <1>2

\* A step after others.
LEMMA ReachNext ==
  ASSUME NEW F \in SUBSET Fact, NEW k \in 2..Steps, NEW s \in Nat, NEW t \in Nat
  PROVE  Reaches(F, k, s, t) <=>
           \E f \in F, u \in Nat :
             /\ k \in f.matches /\ f.at = t /\ t - s <= Within /\ u < t
             /\ Reaches(F, k - 1, s, u)
<1>k. /\ k \in Nat /\ k >= 2 /\ k - 1 \in 1..Steps /\ k \in 1..Steps /\ 1 \in 1..(k - 1)
      /\ k - 1 \in 1..(k - 1) /\ k \in 1..k /\ 1 \in 1..k /\ k - 1 \in 1..k
  BY ReportNumbers
<1>1. ASSUME Reaches(F, k, s, t)
      PROVE  \E f \in F, u \in Nat :
               /\ k \in f.matches /\ f.at = t /\ t - s <= Within /\ u < t
               /\ Reaches(F, k - 1, s, u)
  <2>1. PICK c \in Report!Ways(F, k) : c[1].at = s /\ c[k].at = t
    BY <1>1 DEF Reaches
  <2>2. \A i \in 1..k : c[i] \in F /\ c[i].at \in Nat /\ i \in c[i].matches
    BY <1>k, WayGrows DEF Report!Ways
  <2>3. /\ \A i \in 1..k - 1 : c[i].at < c[i + 1].at
        /\ c[1].entry /\ c[k].at - c[1].at <= Within
    BY DEF Report!Ways
  <2> DEFINE u == c[k - 1].at
  <2>4. u \in Nat /\ u < t /\ t \in Nat
    <3>1. (k - 1) + 1 = k
      BY <1>k
    <3> QED
      BY <1>k, <2>1, <2>2, <2>3, <3>1
  <2> DEFINE d == [i \in 1..(k - 1) |-> c[i]]
  <2>5. d \in Report!Ways(F, k - 1)
    <3>1. d \in [1..(k - 1) -> F] /\ \A i \in 1..(k - 1) : d[i] = c[i] /\ i \in 1..k
      BY <1>k, <2>2
    <3>2. \A i \in 1..(k - 1) - 1 : i \in 1..(k - 1) /\ i + 1 \in 1..(k - 1)
      BY <1>k
    <3>3. d[1] = c[1] /\ d[k - 1] = c[k - 1]
      BY <1>k, <3>1
    <3>4. c[k - 1].at - c[1].at <= Within
      BY <1>k, <2>1, <2>2, <2>3, <2>4, ReportNumbers
    <3> HIDE DEF d
    <3>5. \A i \in 1..(k - 1) : i \in d[i].matches
      BY <2>2, <3>1
    <3>6. \A i \in 1..(k - 1) - 1 : d[i].at < d[i + 1].at
      BY <2>3, <3>1, <3>2
    <3> QED
      BY <2>3, <3>1, <3>3, <3>4, <3>5, <3>6 DEF Report!Ways
  <2>6. Reaches(F, k - 1, s, u)
    <3>1. d[1] = c[1] /\ d[k - 1] = c[k - 1]
      BY <1>k
    <3> HIDE DEF d
    <3> QED
      BY <2>1, <2>5, <3>1 DEF Reaches
  <2>7. c[k] \in F /\ k \in c[k].matches /\ c[k].at = t /\ t - s <= Within
    BY <1>k, <2>1, <2>2, <2>3
  <2> HIDE DEF u
  <2> QED
    BY <2>4, <2>6, <2>7
<1>2. ASSUME NEW f \in F, NEW u \in Nat,
             k \in f.matches, f.at = t, t - s <= Within, u < t, Reaches(F, k - 1, s, u)
      PROVE  Reaches(F, k, s, t)
  <2>1. PICK c \in Report!Ways(F, k - 1) : c[1].at = s /\ c[k - 1].at = u
    BY <1>2 DEF Reaches
  <2> DEFINE d == [i \in 1..k |-> IF i < k THEN c[i] ELSE f]
  <2>2. \A i \in 1..(k - 1) : c[i] \in F /\ i \in c[i].matches
    BY DEF Report!Ways
  <2>3. c[1].entry /\ \A i \in 1..(k - 1) - 1 : c[i].at < c[i + 1].at
    BY DEF Report!Ways
  <2>4. \A i \in 1..(k - 1) : i \in 1..k /\ i < k
    BY <1>k
  <2>5. d[k] = f /\ \A i \in 1..(k - 1) : d[i] = c[i]
    BY <1>k, <2>4
  <2>6. \A i \in 1..k : i = k \/ i \in 1..(k - 1)
    BY <1>k
  <2>7. d \in [1..k -> F]
    <3>1. \A i \in 1..k : d[i] \in F
      BY <2>2, <2>5, <2>6
    <3> QED
      BY <3>1
  <2>8. d[1].at = s /\ d[1].entry /\ d[k].at = t /\ d[k - 1].at = u
    BY <1>k, <1>2, <2>1, <2>3, <2>5
  <2> HIDE DEF d
  <2>9. \A i \in 1..k : i \in d[i].matches
    BY <1>2, <2>2, <2>5, <2>6
  <2>10. ASSUME NEW i \in 1..k - 1
         PROVE  d[i].at < d[i + 1].at
    <3>1. CASE i = k - 1
      <4>1. i + 1 = k
        BY <1>k, <3>1
      <4> QED
        BY <1>2, <2>8, <3>1, <4>1
    <3>2. CASE i # k - 1
      <4>1. i \in 1..(k - 1) - 1 /\ i + 1 \in 1..(k - 1) /\ i \in 1..(k - 1)
        BY <1>k, <3>2
      <4> QED
        BY <2>3, <2>5, <4>1
    <3> QED
      BY <3>1, <3>2
  <2>11. d \in Report!Ways(F, k)
    BY <1>2, <2>7, <2>8, <2>9, <2>10 DEF Report!Ways
  <2> QED
    BY <2>8, <2>11 DEF Reaches
<1> QED
  BY <1>1, <1>2

-----------------------------------------------------------------------------
(* One pass over the events of a session.                                  *)

\* v is the latest start of the first k steps in F, or None if there is none.
Latest(v, F, k) ==
  \/ v = None /\ \A s, t \in Nat : ~ Reaches(F, k, s, t)
  \/ /\ v \in Nat /\ \E t \in Nat : Reaches(F, k, v, t)
     /\ \A s, t \in Nat : Reaches(F, k, s, t) => s <= v

\* v is the shortest time through all steps in F, or None.
Shortest(v, F) ==
  \/ v = None /\ \A s, t \in Nat : ~ Reaches(F, Steps, s, t)
  \/ /\ v \in Nat /\ \E s, t \in Nat : Reaches(F, Steps, s, t) /\ v = t - s
     /\ \A s, t \in Nat : Reaches(F, Steps, s, t) => v <= t - s

Reached(F) == {k \in 1..Steps : \E s, t \in Nat : Reaches(F, k, s, t)}

\* f takes step k with start s after the facts of L.
Takes(L, f, k, s) ==
  /\ k \in f.matches
  /\ IF k = 1 THEN f.entry /\ s = f.at
     ELSE f.at - s <= Within /\ \E u \in Nat : Reaches(L, k - 1, s, u)

\* What can be reached with a last fact more.
LEMMA ReachAdded ==
  ASSUME NEW G \in SUBSET Fact, NEW f \in Fact, \A g \in G : g.at <= f.at,
         NEW L, L = {g \in G : g.at < f.at},
         NEW k \in 1..Steps, NEW s \in Nat, NEW t \in Nat
  PROVE  Reaches(G \union {f}, k, s, t) <=>
           Reaches(G, k, s, t) \/ (t = f.at /\ Takes(L, f, k, s))
<1> DEFINE H == G \union {f}
<1>h. H \in SUBSET Fact /\ G \subseteq H /\ L \subseteq G /\ L \subseteq H /\ f \in H
      /\ L \in SUBSET Fact /\ \A g \in H : g \in G \/ g = f
  OBVIOUS
<1>n. f.at \in Nat /\ (\A g \in H : g.at \in Nat) /\ k \in Nat /\ k >= 1
  BY <1>h, ReportNumbers
<1> HIDE DEF H
<1>1. CASE k = 1
  <2>1. \A F \in SUBSET Fact :
          Reaches(F, k, s, t) <=> \E g \in F : 1 \in g.matches /\ g.entry /\ g.at = s /\ g.at = t
    BY <1>1, ReachFirst
  <2>2. (t = f.at /\ Takes(L, f, k, s)) <=> (1 \in f.matches /\ f.entry /\ f.at = s /\ f.at = t)
    BY <1>1 DEF Takes
  <2>3. Reaches(H, k, s, t) <=>
          Reaches(G, k, s, t) \/ (1 \in f.matches /\ f.entry /\ f.at = s /\ f.at = t)
    BY <1>h, <2>1
  <2> QED
    BY <2>2, <2>3 DEF H
<1>2. CASE k # 1
  <2>k. k \in 2..Steps /\ k - 1 \in 1..Steps
    BY <1>n, <1>2, ReportNumbers
  <2>1. \A F \in SUBSET Fact :
          Reaches(F, k, s, t) <=>
            \E g \in F, u \in Nat :
              /\ k \in g.matches /\ g.at = t /\ t - s <= Within /\ u < t
              /\ Reaches(F, k - 1, s, u)
    BY <2>k, ReachNext
  <2>2. ASSUME Reaches(H, k, s, t)
        PROVE  Reaches(G, k, s, t) \/ (t = f.at /\ Takes(L, f, k, s))
    <3>1. PICK g \in H, u \in Nat :
            /\ k \in g.matches /\ g.at = t /\ t - s <= Within /\ u < t
            /\ Reaches(H, k - 1, s, u)
      BY <1>h, <2>1, <2>2
    <3> DEFINE U == {h \in H : h.at <= u}
    <3>2. Reaches(U, k - 1, s, u)
      BY <1>h, <2>k, <3>1, ReachTimes
    <3>3. g.at <= f.at
      BY <1>h, <1>n
    <3>4. U \subseteq L
      <4> SUFFICES ASSUME NEW h \in H, h.at <= u
                   PROVE  h \in L
        OBVIOUS
      <4>1. h.at < f.at
        BY <1>n, <3>1, <3>3
      <4>2. h # f
        BY <1>n, <4>1
      <4> QED
        BY <1>h, <4>1, <4>2
    <3>5. Reaches(L, k - 1, s, u)
      <4> HIDE DEF U
      <4> QED
        BY <3>2, <3>4, ReachMore
    <3>6. CASE g \in G
      <4>1. Reaches(G, k - 1, s, u)
        BY <1>h, <3>5, ReachMore
      <4> QED
        BY <2>1, <3>1, <3>6, <4>1
    <3>7. CASE g = f
      <4>1. Takes(L, f, k, s)
        BY <1>2, <3>1, <3>5, <3>7 DEF Takes
      <4> QED
        BY <3>1, <3>7, <4>1
    <3> QED
      BY <1>h, <3>6, <3>7
  <2>3. ASSUME t = f.at, Takes(L, f, k, s)
        PROVE  Reaches(H, k, s, t)
    <3>1. PICK u \in Nat : Reaches(L, k - 1, s, u)
      BY <1>2, <2>3 DEF Takes
    <3>2. k \in f.matches /\ t - s <= Within
      BY <1>2, <2>3 DEF Takes
    <3>3. u < t
      <4>1. \E g \in L : g.at = u
        BY <1>h, <2>k, <3>1, ReachTimes
      <4> QED
        BY <2>3, <4>1
    <3>4. Reaches(H, k - 1, s, u)
      BY <1>h, <3>1, ReachMore
    <3> QED
      BY <1>h, <2>1, <2>3, <3>2, <3>3, <3>4
  <2>4. ASSUME Reaches(G, k, s, t)
        PROVE  Reaches(H, k, s, t)
    BY <1>h, <2>4, ReachMore
  <2> QED
    BY <2>2, <2>3, <2>4 DEF H
<1> QED
  BY <1>1, <1>2

\* What the pass knows after the facts of G.
Knows(x, G) ==
  /\ \A k \in 1..Steps : Latest(x.states[k], G, k)
  /\ x.reached = Reached(G)
  /\ Shortest(x.elapsed, G)
  /\ \/ G = {} /\ x.time = -1
     \/ /\ \A g \in G : g.at <= x.time
        /\ \E g \in G : g.at = x.time
        /\ \A k \in 1..Steps : Latest(x.previous[k], {g \in G : g.at < x.time}, k)

\* A fact takes the steps that the latest starts allow, and from the latest.
LEMMA TakesLatest ==
  ASSUME NEW L \in SUBSET Fact, NEW f \in Fact, NEW x,
         \A k \in 1..Steps : Latest(Report!Before(x, f)[k], L, k),
         NEW k \in 1..Steps
  PROVE  /\ Report!eligibleProgress(x, f, k) <=> \E s \in Nat : Takes(L, f, k, s)
         /\ Report!eligibleProgress(x, f, k) =>
              /\ Report!StartOf(x, f, k) \in Nat
              /\ Takes(L, f, k, Report!StartOf(x, f, k))
         /\ \A s \in Nat : Takes(L, f, k, s) => s <= Report!StartOf(x, f, k)
<1>n. f.at \in Nat /\ k \in Nat /\ k >= 1 /\ Within \in Nat /\ None \notin Nat
  BY ReportNumbers
<1>1. CASE k = 1
  BY <1>n, <1>1 DEF Report!eligibleProgress, Report!StartOf, Takes
<1>2. CASE k # 1
  <2> DEFINE v == Report!Before(x, f)[k - 1]
  <2>k. k - 1 \in 1..Steps
    BY <1>n, <1>2, ReportNumbers
  <2>1. Latest(v, L, k - 1)
    BY <2>k
  <2>2. /\ Report!eligibleProgress(x, f, k) <=>
             k \in f.matches /\ v # None /\ f.at - v <= Within
        /\ Report!StartOf(x, f, k) = v
    BY <1>2 DEF Report!eligibleProgress, Report!StartOf
  <2>3. \A s : Takes(L, f, k, s) <=>
          k \in f.matches /\ f.at - s <= Within /\ \E u \in Nat : Reaches(L, k - 1, s, u)
    BY <1>2 DEF Takes
  <2> HIDE DEF v
  <2>4. CASE v = None
    BY <1>n, <2>1, <2>2, <2>3, <2>4 DEF Latest
  <2>5. CASE v # None
    <3>1. /\ v \in Nat /\ \E u \in Nat : Reaches(L, k - 1, v, u)
          /\ \A s, u \in Nat : Reaches(L, k - 1, s, u) => s <= v
      BY <2>1, <2>5 DEF Latest
    <3>2. \A s \in Nat : Takes(L, f, k, s) => s <= v /\ f.at - v <= Within
      <4> SUFFICES ASSUME NEW s \in Nat, Takes(L, f, k, s)
                   PROVE  s <= v /\ f.at - v <= Within
        OBVIOUS
      <4>1. s <= v /\ f.at - s <= Within
        BY <2>3, <3>1
      <4> QED
        BY <1>n, <3>1, <4>1
    <3> QED
      BY <2>2, <2>3, <2>5, <3>1, <3>2
  <2> QED
    BY <2>4, <2>5
<1> QED
  BY <1>1, <1>2

\* The facts before the time of the next one are known.
LEMMA BeforeKnown ==
  ASSUME NEW G \in SUBSET Fact, NEW f \in Fact, \A g \in G : g.at <= f.at,
         NEW x, Knows(x, G), NEW L, L = {g \in G : g.at < f.at},
         NEW k \in 1..Steps
  PROVE  Latest(Report!Before(x, f)[k], L, k)
<1>n. f.at \in Nat /\ \A g \in G : g.at \in Nat
  BY ReportNumbers
<1>1. CASE f.at = x.time
  <2>1. \A j \in 1..Steps : Latest(x.previous[j], {g \in G : g.at < x.time}, j)
    BY <1>n, <1>1 DEF Knows
  <2>2. L = {g \in G : g.at < x.time}
    BY <1>1
  <2> QED
    BY <1>1, <2>1, <2>2 DEF Report!Before
<1>2. CASE f.at # x.time
  <2>1. \A g \in G : g.at < f.at
    <3> SUFFICES ASSUME NEW g \in G
                 PROVE  g.at < f.at
      OBVIOUS
    <3>1. g.at <= x.time /\ \E h \in G : h.at = x.time
      BY DEF Knows
    <3> QED
      BY <1>n, <1>2, <3>1
  <2>2. L = G
    BY <2>1
  <2>3. Latest(x.states[k], G, k)
    BY DEF Knows
  <2> QED
    BY <1>2, <2>2, <2>3 DEF Report!Before
<1> QED
  BY <1>1, <1>2

\* A turn of the loop keeps the latest start of every step.
LEMMA LatestNext ==
  ASSUME NEW G \in SUBSET Fact, NEW f \in Fact, \A g \in G : g.at <= f.at,
         NEW x, Knows(x, G), NEW k \in 1..Steps
  PROVE  Latest(IF Report!eligibleProgress(x, f, k) /\ Report!Improves(x, f, k)
                THEN Report!StartOf(x, f, k) ELSE x.states[k], G \union {f}, k)
<1> DEFINE L == {g \in G : g.at < f.at}
<1> DEFINE H == G \union {f}
<1> DEFINE old == x.states[k]
<1> DEFINE start == Report!StartOf(x, f, k)
<1>n. f.at \in Nat /\ None \notin Nat
  BY ReportNumbers
<1>1. \A j \in 1..Steps : Latest(Report!Before(x, f)[j], L, j)
  BY BeforeKnown
<1>2. L \in SUBSET Fact
  OBVIOUS
<1>3. \A s, t \in Nat :
        Reaches(H, k, s, t) <=> Reaches(G, k, s, t) \/ (t = f.at /\ Takes(L, f, k, s))
  BY ReachAdded
<1> HIDE DEF L
<1>4. /\ Report!eligibleProgress(x, f, k) <=> \E s \in Nat : Takes(L, f, k, s)
      /\ Report!eligibleProgress(x, f, k) => start \in Nat /\ Takes(L, f, k, start)
      /\ \A s \in Nat : Takes(L, f, k, s) => s <= start
  BY <1>1, <1>2, TakesLatest
<1>5. Latest(old, G, k)
  BY DEF Knows
<1>6. Report!Improves(x, f, k) <=> old = None \/ old <= start
  BY DEF Report!Improves
<1> HIDE DEF H, old, start
<1>7. CASE Report!eligibleProgress(x, f, k) /\ Report!Improves(x, f, k)
  <2>1. start \in Nat /\ Takes(L, f, k, start) /\ Reaches(H, k, start, f.at)
    BY <1>n, <1>3, <1>4, <1>7
  <2>2. ASSUME NEW s \in Nat, NEW t \in Nat, Reaches(H, k, s, t)
        PROVE  s <= start
    <3>1. CASE Reaches(G, k, s, t)
      <4>1. old \in Nat /\ s <= old /\ old <= start
        BY <1>n, <1>5, <1>6, <1>7, <3>1 DEF Latest
      <4> QED
        BY <2>1, <4>1
    <3>2. CASE t = f.at /\ Takes(L, f, k, s)
      BY <1>4, <3>2
    <3> QED
      BY <1>3, <2>2, <3>1, <3>2
  <2>3. Latest(start, H, k)
    BY <1>n, <2>1, <2>2 DEF Latest
  <2> QED
    BY <1>7, <2>3 DEF H, old, start
<1>8. CASE Report!eligibleProgress(x, f, k) /\ ~ Report!Improves(x, f, k)
  <2>1. old # None /\ ~ old <= start /\ start \in Nat
    BY <1>4, <1>6, <1>8
  <2>2. /\ old \in Nat /\ \E t \in Nat : Reaches(G, k, old, t)
        /\ \A s, t \in Nat : Reaches(G, k, s, t) => s <= old
    BY <1>5, <2>1 DEF Latest
  <2>3. \E t \in Nat : Reaches(H, k, old, t)
    BY <1>3, <2>2
  <2>4. ASSUME NEW s \in Nat, NEW t \in Nat, Reaches(H, k, s, t)
        PROVE  s <= old
    <3>1. Reaches(G, k, s, t) \/ Takes(L, f, k, s)
      BY <1>3, <2>4
    <3>2. CASE Reaches(G, k, s, t)
      BY <2>2, <3>2
    <3>3. CASE Takes(L, f, k, s)
      <4>1. s <= start
        BY <1>4, <3>3
      <4> QED
        BY <2>1, <2>2, <4>1
    <3> QED
      BY <3>1, <3>2, <3>3
  <2>5. Latest(old, H, k)
    BY <2>2, <2>3, <2>4 DEF Latest
  <2> QED
    BY <1>8, <2>5 DEF H, old, start
<1>9. CASE ~ Report!eligibleProgress(x, f, k)
  <2>1. \A s, t \in Nat : Reaches(H, k, s, t) <=> Reaches(G, k, s, t)
    BY <1>3, <1>4, <1>9
  <2>2. Latest(old, H, k)
    BY <1>5, <2>1 DEF Latest
  <2> QED
    BY <1>9, <2>2 DEF H, old, start
<1> QED
  BY <1>7, <1>8, <1>9

\* The lesser of two numbers.
LEMMA LesserOf ==
  ASSUME NEW m \in Nat, NEW n \in Nat
  PROVE  Report!Min({m, n}) = IF m <= n THEN m ELSE n
<1> DEFINE l == IF m <= n THEN m ELSE n
<1>1. l \in {m, n} /\ \A j \in {m, n} : l <= j
  OBVIOUS
<1>2. \A i \in {m, n} : (\A j \in {m, n} : i <= j) => i = l
  OBVIOUS
<1> HIDE DEF l
<1>3. Report!Min({m, n}) = l
  BY <1>1, <1>2 DEF Report!Min
<1> QED
  BY <1>3 DEF l

\* A turn of the loop keeps the shortest way through.
LEMMA ShortestNext ==
  ASSUME NEW G \in SUBSET Fact, NEW f \in Fact, \A g \in G : g.at <= f.at,
         NEW x, Knows(x, G)
  PROVE  Shortest(IF ~ Report!eligibleProgress(x, f, Steps) THEN x.elapsed
                  ELSE IF x.elapsed = None THEN f.at - Report!StartOf(x, f, Steps)
                  ELSE Report!Min({x.elapsed, f.at - Report!StartOf(x, f, Steps)}),
                  G \union {f})
<1> DEFINE L == {g \in G : g.at < f.at}
<1> DEFINE H == G \union {f}
<1> DEFINE old == x.elapsed
<1> DEFINE start == Report!StartOf(x, f, Steps)
<1>n. f.at \in Nat /\ None \notin Nat /\ Steps \in 1..Steps
  BY ReportNumbers
<1>1. \A j \in 1..Steps : Latest(Report!Before(x, f)[j], L, j)
  BY BeforeKnown
<1>2. L \in SUBSET Fact /\ H \in SUBSET Fact
  OBVIOUS
<1>3. \A s, t \in Nat :
        Reaches(H, Steps, s, t) <=> Reaches(G, Steps, s, t) \/ (t = f.at /\ Takes(L, f, Steps, s))
  BY <1>n, ReachAdded
<1> HIDE DEF L
<1>4. /\ Report!eligibleProgress(x, f, Steps) <=> \E s \in Nat : Takes(L, f, Steps, s)
      /\ Report!eligibleProgress(x, f, Steps) => start \in Nat /\ Takes(L, f, Steps, start)
      /\ \A s \in Nat : Takes(L, f, Steps, s) => s <= start
  BY <1>1, <1>2, <1>n, TakesLatest
<1>5. Shortest(old, G)
  BY DEF Knows
<1> HIDE DEF H, old, start
<1>6. CASE ~ Report!eligibleProgress(x, f, Steps)
  <2>1. \A s, t \in Nat : Reaches(H, Steps, s, t) <=> Reaches(G, Steps, s, t)
    BY <1>3, <1>4, <1>6
  <2>2. Shortest(old, H)
    BY <1>5, <2>1 DEF Shortest
  <2> QED
    BY <1>6, <2>2 DEF H, old
<1>7. CASE Report!eligibleProgress(x, f, Steps)
  <2>1. start \in Nat /\ Reaches(H, Steps, start, f.at)
    BY <1>n, <1>3, <1>4, <1>7
  <2>2. start <= f.at
    BY <1>n, <1>2, <2>1, ReachTimes
  <2>p. PICK e : e = f.at - start
    OBVIOUS
  <2>3. e \in Nat
    BY <1>n, <2>1, <2>2, <2>p
  <2>4. ASSUME NEW s \in Nat, NEW t \in Nat, t = f.at, Takes(L, f, Steps, s)
        PROVE  e <= t - s
    <3>1. s <= start
      BY <1>4, <2>4
    <3> QED
      BY <1>n, <2>1, <2>2, <2>4, <2>p, <3>1
  <2>5. CASE old = None
    <3>1. \A s, t \in Nat : ~ Reaches(G, Steps, s, t)
      BY <1>n, <1>5, <2>5 DEF Shortest
    <3>2. \A s, t \in Nat : Reaches(H, Steps, s, t) => e <= t - s
      BY <1>3, <2>4, <3>1
    <3>3. Shortest(e, H)
      BY <1>n, <2>1, <2>3, <2>p, <3>2 DEF Shortest
    <3> QED
      BY <1>7, <2>5, <2>p, <3>3 DEF H, old, start
  <2>6. CASE old # None
    <3>1. /\ old \in Nat /\ \E s, t \in Nat : Reaches(G, Steps, s, t) /\ old = t - s
          /\ \A s, t \in Nat : Reaches(G, Steps, s, t) => old <= t - s
      BY <1>5, <2>6 DEF Shortest
    <3>p. PICK l : l = Report!Min({old, e})
      OBVIOUS
    <3>2. l \in Nat /\ (l = old \/ l = e) /\ l <= old /\ l <= e
      BY <2>3, <3>1, <3>p, LesserOf
    <3>3. \E s, t \in Nat : Reaches(H, Steps, s, t) /\ l = t - s
      <4>1. CASE l = old
        BY <1>3, <3>1, <4>1
      <4>2. CASE l = e
        BY <1>n, <2>1, <2>p, <4>2
      <4> QED
        BY <3>2, <4>1, <4>2
    <3>4. ASSUME NEW s \in Nat, NEW t \in Nat, Reaches(H, Steps, s, t)
          PROVE  l <= t - s
      <4>1. old <= t - s \/ e <= t - s
        BY <1>3, <2>4, <3>1, <3>4
      <4> QED
        BY <2>3, <3>1, <3>2, <4>1
    <3>5. Shortest(l, H)
      BY <3>2, <3>3, <3>4 DEF Shortest
    <3> QED
      BY <1>7, <2>6, <2>p, <3>p, <3>5 DEF H, old, start
  <2> QED
    BY <2>5, <2>6
<1> QED
  BY <1>6, <1>7

\* Before the first fact there is nothing to know.
LEMMA NothingKnown == Knows(Report!NoProgress, {})
<1>1. \A k \in 1..Steps : \A s, t \in Nat : ~ Reaches({}, k, s, t)
  <2> SUFFICES ASSUME NEW k \in 1..Steps, NEW s \in Nat, NEW t \in Nat, Reaches({}, k, s, t)
               PROVE  FALSE
    OBVIOUS
  <2>1. \E f \in {} : f.at = t
    BY ReachTimes
  <2> QED
    BY <2>1
<1>2. Steps \in 1..Steps
  BY ReportNumbers
<1>3. /\ \A k \in 1..Steps : Report!NoProgress.states[k] = None
      /\ Report!NoProgress.reached = {} /\ Report!NoProgress.elapsed = None
      /\ Report!NoProgress.time = -1
  BY DEF Report!NoProgress
<1>4. \A k \in 1..Steps : Latest(None, {}, k)
  BY <1>1 DEF Latest
<1>5. Shortest(None, {})
  BY <1>1, <1>2 DEF Shortest
<1>6. Reached({}) = {}
  BY <1>1 DEF Reached
<1> QED
  BY <1>3, <1>4, <1>5, <1>6 DEF Knows

\* One turn of the pass.
LEMMA PassStep ==
  ASSUME NEW G \in SUBSET Fact, NEW f \in Fact, \A g \in G : g.at <= f.at,
         NEW x, Knows(x, G)
  PROVE  Knows(Report!Progress(x, f), G \union {f})
<1> DEFINE y == Report!Progress(x, f)
<1> DEFINE H == G \union {f}
<1> DEFINE L == {g \in G : g.at < f.at}
<1> DEFINE Eligible(k) == Report!eligibleProgress(x, f, k)
<1>n. f.at \in Nat /\ Steps \in 1..Steps /\ \A g \in G : g.at \in Nat
  BY ReportNumbers
<1>1. /\ \A k \in 1..Steps :
           y.states[k] = IF Eligible(k) /\ Report!Improves(x, f, k)
                         THEN Report!StartOf(x, f, k) ELSE x.states[k]
      /\ y.previous = Report!Before(x, f) /\ y.time = f.at
      /\ y.reached = x.reached \union {k \in 1..Steps : Eligible(k)}
      /\ y.elapsed =
           IF ~ Eligible(Steps) THEN x.elapsed
           ELSE IF x.elapsed = None THEN f.at - Report!StartOf(x, f, Steps)
           ELSE Report!Min({x.elapsed, f.at - Report!StartOf(x, f, Steps)})
  BY <1>n DEF Report!Progress
<1> HIDE DEF y
<1>2. \A k \in 1..Steps : Latest(y.states[k], H, k)
  BY <1>1, LatestNext
<1>3. Shortest(y.elapsed, H)
  BY <1>1, ShortestNext
<1>4. \A k \in 1..Steps : Latest(Report!Before(x, f)[k], L, k)
  BY BeforeKnown
<1>5. {g \in H : g.at < f.at} = L
  BY <1>n
<1>6. \A g \in H : g.at <= f.at
  BY <1>n
<1>7. y.reached = Reached(H)
  <2>1. x.reached = Reached(G)
    BY DEF Knows
  <2>2. ASSUME NEW k \in 1..Steps
        PROVE  k \in Reached(H) <=> k \in Reached(G) \/ Eligible(k)
    <3>1. L \in SUBSET Fact
      OBVIOUS
    <3>2. Eligible(k) <=> \E s \in Nat : Takes(L, f, k, s)
      <4> HIDE DEF L
      <4> QED
        BY <1>4, <3>1, TakesLatest
    <3>3. \A s, t \in Nat :
            Reaches(H, k, s, t) <=> Reaches(G, k, s, t) \/ (t = f.at /\ Takes(L, f, k, s))
      BY ReachAdded
    <3> HIDE DEF L, H, Eligible
    <3>4. (\E s, t \in Nat : Reaches(H, k, s, t)) <=>
            (\E s, t \in Nat : Reaches(G, k, s, t)) \/ (\E s \in Nat : Takes(L, f, k, s))
      BY <1>n, <3>3
    <3> QED
      BY <3>2, <3>4 DEF Reached
  <2>3. Reached(G) \subseteq 1..Steps /\ Reached(H) \subseteq 1..Steps
    BY DEF Reached
  <2> HIDE DEF H, Eligible
  <2> QED
    BY <1>1, <2>1, <2>2, <2>3
<1> HIDE DEF L
<1>8. \A k \in 1..Steps : Latest(y.previous[k], {g \in H : g.at < y.time}, k)
  BY <1>1, <1>4, <1>5
<1>9. /\ \A g \in H : g.at <= y.time
      /\ \E g \in H : g.at = y.time
  BY <1>1, <1>6
<1>10. Knows(y, H)
  <2> HIDE DEF H
  <2> QED
    BY <1>2, <1>3, <1>7, <1>8, <1>9 DEF Knows
<1> QED
  BY <1>10 DEF y

\* After all events the pass knows the session.
LEMMA PassKnows ==
  ASSUME NEW F, Distinct(F)
  PROVE  Knows(Report!Progressed(Report!Sorted(F))[Len(Report!Sorted(F))], F)
<1>e. PICK e : e = Report!Sorted(F)
  OBVIOUS
<1> DEFINE n == Cardinality(F)
<1> DEFINE G(m) == {e[i] : i \in 1..m}
<1> DEFINE x(m) == Report!Progressed(e)[m]
<1> DEFINE Fine(m) == Knows(x(m), G(m))
<1>1. /\ Len(e) = n /\ n \in Nat
      /\ \A i \in 1..n : e[i] \in F
      /\ \A f \in F : \E i \in 1..n : e[i] = f
      /\ \A i, j \in 1..n : i < j => e[i].at <= e[j].at
  BY <1>e, SortedIs
<1> HIDE DEF n
<1>2. /\ x(0) = Report!NoProgress
      /\ \A m \in 1..n : x(m) = Report!Progress(x(m - 1), e[m])
  <2>1. \A m \in 0..n : x(m) = IF m = 0 THEN Report!NoProgress
                                ELSE Report!Progress(x(m - 1), e[m])
    BY <1>1, ProgressedIs
  <2> QED
    BY <1>1, <2>1
<1> HIDE DEF x
<1>3. Fine(0)
  <2>1. G(0) = {}
    OBVIOUS
  <2> QED
    BY <1>2, <2>1, NothingKnown
<1>4. ASSUME NEW m \in 1..n, Fine(m - 1)
      PROVE  Fine(m)
  <2>1. G(m) = G(m - 1) \union {e[m]}
    <3>1. 1..m = (1..(m - 1)) \union {m}
      BY <1>1
    <3> QED
      BY <3>1
  <2>2. G(m - 1) \in SUBSET Fact /\ e[m] \in Fact
    <3>1. \A i \in 1..(m - 1) : i \in 1..n
      BY <1>1
    <3> QED
      BY <1>1, <3>1 DEF Distinct
  <2>3. \A g \in G(m - 1) : g.at <= e[m].at
    <3>1. \A i \in 1..(m - 1) : i \in 1..n /\ i < m
      BY <1>1
    <3> QED
      BY <1>1, <3>1
  <2>4. Knows(x(m - 1), G(m - 1))
    BY <1>4
  <2> HIDE DEF G
  <2>5. Knows(Report!Progress(x(m - 1), e[m]), G(m - 1) \union {e[m]})
    BY <2>2, <2>3, <2>4, PassStep
  <2> QED
    BY <1>2, <2>1, <2>5
<1> HIDE DEF Fine
<1>5. \A m \in 0..n : Fine(m)
  <2> DEFINE Bad == {m \in 0..n : ~ Fine(m)}
  <2> SUFFICES ASSUME Bad # {}
               PROVE  FALSE
    OBVIOUS
  <2>1. PICK m \in Bad : \A j \in Bad : m <= j
    <3>1. Bad \in SUBSET Nat
      BY <1>1
    <3> HIDE DEF Bad
    <3> QED
      BY <3>1, LeastOf
  <2>2. m \in 1..n /\ m - 1 \in 0..n
    BY <1>1, <1>3, <2>1
  <2>3. m - 1 \notin Bad
    <3> HIDE DEF Bad
    <3> QED
      BY <2>1, <2>2
  <2> QED
    BY <1>4, <2>1, <2>2, <2>3
<1>6. Fine(n)
  BY <1>1, <1>5
<1>7. G(n) = F
  BY <1>1
<1> QED
  BY <1>e, <1>1, <1>6, <1>7 DEF Fine, x

\* Who took a step took the one before it.
LEMMA StepBefore ==
  ASSUME NEW F \in SUBSET Fact, NEW k \in 1..Steps, NEW s \in Nat, NEW t \in Nat,
         k # 1, Reaches(F, k, s, t)
  PROVE  k - 1 \in 1..Steps /\ \E u \in Nat : Reaches(F, k - 1, s, u)
<1>1. k \in 2..Steps /\ k - 1 \in 1..Steps
  BY ReportNumbers
<1>2. \E f \in F, u \in Nat :
        /\ k \in f.matches /\ f.at = t /\ t - s <= Within /\ u < t
        /\ Reaches(F, k - 1, s, u)
  BY <1>1, ReachNext
<1> QED
  BY <1>1, <1>2

\* So the steps that are reached have no gap.
LEMMA ReachedBefore ==
  ASSUME NEW F \in SUBSET Fact, NEW k \in 1..Steps, k # 1, k \in Reached(F)
  PROVE  k - 1 \in Reached(F)
<1>1. PICK s \in Nat, t \in Nat : Reaches(F, k, s, t)
  BY DEF Reached
<1>2. k - 1 \in 1..Steps /\ \E u \in Nat : Reaches(F, k - 1, s, u)
  BY <1>1, StepBefore
<1> QED
  BY <1>2 DEF Reached

\* The pass finds what the ways of a session say.
LEMMA SessionExact ==
  ASSUME NEW F, Distinct(F), NEW spans,
         spans = {c[Steps].at - c[1].at : c \in Report!Ways(F, Steps)}
  PROVE  /\ Report!sessionProgress(Report!Sorted(F)) =
              [reached |-> {k \in 1..Steps : Report!Ways(F, k) # {}},
               elapsed |-> IF spans = {} THEN None ELSE Report!Min(spans)]
         /\ \A k \in 2..Steps :
              k \in Report!sessionProgress(Report!Sorted(F)).reached =>
                k - 1 \in Report!sessionProgress(Report!Sorted(F)).reached
<1>x. PICK x : x = Report!Progressed(Report!Sorted(F))[Len(Report!Sorted(F))]
  OBVIOUS
<1>1. Knows(x, F)
  BY <1>x, PassKnows
<1>2. Report!sessionProgress(Report!Sorted(F)) = [reached |-> x.reached, elapsed |-> x.elapsed]
  BY <1>x DEF Report!sessionProgress
<1>f. F \in SUBSET Fact /\ Steps \in 1..Steps
  BY ReportNumbers DEF Distinct
<1>3. ASSUME NEW k \in 1..Steps
      PROVE  k \in Reached(F) <=> Report!Ways(F, k) # {}
  <2>1. ASSUME NEW s \in Nat, NEW t \in Nat, Reaches(F, k, s, t)
        PROVE  Report!Ways(F, k) # {}
    BY <2>1 DEF Reaches
  <2>2. ASSUME NEW c \in Report!Ways(F, k)
        PROVE  \E s, t \in Nat : Reaches(F, k, s, t)
    <3>1. Reaches(F, k, c[1].at, c[k].at)
      BY DEF Reaches
    <3> QED
      BY <1>f, <3>1, ReachTimes
  <2> QED
    BY <2>1, <2>2 DEF Reached
<1>4. x.reached = {k \in 1..Steps : Report!Ways(F, k) # {}}
  BY <1>1, <1>3 DEF Knows, Reached
<1>5. \A d : d \in spans <=> \E s, t \in Nat : Reaches(F, Steps, s, t) /\ d = t - s
  <2>1. ASSUME NEW d \in spans
        PROVE  \E s, t \in Nat : Reaches(F, Steps, s, t) /\ d = t - s
    <3>1. PICK c \in Report!Ways(F, Steps) : d = c[Steps].at - c[1].at
      OBVIOUS
    <3>2. Reaches(F, Steps, c[1].at, c[Steps].at)
      BY DEF Reaches
    <3>3. c[1].at \in Nat /\ c[Steps].at \in Nat
      BY <1>f, <3>2, ReachTimes
    <3> QED
      BY <3>1, <3>2, <3>3
  <2>2. ASSUME NEW d, NEW s \in Nat, NEW t \in Nat, Reaches(F, Steps, s, t), d = t - s
        PROVE  d \in spans
    BY <2>2 DEF Reaches
  <2> QED
    BY <2>1, <2>2
<1>6. Shortest(x.elapsed, F)
  BY <1>1 DEF Knows
<1>7. x.elapsed = IF spans = {} THEN None ELSE Report!Min(spans)
  <2>p. PICK l : l = x.elapsed
    OBVIOUS
  <2>1. CASE \A s, t \in Nat : ~ Reaches(F, Steps, s, t)
    <3>1. spans = {}
      BY <1>5, <2>1
    <3>2. x.elapsed = None
      BY <1>6, <2>1 DEF Shortest
    <3> QED
      BY <3>1, <3>2
  <2>2. CASE ~ \A s, t \in Nat : ~ Reaches(F, Steps, s, t)
    <3>1. /\ l \in Nat /\ \E s, t \in Nat : Reaches(F, Steps, s, t) /\ l = t - s
          /\ \A s, t \in Nat : Reaches(F, Steps, s, t) => l <= t - s
      BY <1>6, <2>2, <2>p DEF Shortest
    <3>2. l \in spans /\ \A d \in spans : l <= d
      BY <1>5, <3>1
    <3>3. \A d \in spans : d \in Int
      BY <1>5
    <3>4. ASSUME NEW d \in spans, \A j \in spans : d <= j
          PROVE  d = l
      <4>1. d <= l /\ l <= d
        BY <3>2, <3>4
      <4>2. d \in Int /\ l \in Int
        BY <3>1, <3>3
      <4> QED
        BY <4>1, <4>2
    <3>5. Report!Min(spans) = l
      BY <3>2, <3>4 DEF Report!Min
    <3> QED
      BY <2>p, <3>2, <3>5
  <2> QED
    BY <2>1, <2>2
<1>8. ASSUME NEW k \in 2..Steps, k \in x.reached
      PROVE  k - 1 \in x.reached
  <2>1. k \in 1..Steps /\ k # 1
    BY ReportNumbers
  <2> QED
    BY <1>1, <1>f, <1>8, <2>1, ReachedBefore DEF Knows
<1> QED
  BY <1>2, <1>4, <1>7, <1>8

\* The one pass of a session is exact for any facts and any funnel.
LEMMA FunnelExactHolds ==
  ASSUME source \in Seq(Fact)
  PROVE  Report!FunnelExact
<1> SUFFICES ASSUME Report!factsInWindow # Report!Exceeded
             PROVE  LET o == Report!factsInWindow IN
                    /\ \A s \in {f.session : f \in o.facts} \ {None} :
                         LET F == {f \in o.facts : f.session = s}
                             spans == {c[Steps].at - c[1].at : c \in Report!Ways(F, Steps)} IN
                         Report!sessionProgress(Report!sessionGroups(o.facts)[s]) =
                           [reached |-> {k \in 1..Steps : Report!Ways(F, k) # {}},
                            elapsed |-> IF spans = {} THEN None ELSE Report!Min(spans)]
                    /\ \A k \in 2..Steps :
                         Report!funnelResult(o.facts)[k] <= Report!funnelResult(o.facts)[k - 1]
  BY DEF Report!FunnelExact
<1>A. PICK A : A = Report!factsInWindow.facts
  OBVIOUS
<1>1. Distinct(A)
  <2>1. A = Clean(Report!InWindow)
    BY <1>A, FactsSeen DEF Seen
  <2>2. IsFiniteSet(A) /\ A \subseteq Fact
    BY <2>1, FactsSeen, FS_Subset DEF Clean
  <2>3. \A f, g \in A : f.key = g.key => f = g
    BY <2>1 DEF Clean, Twice
  <2> QED
    BY <2>2, <2>3 DEF Distinct
<1> DEFINE S == {f.session : f \in A} \ {None}
<1> DEFINE P(s) == Report!sessionProgress(Report!sessionGroups(A)[s])
<1> DEFINE Of(s) == {f \in A : f.session = s}
<1>2. ASSUME NEW s \in S
      PROVE  Report!sessionGroups(A)[s] = Report!Sorted(Of(s)) /\ Distinct(Of(s))
  <2>1. Of(s) \in SUBSET A
    OBVIOUS
  <2>2. IsFiniteSet(Of(s))
    BY <1>1, <2>1, FS_Subset DEF Distinct
  <2>3. Report!sessionGroups(A)[s] = Report!Sorted(Of(s))
    BY DEF Report!sessionGroups
  <2> QED
    BY <1>1, <2>1, <2>2, <2>3 DEF Distinct
<1>3. ASSUME NEW s \in S
      PROVE  LET spans == {c[Steps].at - c[1].at : c \in Report!Ways(Of(s), Steps)} IN
             P(s) = [reached |-> {k \in 1..Steps : Report!Ways(Of(s), k) # {}},
                     elapsed |-> IF spans = {} THEN None ELSE Report!Min(spans)]
  <2> HIDE DEF Of
  <2> QED
    BY <1>2, SessionExact
<1>4. ASSUME NEW s \in S, NEW k \in 2..Steps, k \in P(s).reached
      PROVE  k - 1 \in P(s).reached
  <2> HIDE DEF Of
  <2> QED
    BY <1>2, <1>4, SessionExact
<1>5. IsFiniteSet(S)
  <2> DEFINE T == {f.session : f \in A}
  <2> DEFINE m == [f \in A |-> f.session]
  <2>1. m \in Surjection(A, T)
    BY DEF Surjection
  <2>2. IsFiniteSet(T)
    <3> HIDE DEF T, m
    <3> QED
      BY <1>1, <2>1, FS_Surjection DEF Distinct
  <2> QED
    BY <2>2, FS_Subset
<1>6. \A k \in 1..Steps : Report!funnelResult(A)[k] = Cardinality({s \in S : k \in P(s).reached})
  BY ReportsCount DEF Report!funnelResult, Report!sessionGroups
<1>7. ASSUME NEW k \in 2..Steps
      PROVE  Report!funnelResult(A)[k] <= Report!funnelResult(A)[k - 1]
  <2> HIDE DEF S, P
  <2>1. k \in 1..Steps /\ k - 1 \in 1..Steps
    BY ReportNumbers
  <2> DEFINE B(j) == {s \in S : j \in P(s).reached}
  <2>2. B(k) \in SUBSET B(k - 1)
    BY <1>4
  <2>3. IsFiniteSet(B(k - 1))
    BY <1>5, FS_Subset
  <2>4. Cardinality(B(k)) <= Cardinality(B(k - 1))
    <3> HIDE DEF B
    <3> QED
      BY <2>2, <2>3, FS_Subset
  <2> QED
    BY <1>6, <2>1, <2>4
<1> QED
  BY <1>A, <1>3, <1>7
-----------------------------------------------------------------------------
ReportFacts == source \in Seq(Fact)

\* For any payments, refunds and deliveries, any facts in any order and any
\* funnel: the triggers keep every payment covered, the local ledger answers,
\* holds and reports what the database does, and a report is what its facts say.
THEOREM ReportedAlways == StoresSpec => []Reported
<1> DEFINE storesVars ==
      <<part, vars, auditVars, presenceVars, accessVars, setupVars, paymentVars,
        endpointVars, logVars, source>>
<1> DEFINE Inv == LedgerInv /\ ReportFacts
<1>1. StoresInit => Inv
  <2> SUFFICES ASSUME StoresInit
               PROVE  Inv
    OBVIOUS
  <2>1. Ledgers!Init /\ Report!Init
    BY DEF StoresInit
  <2>2. ReportFacts
    BY <2>1 DEF Report!Init, ReportFacts
  <2> QED
    BY <2>1, <2>2, LedgerBegins
<1>2. Inv /\ [StoresNext]_storesVars => Inv'
  <2> SUFFICES ASSUME Inv, [StoresNext]_storesVars
               PROVE  Inv'
    OBVIOUS
  <2>1. LedgerInv'
    <3>1. CASE UNCHANGED paymentVars
      BY <3>1 DEF paymentVars, LedgerInv, Ledgers!Covered
    <3>2. CASE part = "payments" /\ StoresNext
      BY <3>2, RecordStep DEF StoresNext, Ledgers!Next
    <3> QED
      BY <3>1, <3>2 DEF StoresNext, Still
  <2>2. ReportFacts'
    <3>1. CASE UNCHANGED source
      BY <3>1 DEF ReportFacts
    <3>2. CASE part = "report" /\ StoresNext
      <4>1. PICK f \in Fact : source' = Append(source, f)
        BY <3>2 DEF StoresNext, Report!Next, Report!Read
      <4> QED
        BY <4>1 DEF ReportFacts
    <3> QED
      BY <3>1, <3>2 DEF StoresNext, Still
  <2> QED
    BY <2>1, <2>2
<1>3. Inv => Reported
  BY LedgerEnough, OrderFreeHolds, FunnelExactHolds DEF ReportFacts, Reported
<1> QED
  BY <1>1, <1>2, <1>3, PTL DEF StoresSpec
=============================================================================
