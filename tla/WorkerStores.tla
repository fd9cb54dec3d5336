------------------------------ MODULE WorkerStores ------------------------------
(***************************************************************************)
(* The stores of the worker that no run has to itself: browser batches and *)
(* their exact visitors, the archive audits, live presence, the members of *)
(* a workspace, its setup and imports, the payment ledger, the ingest of   *)
(* endpoint measurements and of logs, and the conversion report.  They are *)
(* tables, objects and algorithms of their own and share the clock only,   *)
(* so a behaviour is one of one part, and the variables of the others keep *)
(* their initial values.                                                   *)
(***************************************************************************)
EXTENDS BrowserVisitors

CONSTANTS
  \* ArchiveAudits
  Runner, Shards, Segment, Early, ShardOf, SegmentRows, DayReceipts, InDay, Budget,
  ReceiptsPerSlice, SegmentsPerPage, ShardsPerSlice, Retries,
  \* LivePresence
  Session, Scope, ScopeOf, Viewer, Connection, Ttl, Skip, Beat, Gap, ViewLease,
  Upgrade, MaxSessions, MaxScopes, PresenceTime,
  \* WorkspaceAccess
  Guest, Invite, Seats, OpenInvites, Life, AccessTime,
  \* WorkspaceSetup
  Owner, First, Existing, OwnedBy, Catalog, Content, Import, MaxImports,
  \* PaymentLedger
  Capacity, Periods, LedgerRequest,
  \* EndpointIngest and LogIngest
  Attempt, Transit,
  EndpointBatch, EndpointStamp, Failed, Environment, MaxEnvironments, EndpointSkew,
  Keep, FailureKeep, EndpointTime,
  LogBatch, LogStamp, Quota, Window, LogSkew, LogRetention, ClaimKeep, LogTime,
  \* ConversionReport
  Steps, Within, RangeFrom, RangeTo, Limit, MaxFacts, Fact

VARIABLES
  part,
  index, accepted, forgotten, job, slice,
  presence, heard, alarm, sockets, lastFrame, nextCleanup, nextFrame, watchers, asking,
  members, invites, granted, spent,
  first, workspace, signups, apps, archived, imports, confirmed, asked,
  facts, deliveries, localFacts, localDeliveries, agreed,
  environments, deliveredBy, observed, endpointReceipts, counted, countedFor,
  loggedBy, seenBatches, logRows, quota, answers, alerts, broken,
  source
-----------------------------------------------------------------------------
Audits == INSTANCE ArchiveAudits WITH Rows <- SegmentRows, Receipts <- DayReceipts

Presence == INSTANCE LivePresence WITH
  Lease <- ViewLease, Transit <- Upgrade, MaxTime <- PresenceTime, Never <- None,
  rows <- presence, members <- watchers

Access == INSTANCE WorkspaceAccess WITH MaxTime <- AccessTime

Setup == INSTANCE WorkspaceSetup WITH Holds <- OwnedBy

Ledgers == INSTANCE PaymentLedger WITH Request <- LedgerRequest, Pending <- None

Endpoints == INSTANCE EndpointIngest WITH
  Batch <- EndpointBatch, Stamp <- EndpointStamp, Skew <- EndpointSkew,
  MaxTime <- EndpointTime,
  work <- deliveredBy, receipts <- endpointReceipts, answered <- countedFor

Logs == INSTANCE LogIngest WITH
  Batch <- LogBatch, Stamp <- LogStamp, Skew <- LogSkew, Retention <- LogRetention,
  MaxTime <- LogTime,
  work <- loggedBy, claims <- seenBatches, rows <- logRows

Report == INSTANCE ConversionReport WITH From <- RangeFrom, To <- RangeTo

ASSUME StoreScales ==
  /\ Audits!AuditScale /\ Presence!PresenceScale /\ Access!AccessScale
  /\ Setup!SetupScale /\ Ledgers!LedgerScale /\ Endpoints!IngestScale
  /\ Logs!LogScale /\ Report!ConversionScale
-----------------------------------------------------------------------------
auditVars == <<index, accepted, forgotten, job, slice>>
presenceVars ==
  <<presence, heard, alarm, sockets, lastFrame, nextCleanup, nextFrame, watchers, asking>>
accessVars == <<members, invites, granted, spent>>
setupVars == <<first, workspace, signups, apps, archived, imports, confirmed, asked>>
paymentVars == <<facts, deliveries, localFacts, localDeliveries, agreed>>
endpointVars == <<environments, deliveredBy, observed, endpointReceipts, counted, countedFor>>
logVars == <<loggedBy, seenBatches, logRows, quota, answers, alerts, broken>>
visitorVars == <<evidence, ledger, req, answered>>

\* The variables that part p leaves alone.
Still(p) ==
  /\ p \in {"audits", "setup", "payments", "report"} => UNCHANGED now
  /\ p # "visitors" => UNCHANGED visitorVars
  /\ p # "audits" => UNCHANGED auditVars
  /\ p # "presence" => UNCHANGED presenceVars
  /\ p # "access" => UNCHANGED accessVars
  /\ p # "setup" => UNCHANGED setupVars
  /\ p # "payments" => UNCHANGED paymentVars
  /\ p # "endpoints" => UNCHANGED endpointVars
  /\ p # "logs" => UNCHANGED logVars
  /\ p # "report" => UNCHANGED source

StoresInit ==
  /\ part \in {"visitors", "audits", "presence", "access", "setup", "payments",
               "endpoints", "logs", "report"}
  /\ Init /\ Audits!Init /\ Presence!Init /\ Access!Init /\ Setup!Init /\ Ledgers!Init
  /\ Endpoints!Init /\ Logs!Init /\ Report!Init

StoresNext ==
  /\ \/ part = "visitors" /\ Next
     \/ part = "audits" /\ Audits!Next
     \/ part = "presence" /\ Presence!Next
     \/ part = "access" /\ Access!Next
     \/ part = "setup" /\ Setup!Next
     \/ part = "payments" /\ Ledgers!Next
     \/ part = "endpoints" /\ Endpoints!Next
     \/ part = "logs" /\ Logs!Next
     \/ part = "report" /\ Report!Next
  /\ Still(part) /\ UNCHANGED part

StoresSpec ==
  StoresInit /\ [][StoresNext]_<<part, vars, auditVars, presenceVars, accessVars,
    setupVars, paymentVars, endpointVars, logVars, source>>
-----------------------------------------------------------------------------
\* The types of all modules.
Types ==
  /\ TypeOK /\ Audits!TypeOK /\ Presence!TypeOK /\ Access!TypeOK /\ Setup!TypeOK
  /\ Ledgers!TypeOK /\ Endpoints!TypeOK /\ Logs!TypeOK /\ Report!TypeOK

\* Audit slices count every archived row once, however they fail, repeat and
\* overlap, and a finished audit says of each batch what the synchronous audit
\* would say of the receipts and segments it set out to compare.
Audited == Audits!CountedOnce /\ Audits!FinishedAgrees

\* A socket ends within a beat and a gap of its lease whatever the alarm does, a
\* session counts for as long as it is heard, and what the object sent last is late
\* by less than a beat and a gap.  A socket that opened since that frame may show its
\* own snapshot for longer: LivePresence!ObservedInTime.
Watched == Presence!ShortLived /\ Presence!Online /\ Presence!Current

\* Invitations and members stay in their limits, a member was let in by an
\* invitation that is not used up and has the role it was given.  A workspace is
\* reported once; an import claims no app of another and succeeds only as asked.
Admitted ==
  /\ Access!InLimits /\ Access!Admitted /\ Access!RolesGranted
  /\ Setup!OneSignup /\ Setup!ImportsBound /\ Setup!ImportedAsAsked

\* An endpoint event is counted once, and when its batch was answered it is counted,
\* in the inventory and, if it failed and until that is forgotten, among the
\* failures, in no more environments than an app may have.  Logs that were accepted
\* and that the routes store last until they expire, each is stored once, alerts are
\* not repeated, and browsers stay within their quota.
Ingested ==
  /\ Endpoints!NeverTwice /\ Endpoints!AnsweredCounted /\ Endpoints!EnvironmentsBounded
  /\ Logs!Lasting /\ Logs!StoredOnce /\ Logs!AlertedOnce /\ Logs!WithinQuota

\* Refunds never exceed their payment and both ledgers agree on it; a funnel is
\* what its facts say in whatever order they were read.
Reported ==
  Ledgers!Covered /\ Ledgers!Alike /\ Report!OrderFree /\ Report!FunnelExact
=============================================================================
