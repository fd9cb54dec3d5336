---------------------------- MODULE ProductIngest ----------------------------
(***************************************************************************)
(* The exactly-once archive of canonical product events.                   *)
(*                                                                         *)
(* A request that carries a batch of events reserves the batch and claims  *)
(* its events in D1 (one transaction), reads back which claims it holds,   *)
(* writes the events it owns as one R2 object under a key nobody else will *)
(* ever use, and seals the reservation (a second transaction), which also  *)
(* publishes the object to the report index.  Requests are retried, run    *)
(* side by side, stall between any two steps and die at any step; receipts *)
(* expire; a maintenance run purges expired receipts, retires raw objects  *)
(* at 31 days and identities at 35, and deletes objects in two phases: a   *)
(* fence overwrites the object first, so that a stalled conditional create *)
(* finds something there, and the tombstone is deleted much later.         *)
(*                                                                         *)
(* One product scope (workspace, app, environment, channel) is modelled;   *)
(* every D1 batch() is one atomic step, every R2 call another.             *)
(***************************************************************************)
EXTENDS Integers, FiniteSets

CONSTANTS
  Id,             \* event ids
  Event,          \* canonical events; two with one id are conflicting versions
  IdOf(_),        \* the event_id of an event
  OccurredAt(_),  \* when it happened, by its own field
  BatchId,        \* client-chosen batch ids
  Input,          \* the event sets requests carry
  Reservation,    \* the UUIDs crypto.randomUUID draws; also the object keys
  Worker,         \* requests in flight
  Cleaner,        \* maintenance runs deleting objects
  None,
  PendingTtl,     \* 10 minutes: a receipt that is not sealed expires
  RawTtl,         \* 31 days: the raw object is retired
  IdentityTtl,    \* 35 days: batch and event identities are forgotten
  Grace,          \* 1 hour: readers of a retired object finish
  Tombstone,      \* 35 days: a fenced key stays occupied
  Window,         \* 24 hours: older events are refused
  Skew,           \* 60 seconds: events further in the future are refused
  RunLife,        \* bound on how long one request or maintenance run lives
  ClaimCapacity, ReceiptCapacity, PendingCapacity,
  MaxTime         \* bound of the model's clock

ASSUME EventAssumption ==
  /\ \A e \in Event : IdOf(e) \in Id /\ OccurredAt(e) \in Nat
  /\ \A in \in Input : /\ in \subseteq Event
                       /\ in # {}
                       /\ IsFiniteSet(in)
                       /\ \A e, f \in in : IdOf(e) = IdOf(f) => e = f
  /\ IsFiniteSet(Id) /\ IsFiniteSet(Reservation)
  /\ None \notin Reservation /\ None \notin Event /\ None \notin BatchId

ASSUME TimeAssumption ==
  /\ {PendingTtl, RawTtl, IdentityTtl, Grace, Tombstone, Window, Skew, RunLife,
      MaxTime} \subseteq Nat
  /\ 0 < PendingTtl /\ PendingTtl < RawTtl /\ RawTtl <= IdentityTtl
  /\ Window + Skew < IdentityTtl
  /\ 2 * RunLife < Tombstone

ASSUME CapacityAssumption ==
  {ClaimCapacity, ReceiptCapacity, PendingCapacity} \subseteq Nat

VARIABLES
  now,       \* Date.now(), one clock for every party
  row,       \* product_batches, by reservation
  claim,     \* product_event_claims, by event id
  usage,     \* product_event_usage, kept by triggers
  gc,        \* product_object_gc, by object key
  segment,   \* the raw object's row in product_report_segments
  object,    \* the R2 bucket, by object key
  worker,    \* each request's program counter and locals
  cleaner,   \* each object-deleting run's program counter and locals
  archived,  \* history: events some sealed object has held
  acked      \* history: events some client was told are stored

database == <<row, claim, usage, gc, segment>>
vars == <<now, database, object, worker, cleaner, archived, acked>>
-----------------------------------------------------------------------------
Phase == {"none", "fence", "delete"}

RowType == [state : {"free", "pending", "sealed", "gone"},
            batch : BatchId \union {None}, input : SUBSET Event,
            received : Nat, accepted : SUBSET Event, deleted : {0, 1}]
ClaimType == [owner : Reservation \union {None}, event : Event \union {None}]
WorkerType == [pc : {"idle", "replay", "reserved", "put", "verify", "seal",
                     "confirm"},
               res : Reservation \union {None}, input : SUBSET Event,
               owned : SUBSET Event, started : Nat]
CleanerType == [pc : {"idle", "object", "row"},
                key : Reservation \union {None}, phase : Phase, started : Nat]

TypeOK ==
  /\ now \in Nat
  /\ row \in [Reservation -> RowType]
  /\ claim \in [Id -> ClaimType]
  /\ usage \in [claims : Int, receipts : Int]
  /\ gc \in [Reservation -> [phase : Phase, at : Nat]]
  /\ segment \in [Reservation -> {"none", "active", "inactive"}]
  /\ object \in [Reservation -> [kind : {"absent", "fence", "body"},
                                 events : SUBSET Event]]
  /\ worker \in [Worker -> WorkerType]
  /\ cleaner \in [Cleaner -> CleanerType]
  /\ archived \subseteq Event
  /\ acked \subseteq Event

FreeRow == [state |-> "free", batch |-> None, input |-> {}, received |-> 0,
            accepted |-> {}, deleted |-> 0]
NoClaim == [owner |-> None, event |-> None]
NoGc == [phase |-> "none", at |-> 0]
NoObject == [kind |-> "absent", events |-> {}]
FenceObject == [kind |-> "fence", events |-> {}]
IdleWorker == [pc |-> "idle", res |-> None, input |-> {}, owned |-> {},
               started |-> 0]
IdleCleaner == [pc |-> "idle", key |-> None, phase |-> "none", started |-> 0]

Init ==
  /\ now = 0
  /\ row = [r \in Reservation |-> FreeRow]
  /\ claim = [i \in Id |-> NoClaim]
  /\ usage = [claims |-> 0, receipts |-> 0]
  /\ gc = [r \in Reservation |-> NoGc]
  /\ segment = [r \in Reservation |-> "none"]
  /\ object = [r \in Reservation |-> NoObject]
  /\ worker = [w \in Worker |-> IdleWorker]
  /\ cleaner = [c \in Cleaner |-> IdleCleaner]
  /\ archived = {}
  /\ acked = {}
-----------------------------------------------------------------------------
Live(r) == row[r].state \in {"pending", "sealed"}
Claimed(r) == {i \in Id : claim[i].owner = r}
Expired(r) == row[r].state = "pending" /\ row[r].received + PendingTtl <= now

(* product_pending_gc: deleting a pending receipt schedules its object.  *)
PendingGc(r) ==
  IF gc[r].phase = "none"
    THEN [phase |-> "fence", at |-> row[r].received + PendingTtl]
    ELSE gc[r]

GoneRowNull == [FreeRow EXCEPT !.state = "gone", !.received = None]
GoneRow == [FreeRow EXCEPT !.state = "gone"]

-----------------------------------------------------------------------------
(* Requests                                                                *)

Dead == {r \in Reservation : Expired(r)}

(* The claims as the first statement of the reservation leaves them.       *)
HeldClaim(i) == IF claim[i].owner \in Dead THEN NoClaim ELSE claim[i]

(* A request is refused unless each of its events is recent.               *)
ValidTimesSkipped(in) == TRUE
ValidTimes(in) ==
  \A e \in in : now - Window <= OccurredAt(e) /\ OccurredAt(e) <= now + Skew

(* The row the second statement inserts.                                   *)
NewRow(b, in) == [state |-> "pending", batch |-> b, input |-> in,
                  received |-> now, accepted |-> {}, deleted |-> 0]

(* The receipt a batch finds: its own live one with the same digest, or,   *)
(* when it has none, a fresh reservation within the capacities.            *)
ReceiptFor(r, b, in) ==
  \/ /\ Live(r) /\ r \notin Dead
     /\ row[r].batch = b /\ row[r].input = in
  \/ /\ row[r].state = "free"
     /\ \A q \in Reservation \ Dead : Live(q) => row[q].batch # b
     /\ usage.receipts - Cardinality(Dead) < ReceiptCapacity
     /\ Cardinality({q \in Reservation \ Dead : row[q].state = "pending"})
          < PendingCapacity

FreshReplacing(in) == in
Fresh(in) == {e \in in : HeldClaim(IdOf(e)).owner = None}
PurgedNone == {}
Purged == {i \in Id : claim[i].owner \in Dead}

(* The canonical event of the batch with this id.                          *)
Version(in, i) == CHOOSE e \in in : IdOf(e) = i

(* The three claim triggers: an event id already claimed must carry the    *)
(* same digest and must not belong to another batch's pending receipt, and *)
(* new claims must fit.                                                    *)
ClaimsAllowedPending(r, in) ==
  /\ \A e \in in : LET c == HeldClaim(IdOf(e)) IN
       c.owner # None => c.event = e
  /\ usage.claims - Cardinality(Purged) + Cardinality(Fresh(in))
       <= ClaimCapacity
ClaimsAllowed(r, in) ==
  /\ \A e \in in : LET c == HeldClaim(IdOf(e)) IN
       c.owner # None =>
         /\ c.event = e
         /\ c.owner # r => row[c.owner].state # "pending"
  /\ Fresh(in) # {} =>
       usage.claims - Cardinality(Purged) + Cardinality(Fresh(in))
         <= ClaimCapacity

(* reserveProductBatch's transaction.  A trigger that aborts rolls all of  *)
(* it back, the purge included, and the request answers an error: no step. *)
Reserve(w, b, in) ==
  /\ worker[w].pc = "idle"
  /\ ValidTimes(in)
  /\ \E r \in Reservation :
       /\ ReceiptFor(r, b, in)
       /\ ClaimsAllowed(r, in)
       /\ row' = [q \in Reservation |->
            IF q \in Dead THEN GoneRow
            ELSE IF q = r /\ ~Live(r)
              THEN NewRow(b, in)
            ELSE row[q]]
       /\ claim' = [i \in Id |->
            IF \E e \in Fresh(in) : IdOf(e) = i
              THEN [owner |-> r, event |-> Version(in, i)]
              ELSE HeldClaim(i)]
       /\ usage' = [claims |-> usage.claims - Cardinality(Purged)
                                 + Cardinality(Fresh(in)),
                    receipts |-> usage.receipts - Cardinality(Dead)
                                 + IF Live(r) THEN 0 ELSE 1]
       /\ gc' = [q \in Reservation |-> IF q \in Dead THEN PendingGc(q)
                                                    ELSE gc[q]]
       /\ worker' = [worker EXCEPT ![w] =
            [pc |-> IF row[r].state = "sealed" THEN "replay" ELSE "reserved",
             res |-> r, input |-> in, owned |-> {}, started |-> now]]
  /\ UNCHANGED <<now, segment, object, cleaner, archived, acked>>

(* The receipt was already sealed: every event is a duplicate.             *)
ReplySealed(w) ==
  /\ worker[w].pc = "replay"
  /\ acked' = acked \union worker[w].input
  /\ worker' = [worker EXCEPT ![w] = IdleWorker]
  /\ UNCHANGED <<now, database, object, cleaner, archived>>

(* The separate SELECT that tells the request which events it owns.        *)
ReadOwned(w) ==
  /\ worker[w].pc = "reserved"
  /\ LET owned == {e \in worker[w].input :
                     claim[IdOf(e)].owner = worker[w].res}
     IN worker' = [worker EXCEPT
          ![w].owned = owned,
          ![w].pc = IF owned = {} THEN "seal" ELSE "put"]
  /\ UNCHANGED <<now, database, object, cleaner, archived, acked>>

(* onlyIf: { etagDoesNotMatch: '*' } holds when nothing is stored there.   *)
CreatableAlways(r) == TRUE
Creatable(r) == object[r].kind = "absent"

(* The create is not awaited: the seal may come first, and the create fail.*)
PutObjectUnawaited(w) ==
  /\ worker[w].pc = "put"
  /\ worker' = [worker EXCEPT ![w].pc = "seal"]
  /\ UNCHANGED <<now, database, object, cleaner, archived, acked>>

(* persistedObject: a conditional create of the owned events.              *)
PutObject(w) ==
  /\ worker[w].pc = "put"
  /\ IF Creatable(worker[w].res)
       THEN /\ object' = [object EXCEPT ![worker[w].res] =
                            [kind |-> "body", events |-> worker[w].owned]]
            /\ worker' = [worker EXCEPT ![w].pc = "seal"]
       ELSE /\ worker' = [worker EXCEPT ![w].pc = "verify"]
            /\ UNCHANGED object
  /\ UNCHANGED <<now, database, cleaner, archived, acked>>

(* The create lost: what is stored must be this very body, else an error.  *)
VerifyObject(w) ==
  /\ worker[w].pc = "verify"
  /\ worker' = [worker EXCEPT ![w] =
       IF object[worker[w].res] = [kind |-> "body",
                                   events |-> worker[w].owned]
         THEN [worker[w] EXCEPT !.pc = "seal"]
         ELSE IdleWorker]
  /\ UNCHANGED <<now, database, object, cleaner, archived, acked>>

Sealable(w) ==
  LET r == worker[w].res IN
  /\ row[r].state = "pending"
  /\ now < row[r].received + PendingTtl
  /\ Cardinality(Claimed(r)) = Cardinality(worker[w].owned)

(* The row holds this request's hash: same reservation, same owned events. *)
SealedAs(r, events) == row[r].state = "sealed" /\ row[r].accepted = events

(* The WHERE of the segment insert, read after the transaction's update.   *)
IndexableEmpty(r, owned) == row'[r].state = "sealed" /\ row'[r].deleted = 0
Indexable(r, owned) ==
  /\ row'[r].state = "sealed" /\ row'[r].accepted = owned
  /\ owned # {} /\ row'[r].deleted = 0

(* sealProductBatch's transaction: seal if the receipt is still ours, and  *)
(* index the object if the sealed row has this hash and is not retired.    *)
Seal(w) ==
  /\ worker[w].pc = "seal"
  /\ LET r == worker[w].res IN
     LET owned == worker[w].owned IN
     /\ IF Sealable(w)
          THEN /\ row' = [row EXCEPT ![r].state = "sealed",
                                     ![r].accepted = owned]
               /\ archived' = archived \union owned
               /\ acked' = acked \union worker[w].input
               /\ worker' = [worker EXCEPT ![w] = IdleWorker]
          ELSE /\ worker' = [worker EXCEPT ![w].pc = "confirm"]
               /\ UNCHANGED <<row, archived, acked>>
     /\ segment' = [segment EXCEPT ![r] =
          IF @ = "none" /\ Indexable(r, owned) THEN "active" ELSE @]
  /\ UNCHANGED <<now, claim, usage, gc, object, cleaner>>

(* The seal changed no row: a duplicate if somebody sealed this very body. *)
Confirm(w) ==
  /\ worker[w].pc = "confirm"
  /\ acked' = IF SealedAs(worker[w].res, worker[w].owned)
                THEN acked \union worker[w].input ELSE acked
  /\ worker' = [worker EXCEPT ![w] = IdleWorker]
  /\ UNCHANGED <<now, database, object, cleaner, archived>>

(* The client gives up, the isolate is evicted, D1 or R2 fails.            *)
Abandon(w) ==
  /\ worker[w].pc # "idle"
  /\ worker' = [worker EXCEPT ![w] = IdleWorker]
  /\ UNCHANGED <<now, database, object, cleaner, archived, acked>>
-----------------------------------------------------------------------------
(* Maintenance                                                             *)

RawDue(r) == row[r].state = "sealed" /\ row[r].received + RawTtl <= now
IdentityDue(r) ==
  row[r].state = "sealed" /\ row[r].received + IdentityTtl <= now
Forgotten(r) == Expired(r) \/ IdentityDue(r)

(* effectiveCleanup: when a receipt next has something to lose.            *)
Due(r) == Expired(r) \/ (RawDue(r) /\ row[r].deleted = 0) \/ IdentityDue(r)

(* The retired object's garbage entry, merged into one already waiting.    *)
RetiredGc(r) ==
  LET later == IF gc[r].at > now + Grace THEN gc[r].at ELSE now + Grace IN
  CASE gc[r].phase = "none"   -> [phase |-> "fence", at |-> now + Grace]
    [] gc[r].phase = "fence"  -> [phase |-> "fence", at |-> later]
    [] gc[r].phase = "delete" -> gc[r]

(* retireReceipts: one receipt's statements, in the order of the batch.    *)
RetireReceipt(r) ==
  /\ Due(r)
  /\ LET retiring == RawDue(r) /\ row[r].deleted = 0 /\ row[r].accepted # {} IN
     /\ segment' = [segment EXCEPT ![r] =
          IF retiring /\ @ = "active" THEN "inactive" ELSE @]
     /\ gc' = [gc EXCEPT ![r] =
          IF retiring THEN RetiredGc(r)
          ELSE IF Expired(r) THEN PendingGc(r) ELSE @]
  /\ IF Forgotten(r)
       THEN /\ claim' = [i \in Id |->
                           IF claim[i].owner = r THEN NoClaim ELSE claim[i]]
            /\ usage' = [claims |-> usage.claims - Cardinality(Claimed(r)),
                         receipts |-> usage.receipts - 1]
            /\ row' = [row EXCEPT ![r] = GoneRow]
       ELSE /\ row' = [row EXCEPT ![r].deleted = 1]
            /\ UNCHANGED <<claim, usage>>
  /\ UNCHANGED <<now, object, worker, cleaner, archived, acked>>

(* cleanupObjects reads the due keys once; the row it acts on may be stale *)
PickGarbage(c, r) ==
  /\ cleaner[c].pc = "idle"
  /\ gc[r].phase # "none" /\ gc[r].at <= now
  /\ cleaner' = [cleaner EXCEPT ![c] =
       [pc |-> "object", key |-> r, phase |-> gc[r].phase, started |-> now]]
  /\ UNCHANGED <<now, database, object, worker, archived, acked>>

(* The R2 call: an unconditional overwrite, or the delete.                 *)
CleanObject(c) ==
  /\ cleaner[c].pc = "object"
  /\ object' = [object EXCEPT ![cleaner[c].key] =
       IF cleaner[c].phase = "fence" THEN FenceObject ELSE NoObject]
  /\ cleaner' = [cleaner EXCEPT ![c].pc = "row"]
  /\ UNCHANGED <<now, database, worker, archived, acked>>

(* A fenced key stays occupied this long, counted from the run's start.    *)
TombstoneEnd(c) == cleaner[c].started + Tombstone

(* The D1 statement after it, conditional on the phase it read.            *)
CleanRow(c) ==
  /\ cleaner[c].pc = "row"
  /\ gc' = [gc EXCEPT ![cleaner[c].key] =
       IF @.phase # cleaner[c].phase THEN @
       ELSE IF @.phase = "fence"
         THEN [phase |-> "delete", at |-> TombstoneEnd(c)]
       ELSE NoGc]
  /\ cleaner' = [cleaner EXCEPT ![c] = IdleCleaner]
  /\ UNCHANGED <<now, row, claim, usage, segment, object, worker, archived,
                 acked>>

(* A maintenance run stops between two calls; the table remembers the key. *)
StopCleaner(c) ==
  /\ cleaner[c].pc # "idle"
  /\ cleaner' = [cleaner EXCEPT ![c] = IdleCleaner]
  /\ UNCHANGED <<now, database, object, worker, archived, acked>>

(* Time passes; no request or run outlives RunLife.                        *)
Tick ==
  /\ now < MaxTime
  /\ \A w \in Worker : worker[w].pc # "idle" =>
                          now < worker[w].started + RunLife
  /\ \A c \in Cleaner : cleaner[c].pc # "idle" =>
                           now < cleaner[c].started + RunLife
  /\ now' = now + 1
  /\ UNCHANGED <<database, object, worker, cleaner, archived, acked>>

Request(w) ==
  \/ \E b \in BatchId, in \in Input : Reserve(w, b, in)
  \/ ReplySealed(w) \/ ReadOwned(w) \/ PutObject(w) \/ VerifyObject(w)
  \/ Seal(w) \/ Confirm(w) \/ Abandon(w)

Clean(c) ==
  \/ \E r \in Reservation : PickGarbage(c, r)
  \/ CleanObject(c) \/ CleanRow(c) \/ StopCleaner(c)

Next ==
  \/ \E w \in Worker : Request(w)
  \/ \E c \in Cleaner : Clean(c)
  \/ \E r \in Reservation : RetireReceipt(r)
  \/ Tick

Spec == Init /\ [][Next]_vars
-----------------------------------------------------------------------------
(* Properties                                                              *)

(* An event id is accepted by at most one of the receipts on record, so a  *)
(* retry, a rebatch or a conflicting version never counts twice (the claim *)
(* triggers and the count in sealProductBatch's UPDATE).                   *)
AtMostOnce ==
  \A r, q \in Reservation :
    (r # q /\ row[r].state = "sealed" /\ row[q].state = "sealed") =>
      \A e \in row[r].accepted, f \in row[q].accepted : IdOf(e) # IdOf(f)

(* As long as a sealed receipt's object is not retired, R2 holds exactly   *)
(* the accepted events under its key: no stalled create, fence or delete   *)
(* touches it (persistedObject, cleanupObjects).                           *)
ObjectIntact ==
  \A r \in Reservation :
    (row[r].state = "sealed" /\ row[r].deleted = 0 /\ row[r].accepted # {}) =>
      object[r] = [kind |-> "body", events |-> row[r].accepted]

(* Whatever acceptProductArchive answered, accepted or duplicate, each of  *)
(* the batch's events has been in a sealed object: also a batch that owns  *)
(* none of its events, whose reply rests on other batches' receipts.       *)
AckedArchived == acked \subseteq archived

(* Reports see a sealed object until it is retired, and no other object    *)
(* (the segment insert of sealProductBatch, retireRawReferences).          *)
Published ==
  \A r \in Reservation :
    segment[r] = "active" <=>
      (row[r].state = "sealed" /\ row[r].deleted = 0 /\ row[r].accepted # {})

(* An R2 object always has somebody who will remove it: the receipt that   *)
(* will retire it, or an entry of product_object_gc, however late a        *)
(* stalled request writes it.  It rests on ValidTimes: an event accepted   *)
(* again after its identity is forgotten would give a sealed receipt new   *)
(* claims, and the retirement of an empty receipt leaves no garbage entry. *)
NoOrphan ==
  \A r \in Reservation :
    object[r].kind # "absent" =>
      (Live(r) /\ row[r].deleted = 0) \/ gc[r].phase # "none"

(* Once the fence is recorded the key never holds event bytes again: a     *)
(* stalled request cannot bring back what retirement or expiry erased      *)
(* (the comment in cleanupObjects; persistedObject's conditional create).  *)
Erased ==
  \A r \in Reservation : gc[r].phase = "delete" => object[r].kind # "body"

(* The counters the capacity triggers read are the sizes of the tables     *)
(* they stand for, through every purge, rollback and retirement, and the   *)
(* tables stay within the capacities.                                      *)
UsageExact ==
  /\ usage.claims = Cardinality({i \in Id : claim[i].owner # None})
  /\ usage.receipts = Cardinality({r \in Reservation : Live(r)})
  /\ usage.claims <= ClaimCapacity /\ usage.receipts <= ReceiptCapacity
  /\ Cardinality({r \in Reservation :
                     row[r].state = "pending" /\ ~Expired(r)})
       <= PendingCapacity
=============================================================================
